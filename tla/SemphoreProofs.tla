--------------------------- MODULE SemphoreProofs ---------------------------
(***************************************************************************)
(* The semaphore of std/sync/semphore.rs neither loses nor invents a unit, *)
(* for any number of waits and posts, of which any may fail while it is    *)
(* being woken; and it implements both the counting semaphore and the      *)
(* contract that the modules built on it use.                              *)
(***************************************************************************)
EXTENDS Semphore, CollectionLemmas

-----------------------------------------------------------------------------
(* The sets whose sizes the invariant relates.                             *)

\* They are finite sets of calls.
LEMMA SetsFinite ==
    ASSUME CardinalityFacts, TypeOK
    PROVE  /\ Queued \subseteq Calls
           /\ IsFiniteSet(Counted) /\ Cardinality(Counted) \in Nat
           /\ IsFiniteSet(PoppedEarly) /\ Cardinality(PoppedEarly) \in Nat
           /\ IsFiniteSet(Popping) /\ Cardinality(Popping) \in Nat
           /\ IsFiniteSet(Moving) /\ Cardinality(Moving) \in Nat
           /\ IsFiniteSet(Got) /\ Cardinality(Got) \in Nat
           /\ IsFiniteSet(Posted) /\ Cardinality(Posted) \in Nat
           /\ IsFiniteSet(Handovers) /\ Cardinality(Handovers) \in Nat
<1>1. Queued \subseteq Calls
    BY DEF TypeOK, Queued, Range
<1>2. /\ Counted \subseteq Calls /\ PoppedEarly \subseteq Calls /\ Popping \subseteq Calls
      /\ Moving \subseteq Calls /\ Got \subseteq Calls /\ Posted \subseteq Calls
      /\ Handovers \subseteq Calls
    BY Zenon, <1>1, SemphoreAssumption DEF Counted, PoppedEarly, Popping, Moving, Got, Posted,
       Handovers
<1>3. \A S \in SUBSET Calls : IsFiniteSet(S) /\ Cardinality(S) \in Nat
    BY Zenon, SemphoreAssumption, CardSubset, CardType
<1>. QED BY Zenon, <1>1, <1>2, <1>3

\* How the step of one call from pc[c] to l changes the sizes of the sets that
\* depend on where the calls are.
LEMMA PcCounts ==
    ASSUME CardinalityFacts, TypeOK, NEW c \in Calls, NEW l \in Labels,
           pc' = [pc EXCEPT ![c] = l]
    PROVE  /\ Cardinality(Popping)' =
                  Cardinality(Popping) + One(l = "pop") - One(pc[c] = "pop")
           /\ Cardinality(Moving)' =
                  Cardinality(Moving) + One(l \in {"post", "pop", "unpark"})
                                      - One(pc[c] \in {"post", "pop", "unpark"})
           /\ Cardinality(Got)' =
                  Cardinality(Got) + One(l \in {"taken", "granted"})
                                   - One(pc[c] \in {"taken", "granted"})
           /\ Cardinality(Posted)' =
                  Cardinality(Posted) + One(c \in Posters /\ l # "idle")
                                      - One(c \in Posters /\ pc[c] # "idle")
<1>1. pc \in [Calls -> Labels] /\ pc'[c] = l /\ \A y \in Calls : y # c => pc'[y] = pc[y]
    BY Zenon DEF TypeOK
<1>2. /\ \A y : y # c => (y \in Popping' <=> y \in Popping)
      /\ (c \in Popping' <=> l = "pop") /\ (c \in Popping <=> pc[c] = "pop")
    BY Zenon, <1>1 DEF Popping
<1>3. /\ \A y : y # c => (y \in Moving' <=> y \in Moving)
      /\ (c \in Moving' <=> l \in {"post", "pop", "unpark"})
      /\ (c \in Moving <=> pc[c] \in {"post", "pop", "unpark"})
    BY Zenon, <1>1 DEF Moving
<1>4. /\ \A y : y # c => (y \in Got' <=> y \in Got)
      /\ (c \in Got' <=> l \in {"taken", "granted"})
      /\ (c \in Got <=> pc[c] \in {"taken", "granted"})
    BY Zenon, <1>1 DEF Got
<1>5. /\ \A y : y # c => (y \in Posted' <=> y \in Posted)
      /\ (c \in Posted' <=> c \in Posters /\ l # "idle")
      /\ (c \in Posted <=> c \in Posters /\ pc[c] # "idle")
    BY Zenon, <1>1, SemphoreAssumption DEF Posted
<1>6. Cardinality(Popping)' = Cardinality(Popping) + One(l = "pop") - One(pc[c] = "pop")
  <2>1. Cardinality(Popping') =
            Cardinality(Popping) + One(c \in Popping') - One(c \in Popping)
      BY <1>2, SetsFinite, CountOne
  <2>. QED BY Zenon, <1>2, <2>1 DEF One
<1>7. Cardinality(Moving)' =
          Cardinality(Moving) + One(l \in {"post", "pop", "unpark"})
                              - One(pc[c] \in {"post", "pop", "unpark"})
  <2>1. Cardinality(Moving') = Cardinality(Moving) + One(c \in Moving') - One(c \in Moving)
      BY <1>3, SetsFinite, CountOne
  <2>. QED BY Zenon, <1>3, <2>1 DEF One
<1>8. Cardinality(Got)' =
          Cardinality(Got) + One(l \in {"taken", "granted"})
                           - One(pc[c] \in {"taken", "granted"})
  <2>1. Cardinality(Got') = Cardinality(Got) + One(c \in Got') - One(c \in Got)
      BY <1>4, SetsFinite, CountOne
  <2>. QED BY Zenon, <1>4, <2>1 DEF One
<1>9. Cardinality(Posted)' =
          Cardinality(Posted) + One(c \in Posters /\ l # "idle")
                              - One(c \in Posters /\ pc[c] # "idle")
  <2>1. Cardinality(Posted') = Cardinality(Posted) + One(c \in Posted') - One(c \in Posted)
      BY <1>5, SetsFinite, CountOne
  <2>. QED BY Zenon, <1>5, <2>1 DEF One
<1>. QED BY Zenon, <1>6, <1>7, <1>8, <1>9

\* The handed-over units, when the hand-over of one waiter may have changed.
LEMMA HandoverCount ==
    ASSUME CardinalityFacts, TypeOK, NEW t \in Calls,
           \A x \in Calls \ {t} : Live(x)' <=> Live(x)
    PROVE  Cardinality(Handovers)' = Cardinality(Handovers) + One(Live(t)') - One(Live(t))
<1>1. /\ \A y : y # t => (y \in Handovers' <=> y \in Handovers)
      /\ (t \in Handovers' <=> Live(t)') /\ (t \in Handovers <=> Live(t))
    BY Zenon DEF Handovers
<1>2. Cardinality(Handovers') =
          Cardinality(Handovers) + One(t \in Handovers') - One(t \in Handovers)
    BY <1>1, SetsFinite, CountOne
<1>. QED BY Zenon, <1>1, <1>2 DEF One

\* The positive part of a number.
LEMMA PosValue ==
    \A n \in Int : /\ Pos(n) \in Nat
                   /\ n > 0 => Pos(n) = n
                   /\ n <= 0 => Pos(n) = 0
BY DEF Pos

\* The queue is long enough for the pops that are owed.
LEMMA PopFindsNext ==
    ASSUME CardinalityFacts, TypeOK', QueueCount'
    PROVE  PopFindsBlocker'
<1>1. /\ Counted' \subseteq Range(to_wake') /\ PoppedEarly' \subseteq Calls
      /\ Popping' \subseteq Calls
    BY Zenon DEF Counted, Queued, PoppedEarly, Popping
<1>2. to_wake' \in Seq(Calls) /\ cnt' \in Int
    BY Zenon DEF TypeOK
<1>3. /\ IsFiniteSet(Range(to_wake')) /\ Len(to_wake') \in Nat
      /\ Cardinality(Range(to_wake')) <= Len(to_wake')
    BY Zenon, <1>2, QueueLength
<1>4. /\ Cardinality(Counted') \in Nat
      /\ Cardinality(Counted') <= Cardinality(Range(to_wake'))
      /\ Cardinality(Range(to_wake')) \in Nat
    BY Zenon, <1>1, <1>3, CardSubset, CardType
<1>5. Cardinality(PoppedEarly') \in Nat /\ Cardinality(Popping') \in Nat
    BY Zenon, <1>1, SemphoreAssumption, CardSubset, CardType
<1>6. Cardinality(Popping') <= Len(to_wake')
  <2>1. -cnt' \in Int
      BY <1>2
  <2>2. Pos(-cnt') \in Nat
      BY Zenon, <2>1, PosValue
  <2>. QED BY <1>3, <1>4, <1>5, <2>2 DEF QueueCount
<1>. QED BY Zenon, <1>6 DEF PopFindsBlocker, Popping

-----------------------------------------------------------------------------
(* Steps that unpark nobody.                                               *)

\* A call that neither starts nor ends an unpark leaves Handed and Targeted
\* alone.
LEMMA SameHanded ==
    ASSUME TypeOK, NEW c \in Calls, NEW l \in Labels,
           pc' = [pc EXCEPT ![c] = l],
           pc[c] \notin {"unpark", "store_unparked"},
           l \notin {"unpark", "store_unparked"},
           UNCHANGED <<target, unparked>>
    PROVE  \A x \in Calls : /\ Handed(x)' <=> Handed(x)
                            /\ Targeted(x)' <=> Targeted(x)
BY Zenon DEF TypeOK, Handed, Targeted

\* TargetOK after a step, call by call.
LEMMA TargetOKNext ==
    ASSUME TypeOK',
           \A d \in Calls : \A x \in Calls :
               target'[d] = x =>
                   /\ pc'[d] = "unpark" =>
                        /\ ~Handed(x)'
                        /\ Registered(x)'
                        /\ \A e \in Calls : pc'[e] = "unpark" /\ target'[e] = x => e = d
                   /\ pc'[d] = "take_release" => unparked'[x]
    PROVE  TargetOK'
BY Zenon DEF TypeOK, TargetOK, Handed, Registered

\* The conjuncts of the invariant that do not count.
Shape == TypeOK /\ QueueOK /\ RegisteredOK /\ TargetOK /\ CallOK

\* A step of one call that leaves the queue alone and unparks nobody keeps the
\* shape if it keeps the facts about that call.
LEMMA LocalStep ==
    ASSUME CardinalityFacts, Shape, TypeOK', NEW c \in Calls, NEW l \in Labels,
           pc' = [pc EXCEPT ![c] = l],
           pc[c] \notin {"unpark", "store_unparked", "take_release"},
           l \notin {"unpark", "store_unparked", "take_release"},
           UNCHANGED <<to_wake, target, unparked>>,
           \A x \in Calls \ {c} : /\ ret'[x] = ret[x]
                                  /\ token'[x] = token[x]
                                  /\ release'[x] = release[x],
           Registered(c)' => Registered(c) \/ Handed(c),
           Targeted(c) => Registered(c)',
           FlagsOK(c)', TokenOK(c)', ReleaseOK(c)'
    PROVE  Shape' /\ \A x \in Calls \ {c} : Live(x)' <=> Live(x)
<1>1. \A x \in Calls : (Handed(x)' <=> Handed(x)) /\ (Targeted(x)' <=> Targeted(x))
    BY Zenon, SameHanded DEF Shape
<1>2. Queued' = Queued /\ Queued \subseteq Calls
    BY Zenon, SetsFinite DEF Shape, Queued
<1>3. \A x \in Calls \ {c} : pc'[x] = pc[x]
    BY Zenon DEF Shape, TypeOK
<1>4. QueueOK'
    BY Zenon, <1>1, <1>2 DEF Shape, QueueOK
<1>5. RegisteredOK'
    BY Zenon, <1>1, <1>2, <1>3 DEF Shape, RegisteredOK, Registered
<1>6. TargetOK'
    BY <1>1, <1>3 DEF Shape, TypeOK, TargetOK, Targeted, Registered
<1>7. ASSUME NEW x \in Calls \ {c} PROVE FlagsOK(x)'
    BY <1>1, <1>2, <1>3 DEF Shape, TypeOK, CallOK, FlagsOK, Registered
<1>8. ASSUME NEW x \in Calls \ {c} PROVE TokenOK(x)'
    BY Zenon, <1>1, <1>3 DEF Shape, CallOK, TokenOK
<1>9. ASSUME NEW x \in Calls \ {c} PROVE ReleaseOK(x)'
    BY <1>3 DEF Shape, TypeOK, CallOK, ReleaseOK
<1>10. CallOK'
    BY Zenon, <1>7, <1>8, <1>9 DEF CallOK
<1>11. \A x \in Calls \ {c} : Live(x)' <=> Live(x)
    BY Zenon, <1>1, <1>3 DEF Live
<1>. QED BY Zenon, <1>4, <1>5, <1>6, <1>10, <1>11 DEF Shape

\* The counts after such a step, when the call neither was nor is about to
\* count itself.
LEMMA LocalQueueCount ==
    ASSUME CardinalityFacts, TypeOK, QueueCount, NEW c \in Calls, NEW l \in Labels,
           pc' = [pc EXCEPT ![c] = l],
           pc[c] \notin {"fetch_sub", "unpark", "store_unparked"},
           l \notin {"fetch_sub", "unpark", "store_unparked"},
           UNCHANGED <<to_wake, target, unparked>>,
           cnt' \in Int,
           One(l = "pop") - One(pc[c] = "pop") + Pos(-cnt') - Pos(-cnt) = 0
    PROVE  QueueCount'
<1>1. Counted' = Counted
    BY Zenon, SetsFinite DEF TypeOK, Counted, Queued
<1>2. PoppedEarly' = PoppedEarly
    BY Zenon, SameHanded DEF TypeOK, PoppedEarly
<1>3. Cardinality(Popping)' = Cardinality(Popping) + One(l = "pop") - One(pc[c] = "pop")
    BY Zenon, PcCounts
<1>4. Pos(-cnt) \in Int /\ Pos(-cnt') \in Int
  <2>1. -cnt \in Int /\ -cnt' \in Int
      BY DEF TypeOK
  <2>. QED BY <2>1, PosValue
<1>. QED BY <1>1, <1>2, <1>3, <1>4, SetsFinite DEF QueueCount, One

\* The units after a step of c in which only the hand-over of t may change.
LEMMA LocalUnitCount ==
    ASSUME CardinalityFacts, TypeOK, UnitCount, NEW c \in Calls, NEW l \in Labels, NEW t \in Calls,
           pc' = [pc EXCEPT ![c] = l],
           \A x \in Calls \ {t} : Live(x)' <=> Live(x),
           cnt' \in Int,
           One(c \in Posters /\ l # "idle") - One(c \in Posters /\ pc[c] # "idle")
               = One(l \in {"taken", "granted"}) - One(pc[c] \in {"taken", "granted"})
                 + Pos(cnt') - Pos(cnt)
                 + One(l \in {"post", "pop", "unpark"})
                 - One(pc[c] \in {"post", "pop", "unpark"})
                 + One(Live(t)') - One(Live(t))
    PROVE  UnitCount'
<1>1. cnt \in Int /\ Pos(cnt) \in Int /\ Pos(cnt') \in Int
    BY DEF TypeOK, Pos
<1>2. Cardinality(Handovers)' = Cardinality(Handovers) + One(Live(t)') - One(Live(t))
    BY Zenon, HandoverCount
<1>. DEFINE p1 == One(c \in Posters /\ l # "idle")
            p0 == One(c \in Posters /\ pc[c] # "idle")
            g1 == One(l \in {"taken", "granted"})
            g0 == One(pc[c] \in {"taken", "granted"})
            m1 == One(l \in {"post", "pop", "unpark"})
            m0 == One(pc[c] \in {"post", "pop", "unpark"})
            h1 == One(Live(t)')
            h0 == One(Live(t))
<1>3. /\ p1 \in Int /\ p0 \in Int /\ g1 \in Int /\ g0 \in Int
      /\ m1 \in Int /\ m0 \in Int /\ h1 \in Int /\ h0 \in Int
    BY DEF One
<1>4. /\ Cardinality(Moving)' = Cardinality(Moving) + m1 - m0
      /\ Cardinality(Got)' = Cardinality(Got) + g1 - g0
      /\ Cardinality(Posted)' = Cardinality(Posted) + p1 - p0
      /\ Cardinality(Handovers)' = Cardinality(Handovers) + h1 - h0
      /\ p1 - p0 = g1 - g0 + Pos(cnt') - Pos(cnt) + m1 - m0 + h1 - h0
    BY Zenon, <1>2, PcCounts
<1>. HIDE DEF p1, p0, g1, g0, m1, m0, h1, h0
<1>. QED BY <1>1, <1>3, <1>4, SetsFinite, SemphoreAssumption DEF UnitCount

-----------------------------------------------------------------------------
(* Each action preserves the invariant.                                    *)

\* A unit that is there goes to the call that takes it.
LEMMA TryWaitOkInv ==
    ASSUME CardinalityFacts, Inv, NEW c \in Calls, TryWaitOk(c)
    PROVE  Inv'
<1>. DEFINE l == "taken"
<1>1. pc' = [pc EXCEPT ![c] = l] /\ l \in Labels
    BY Zenon DEF Inv, TypeOK, TryWaitOk, blockerVars, Goto, Labels, Ended
<1>2. TypeOK'
    BY <1>1 DEF Inv, TypeOK, TryWaitOk, blockerVars, BlockerTypeOK
<1>3. /\ Shape /\ pc[c] \notin {"fetch_sub", "unpark", "store_unparked", "take_release"}
      /\ l \notin {"fetch_sub", "unpark", "store_unparked", "take_release"}
      /\ UNCHANGED <<to_wake, target, unparked>>
    BY Zenon DEF Inv, TypeOK, Shape, TryWaitOk, blockerVars
<1>4. (Handed(c)' <=> Handed(c)) /\ (Targeted(c)' <=> Targeted(c)) /\ Queued' = Queued
    BY Zenon, <1>1, <1>3, SameHanded DEF Shape, Queued
<1>5. /\ FlagsOK(c) /\ TokenOK(c) /\ ReleaseOK(c)
      /\ (c \in Queued \/ Targeted(c) => ~Handed(c) /\ Registered(c))
    BY DEF Inv, CallOK, FlagsOK, QueueOK, TargetOK, Targeted
<1>6. (Registered(c)' => Registered(c) \/ Handed(c)) /\ (Targeted(c) => Registered(c)')
    BY Zenon, <1>1, <1>5 DEF Inv, TypeOK, TryWaitOk, blockerVars, Registered, FlagsOK, Handed
<1>7. FlagsOK(c)'
    BY Zenon, <1>1, <1>4, <1>5 DEF Inv, TypeOK, TryWaitOk, blockerVars, Registered, FlagsOK, Handed,
       BlockerTypeOK
<1>8. TokenOK(c)' /\ ReleaseOK(c)'
    BY Zenon, <1>1, <1>4, <1>5 DEF Inv, TypeOK, TryWaitOk, blockerVars, FlagsOK, TokenOK, ReleaseOK,
       BlockerTypeOK
<1>9. Shape' /\ \A x \in Calls \ {c} : Live(x)' <=> Live(x)
  <2>1. \A x \in Calls \ {c} : ret'[x] = ret[x] /\ token'[x] = token[x] /\ release'[x] = release[x]
      BY Zenon DEF Inv, TypeOK, BlockerTypeOK, TryWaitOk, blockerVars
  <2>. QED BY Zenon, <1>1, <1>2, <1>3, <1>6, <1>7, <1>8, <2>1, LocalStep
<1>10. cnt \in Int /\ cnt' \in Int
    BY Zenon, <1>2 DEF Inv, TypeOK
<1>11. QueueCount'
  <2>1. One(l = "pop") - One(pc[c] = "pop") + Pos(-cnt') - Pos(-cnt) = 0
      BY <1>10, PosValue DEF Inv, TypeOK, CallOK, FlagsOK, TryWaitOk, blockerVars, One
  <2>. QED BY Zenon, <1>1, <1>3, <1>10, <2>1, LocalQueueCount DEF Inv
<1>12. UnitCount'
  <2>1. pc[c] = "idle" /\ c \notin Posters /\ cnt > 0 /\ cnt' = cnt - 1
      BY Zenon DEF TryWaitOk
  <2>2. ~Live(c) /\ ~Live(c)'
      BY Zenon, <1>4, <1>5, <2>1 DEF FlagsOK, Live
  <2>3. One(c \in Posters /\ l # "idle") - One(c \in Posters /\ pc[c] # "idle")
            = One(l \in {"taken", "granted"}) - One(pc[c] \in {"taken", "granted"})
              + Pos(cnt') - Pos(cnt)
              + One(l \in {"post", "pop", "unpark"})
              - One(pc[c] \in {"post", "pop", "unpark"})
              + One(Live(c)') - One(Live(c))
      BY <1>10, <2>1, <2>2, PosValue DEF One
  <2>. QED BY Zenon, <1>1, <1>9, <1>10, <2>3, LocalUnitCount DEF Inv
<1>. QED BY Zenon, <1>2, <1>9, <1>11, <1>12, PopFindsNext DEF Inv, Shape

\* A refused try_wait, or the first try of wait, leaves no trace.
LEMMA TryWaitFailsInv ==
    ASSUME CardinalityFacts, Inv, NEW c \in Calls, TryWaitFails(c)
    PROVE  Inv'
<1>1. PICK l \in {"would_block", "push"} : pc' = [pc EXCEPT ![c] = l]
    BY Zenon DEF TryWaitFails, Goto
<1>0. l \in Labels
    BY Zenon DEF Labels, Ended
<1>2. TypeOK'
    BY Zenon, <1>0, <1>1 DEF Inv, TypeOK, TryWaitFails, blockerVars, BlockerTypeOK
<1>3. /\ Shape /\ pc[c] \notin {"fetch_sub", "unpark", "store_unparked", "take_release"}
      /\ l \notin {"fetch_sub", "unpark", "store_unparked", "take_release"}
      /\ UNCHANGED <<to_wake, target, unparked>>
    BY Zenon DEF Inv, TypeOK, Shape, TryWaitFails, blockerVars
<1>4. (Handed(c)' <=> Handed(c)) /\ (Targeted(c)' <=> Targeted(c)) /\ Queued' = Queued
    BY Zenon, <1>0, <1>1, <1>3, SameHanded DEF Shape, Queued
<1>5. /\ FlagsOK(c) /\ TokenOK(c) /\ ReleaseOK(c)
      /\ (c \in Queued \/ Targeted(c) => ~Handed(c) /\ Registered(c))
    BY DEF Inv, CallOK, FlagsOK, QueueOK, TargetOK, Targeted
<1>6. (Registered(c)' => Registered(c) \/ Handed(c)) /\ (Targeted(c) => Registered(c)')
    BY Zenon, <1>1, <1>5 DEF Inv, TypeOK, TryWaitFails, blockerVars, Registered, FlagsOK, Handed
<1>7. FlagsOK(c)'
    BY Zenon, <1>1, <1>4, <1>5 DEF Inv, TypeOK, TryWaitFails, blockerVars, Registered, FlagsOK,
       Handed,
       BlockerTypeOK
<1>8. TokenOK(c)' /\ ReleaseOK(c)'
    BY Zenon, <1>1, <1>4, <1>5 DEF Inv, TypeOK, TryWaitFails, blockerVars, FlagsOK, TokenOK,
       ReleaseOK,
       BlockerTypeOK
<1>9. Shape' /\ \A x \in Calls \ {c} : Live(x)' <=> Live(x)
  <2>1. \A x \in Calls \ {c} : ret'[x] = ret[x] /\ token'[x] = token[x] /\ release'[x] = release[x]
      BY Zenon DEF Inv, TypeOK, BlockerTypeOK, TryWaitFails, blockerVars
  <2>. QED BY Zenon, <1>0, <1>1, <1>2, <1>3, <1>6, <1>7, <1>8, <2>1, LocalStep
<1>10. cnt \in Int /\ cnt' \in Int
    BY Zenon, <1>2 DEF Inv, TypeOK
<1>11. QueueCount'
  <2>1. One(l = "pop") - One(pc[c] = "pop") + Pos(-cnt') - Pos(-cnt) = 0
      BY <1>10, PosValue DEF Inv, TypeOK, CallOK, FlagsOK, TryWaitFails, blockerVars, One
  <2>. QED BY Zenon, <1>0, <1>1, <1>3, <1>10, <2>1, LocalQueueCount DEF Inv
<1>12. UnitCount'
  <2>1. One(c \in Posters /\ l # "idle") - One(c \in Posters /\ pc[c] # "idle")
            = One(l \in {"taken", "granted"}) - One(pc[c] \in {"taken", "granted"})
              + Pos(cnt') - Pos(cnt)
              + One(l \in {"post", "pop", "unpark"})
              - One(pc[c] \in {"post", "pop", "unpark"})
              + One(Live(c)') - One(Live(c))
      BY <1>1, <1>4, <1>5, <1>10, PosValue
      DEF Inv, TypeOK, BlockerTypeOK, FlagsOK, Handed, Live, TryWaitFails, blockerVars, One
  <2>. QED BY Zenon, <1>0, <1>1, <1>9, <1>10, <2>1, LocalUnitCount DEF Inv
<1>. QED BY Zenon, <1>2, <1>9, <1>11, <1>12, PopFindsNext DEF Inv, Shape

\* A woken wait turns the unit it was handed into one it has got.
LEMMA WaitParkOkInv ==
    ASSUME CardinalityFacts, Inv, NEW c \in Calls, WaitParkOk(c)
    PROVE  Inv'
<1>. DEFINE l == "granted"
<1>1. pc' = [pc EXCEPT ![c] = l] /\ l \in Labels
    BY Zenon DEF Inv, TypeOK, WaitParkOk, ParkOk, Goto, Labels, Ended
<1>2. TypeOK'
    BY Zenon, <1>1 DEF Inv, TypeOK, WaitParkOk, ParkOk, BlockerTypeOK
<1>3. /\ Shape /\ pc[c] \notin {"fetch_sub", "unpark", "store_unparked", "take_release"}
      /\ l \notin {"fetch_sub", "unpark", "store_unparked", "take_release"}
      /\ UNCHANGED <<to_wake, target, unparked>>
    BY Zenon DEF Inv, TypeOK, Shape, WaitParkOk, ParkOk
<1>4. (Handed(c)' <=> Handed(c)) /\ (Targeted(c)' <=> Targeted(c)) /\ Queued' = Queued
    BY Zenon, <1>1, <1>3, SameHanded DEF Shape, Queued
<1>5. /\ FlagsOK(c) /\ TokenOK(c) /\ ReleaseOK(c)
      /\ (c \in Queued \/ Targeted(c) => ~Handed(c) /\ Registered(c))
    BY DEF Inv, CallOK, FlagsOK, QueueOK, TargetOK, Targeted
<1>6. (Registered(c)' => Registered(c) \/ Handed(c)) /\ (Targeted(c) => Registered(c)')
    BY Zenon, <1>1, <1>5 DEF Inv, TypeOK, WaitParkOk, ParkOk, Registered, FlagsOK, Handed
<1>7. FlagsOK(c)'
    BY Zenon, <1>1, <1>4, <1>5 DEF Inv, TypeOK, WaitParkOk, ParkOk, Registered, FlagsOK, Handed,
       BlockerTypeOK
<1>8. TokenOK(c)' /\ ReleaseOK(c)'
    BY Zenon, <1>1, <1>4, <1>5 DEF Inv, TypeOK, WaitParkOk, ParkOk, FlagsOK, TokenOK, ReleaseOK,
       BlockerTypeOK
<1>9. Shape' /\ \A x \in Calls \ {c} : Live(x)' <=> Live(x)
  <2>1. \A x \in Calls \ {c} : ret'[x] = ret[x] /\ token'[x] = token[x] /\ release'[x] = release[x]
      BY Zenon DEF Inv, TypeOK, BlockerTypeOK, WaitParkOk, ParkOk
  <2>. QED BY Zenon, <1>1, <1>2, <1>3, <1>6, <1>7, <1>8, <2>1, LocalStep
<1>10. cnt \in Int /\ cnt' \in Int
    BY Zenon, <1>2 DEF Inv, TypeOK
<1>11. QueueCount'
  <2>1. One(l = "pop") - One(pc[c] = "pop") + Pos(-cnt') - Pos(-cnt) = 0
      BY <1>10, PosValue DEF Inv, TypeOK, CallOK, FlagsOK, WaitParkOk, ParkOk, One
  <2>. QED BY Zenon, <1>1, <1>3, <1>10, <2>1, LocalQueueCount DEF Inv
<1>12. UnitCount'
  <2>1. One(c \in Posters /\ l # "idle") - One(c \in Posters /\ pc[c] # "idle")
            = One(l \in {"taken", "granted"}) - One(pc[c] \in {"taken", "granted"})
              + Pos(cnt') - Pos(cnt)
              + One(l \in {"post", "pop", "unpark"})
              - One(pc[c] \in {"post", "pop", "unpark"})
              + One(Live(c)') - One(Live(c))
      BY <1>1, <1>4, <1>5, <1>10, PosValue
      DEF Inv, TypeOK, BlockerTypeOK, FlagsOK, Handed, Live, WaitParkOk, ParkOk, One
  <2>. QED BY Zenon, <1>1, <1>9, <1>10, <2>1, LocalUnitCount DEF Inv
<1>. QED BY Zenon, <1>2, <1>9, <1>11, <1>12, PopFindsNext DEF Inv, Shape

\* A wait that fails keeps the unit it may have been handed.
LEMMA WaitParkErrInv ==
    ASSUME CardinalityFacts, Inv, NEW c \in Calls, WaitParkErr(c)
    PROVE  Inv'
<1>. DEFINE l == "is_unparked"
<1>1. pc' = [pc EXCEPT ![c] = l] /\ l \in Labels
    BY Zenon DEF Inv, TypeOK, WaitParkErr, ParkErr, Goto, Labels, Ended
<1>2. TypeOK'
    BY Zenon, <1>1 DEF Inv, TypeOK, WaitParkErr, ParkErr, BlockerTypeOK
<1>3. /\ Shape /\ pc[c] \notin {"fetch_sub", "unpark", "store_unparked", "take_release"}
      /\ l \notin {"fetch_sub", "unpark", "store_unparked", "take_release"}
      /\ UNCHANGED <<to_wake, target, unparked>>
    BY Zenon DEF Inv, TypeOK, Shape, WaitParkErr, ParkErr
<1>4. (Handed(c)' <=> Handed(c)) /\ (Targeted(c)' <=> Targeted(c)) /\ Queued' = Queued
    BY Zenon, <1>1, <1>3, SameHanded DEF Shape, Queued
<1>5. /\ FlagsOK(c) /\ TokenOK(c) /\ ReleaseOK(c)
      /\ (c \in Queued \/ Targeted(c) => ~Handed(c) /\ Registered(c))
    BY DEF Inv, CallOK, FlagsOK, QueueOK, TargetOK, Targeted
<1>6. (Registered(c)' => Registered(c) \/ Handed(c)) /\ (Targeted(c) => Registered(c)')
    BY Zenon, <1>1, <1>5 DEF Inv, TypeOK, WaitParkErr, ParkErr, Registered, FlagsOK, Handed
<1>7. FlagsOK(c)'
    BY Zenon, <1>1, <1>4, <1>5 DEF Inv, TypeOK, WaitParkErr, ParkErr, Registered, FlagsOK, Handed,
       BlockerTypeOK
<1>8. TokenOK(c)' /\ ReleaseOK(c)'
    BY Zenon, <1>1, <1>4, <1>5 DEF Inv, TypeOK, WaitParkErr, ParkErr, FlagsOK, TokenOK, ReleaseOK,
       BlockerTypeOK
<1>9. Shape' /\ \A x \in Calls \ {c} : Live(x)' <=> Live(x)
  <2>1. \A x \in Calls \ {c} : ret'[x] = ret[x] /\ token'[x] = token[x] /\ release'[x] = release[x]
      BY Zenon DEF Inv, TypeOK, BlockerTypeOK, WaitParkErr, ParkErr
  <2>. QED BY Zenon, <1>1, <1>2, <1>3, <1>6, <1>7, <1>8, <2>1, LocalStep
<1>10. cnt \in Int /\ cnt' \in Int
    BY Zenon, <1>2 DEF Inv, TypeOK
<1>11. QueueCount'
  <2>1. One(l = "pop") - One(pc[c] = "pop") + Pos(-cnt') - Pos(-cnt) = 0
      BY <1>10, PosValue DEF Inv, TypeOK, CallOK, FlagsOK, WaitParkErr, ParkErr, One
  <2>. QED BY Zenon, <1>1, <1>3, <1>10, <2>1, LocalQueueCount DEF Inv
<1>12. UnitCount'
  <2>1. Live(c)' <=> Live(c)
      BY Zenon, <1>1, <1>4, <1>5 DEF Inv, TypeOK, BlockerTypeOK, FlagsOK, Handed, Live, WaitParkErr,
         ParkErr
  <2>2. One(c \in Posters /\ l # "idle") - One(c \in Posters /\ pc[c] # "idle")
            = One(l \in {"taken", "granted"}) - One(pc[c] \in {"taken", "granted"})
              + Pos(cnt') - Pos(cnt)
              + One(l \in {"post", "pop", "unpark"})
              - One(pc[c] \in {"post", "pop", "unpark"})
              + One(Live(c)') - One(Live(c))
      BY <1>10, <2>1, PosValue DEF WaitParkErr, ParkErr, One
  <2>. QED BY Zenon, <1>1, <1>9, <1>10, <2>2, LocalUnitCount DEF Inv
<1>. QED BY Zenon, <1>2, <1>9, <1>11, <1>12, PopFindsNext DEF Inv, Shape

\* A failed wait that sees its unpark takes the unit back to post it.
LEMMA IsUnparkedInv ==
    ASSUME CardinalityFacts, Inv, NEW c \in Calls, IsUnparked(c)
    PROVE  Inv'
<1>. DEFINE l == IF unparked[c] THEN "post" ELSE "set_release"
<1>1. pc' = [pc EXCEPT ![c] = l] /\ l \in Labels
    BY Zenon DEF Inv, TypeOK, IsUnparked, GiveBack, blockerVars, Goto, Labels, Ended
<1>2. TypeOK'
    BY Zenon, <1>1 DEF Inv, TypeOK, IsUnparked, GiveBack, blockerVars, BlockerTypeOK
<1>3. /\ Shape /\ pc[c] \notin {"fetch_sub", "unpark", "store_unparked", "take_release"}
      /\ l \notin {"fetch_sub", "unpark", "store_unparked", "take_release"}
      /\ UNCHANGED <<to_wake, target, unparked>>
    BY Zenon DEF Inv, TypeOK, Shape, IsUnparked, GiveBack, blockerVars
<1>4. (Handed(c)' <=> Handed(c)) /\ (Targeted(c)' <=> Targeted(c)) /\ Queued' = Queued
    BY Zenon, <1>1, <1>3, SameHanded DEF Shape, Queued
<1>5. /\ FlagsOK(c) /\ TokenOK(c) /\ ReleaseOK(c)
      /\ (c \in Queued \/ Targeted(c) => ~Handed(c) /\ Registered(c))
    BY DEF Inv, CallOK, FlagsOK, QueueOK, TargetOK, Targeted
<1>6. (Registered(c)' => Registered(c) \/ Handed(c)) /\ (Targeted(c) => Registered(c)')
    BY Zenon, <1>1, <1>5 DEF Inv, TypeOK, IsUnparked, GiveBack, blockerVars, Registered, FlagsOK,
       Handed
<1>7. FlagsOK(c)'
    BY Zenon, <1>1, <1>4, <1>5 DEF Inv, TypeOK, IsUnparked, GiveBack, blockerVars, Registered,
       FlagsOK,
       Handed, BlockerTypeOK
<1>8. TokenOK(c)' /\ ReleaseOK(c)'
    BY Zenon, <1>1, <1>4, <1>5 DEF Inv, TypeOK, IsUnparked, GiveBack, blockerVars, FlagsOK,
       TokenOK, ReleaseOK, BlockerTypeOK
<1>9. Shape' /\ \A x \in Calls \ {c} : Live(x)' <=> Live(x)
  <2>1. \A x \in Calls \ {c} : ret'[x] = ret[x] /\ token'[x] = token[x] /\ release'[x] = release[x]
      BY Zenon DEF Inv, TypeOK, BlockerTypeOK, IsUnparked, GiveBack, blockerVars
  <2>. QED BY Zenon, <1>1, <1>2, <1>3, <1>6, <1>7, <1>8, <2>1, LocalStep
<1>10. cnt \in Int /\ cnt' \in Int
    BY Zenon, <1>2 DEF Inv, TypeOK
<1>11. QueueCount'
  <2>1. One(l = "pop") - One(pc[c] = "pop") + Pos(-cnt') - Pos(-cnt) = 0
      BY <1>10, PosValue DEF Inv, TypeOK, CallOK, FlagsOK, IsUnparked, GiveBack, blockerVars, One
  <2>. QED BY Zenon, <1>1, <1>3, <1>10, <2>1, LocalQueueCount DEF Inv
<1>12. UnitCount'
  <2>1. IF unparked[c] THEN Live(c) /\ ~Live(c)' ELSE (Live(c)' <=> Live(c))
      BY Zenon, <1>1, <1>4, <1>5 DEF Inv, TypeOK, BlockerTypeOK, FlagsOK, Handed, Live, IsUnparked,
         GiveBack, blockerVars
  <2>2. One(c \in Posters /\ l # "idle") - One(c \in Posters /\ pc[c] # "idle")
            = One(l \in {"taken", "granted"}) - One(pc[c] \in {"taken", "granted"})
              + Pos(cnt') - Pos(cnt)
              + One(l \in {"post", "pop", "unpark"})
              - One(pc[c] \in {"post", "pop", "unpark"})
              + One(Live(c)') - One(Live(c))
      BY <1>10, <2>1, PosValue DEF IsUnparked, GiveBack, blockerVars, One
  <2>. QED BY Zenon, <1>1, <1>9, <1>10, <2>2, LocalUnitCount DEF Inv
<1>. QED BY Zenon, <1>2, <1>9, <1>11, <1>12, PopFindsNext DEF Inv, Shape

\* Raising the release flag leaves a handed unit where it is.
LEMMA WaitSetReleaseInv ==
    ASSUME CardinalityFacts, Inv, NEW c \in Calls, WaitSetRelease(c)
    PROVE  Inv'
<1>. DEFINE l == "recheck"
<1>1. pc' = [pc EXCEPT ![c] = l] /\ l \in Labels
    BY Zenon DEF Inv, TypeOK, WaitSetRelease, SetRelease, Goto, Labels, Ended
<1>2. TypeOK'
    BY Zenon, <1>1 DEF Inv, TypeOK, WaitSetRelease, SetRelease, BlockerTypeOK
<1>3. /\ Shape /\ pc[c] \notin {"fetch_sub", "unpark", "store_unparked", "take_release"}
      /\ l \notin {"fetch_sub", "unpark", "store_unparked", "take_release"}
      /\ UNCHANGED <<to_wake, target, unparked>>
    BY Zenon DEF Inv, TypeOK, Shape, WaitSetRelease, SetRelease
<1>4. (Handed(c)' <=> Handed(c)) /\ (Targeted(c)' <=> Targeted(c)) /\ Queued' = Queued
    BY Zenon, <1>1, <1>3, SameHanded DEF Shape, Queued
<1>5. /\ FlagsOK(c) /\ TokenOK(c) /\ ReleaseOK(c)
      /\ (c \in Queued \/ Targeted(c) => ~Handed(c) /\ Registered(c))
    BY DEF Inv, CallOK, FlagsOK, QueueOK, TargetOK, Targeted
<1>6. (Registered(c)' => Registered(c) \/ Handed(c)) /\ (Targeted(c) => Registered(c)')
    BY Zenon, <1>1, <1>5 DEF Inv, TypeOK, WaitSetRelease, SetRelease, Registered, FlagsOK, Handed
<1>7. FlagsOK(c)'
    BY Zenon, <1>1, <1>4, <1>5 DEF Inv, TypeOK, WaitSetRelease, SetRelease, Registered, FlagsOK,
       Handed, BlockerTypeOK
<1>8. TokenOK(c)' /\ ReleaseOK(c)'
    BY Zenon, <1>1, <1>4, <1>5 DEF Inv, TypeOK, WaitSetRelease, SetRelease, FlagsOK, TokenOK,
       ReleaseOK, BlockerTypeOK
<1>9. Shape' /\ \A x \in Calls \ {c} : Live(x)' <=> Live(x)
  <2>1. \A x \in Calls \ {c} : ret'[x] = ret[x] /\ token'[x] = token[x] /\ release'[x] = release[x]
      BY Zenon DEF Inv, TypeOK, BlockerTypeOK, WaitSetRelease, SetRelease
  <2>. QED BY Zenon, <1>1, <1>2, <1>3, <1>6, <1>7, <1>8, <2>1, LocalStep
<1>10. cnt \in Int /\ cnt' \in Int
    BY Zenon, <1>2 DEF Inv, TypeOK
<1>11. QueueCount'
  <2>1. One(l = "pop") - One(pc[c] = "pop") + Pos(-cnt') - Pos(-cnt) = 0
      BY <1>10, PosValue DEF Inv, TypeOK, CallOK, FlagsOK, WaitSetRelease, SetRelease, One
  <2>. QED BY Zenon, <1>1, <1>3, <1>10, <2>1, LocalQueueCount DEF Inv
<1>12. UnitCount'
  <2>1. Live(c)' <=> Live(c)
      BY Zenon, <1>1, <1>4, <1>5 DEF Inv, TypeOK, BlockerTypeOK, FlagsOK, Handed, Live,
         WaitSetRelease,
         SetRelease
  <2>2. One(c \in Posters /\ l # "idle") - One(c \in Posters /\ pc[c] # "idle")
            = One(l \in {"taken", "granted"}) - One(pc[c] \in {"taken", "granted"})
              + Pos(cnt') - Pos(cnt)
              + One(l \in {"post", "pop", "unpark"})
              - One(pc[c] \in {"post", "pop", "unpark"})
              + One(Live(c)') - One(Live(c))
      BY <1>10, <2>1, PosValue DEF WaitSetRelease, SetRelease, One
  <2>. QED BY Zenon, <1>1, <1>9, <1>10, <2>2, LocalUnitCount DEF Inv
<1>. QED BY Zenon, <1>2, <1>9, <1>11, <1>12, PopFindsNext DEF Inv, Shape

\* Looking at unparked again moves no unit.
LEMMA RecheckInv ==
    ASSUME CardinalityFacts, Inv, NEW c \in Calls, Recheck(c)
    PROVE  Inv'
<1>. DEFINE l == IF unparked[c] THEN "retake" ELSE "failed"
<1>1. pc' = [pc EXCEPT ![c] = l] /\ l \in Labels
    BY Zenon DEF Inv, TypeOK, Recheck, blockerVars, Goto, Labels, Ended
<1>2. TypeOK'
    BY Zenon, <1>1 DEF Inv, TypeOK, Recheck, blockerVars, BlockerTypeOK
<1>3. /\ Shape /\ pc[c] \notin {"fetch_sub", "unpark", "store_unparked", "take_release"}
      /\ l \notin {"fetch_sub", "unpark", "store_unparked", "take_release"}
      /\ UNCHANGED <<to_wake, target, unparked>>
    BY Zenon DEF Inv, TypeOK, Shape, Recheck, blockerVars
<1>4. (Handed(c)' <=> Handed(c)) /\ (Targeted(c)' <=> Targeted(c)) /\ Queued' = Queued
    BY Zenon, <1>1, <1>3, SameHanded DEF Shape, Queued
<1>5. /\ FlagsOK(c) /\ TokenOK(c) /\ ReleaseOK(c)
      /\ (c \in Queued \/ Targeted(c) => ~Handed(c) /\ Registered(c))
    BY DEF Inv, CallOK, FlagsOK, QueueOK, TargetOK, Targeted
<1>6. (Registered(c)' => Registered(c) \/ Handed(c)) /\ (Targeted(c) => Registered(c)')
    BY Zenon, <1>1, <1>5 DEF Inv, TypeOK, Recheck, blockerVars, Registered, FlagsOK, Handed
<1>7. FlagsOK(c)'
    BY Zenon, <1>1, <1>4, <1>5 DEF Inv, TypeOK, Recheck, blockerVars, Registered, FlagsOK,
       Handed, BlockerTypeOK
<1>8. TokenOK(c)' /\ ReleaseOK(c)'
    BY Zenon, <1>1, <1>4, <1>5 DEF Inv, TypeOK, Recheck, blockerVars, FlagsOK, TokenOK,
       ReleaseOK, BlockerTypeOK
<1>9. Shape' /\ \A x \in Calls \ {c} : Live(x)' <=> Live(x)
  <2>1. \A x \in Calls \ {c} : ret'[x] = ret[x] /\ token'[x] = token[x] /\ release'[x] = release[x]
      BY Zenon DEF Inv, TypeOK, BlockerTypeOK, Recheck, blockerVars
  <2>. QED BY Zenon, <1>1, <1>2, <1>3, <1>6, <1>7, <1>8, <2>1, LocalStep
<1>10. cnt \in Int /\ cnt' \in Int
    BY Zenon, <1>2 DEF Inv, TypeOK
<1>11. QueueCount'
  <2>1. One(l = "pop") - One(pc[c] = "pop") + Pos(-cnt') - Pos(-cnt) = 0
      BY <1>10, PosValue DEF Inv, TypeOK, CallOK, FlagsOK, Recheck, blockerVars, One
  <2>. QED BY Zenon, <1>1, <1>3, <1>10, <2>1, LocalQueueCount DEF Inv
<1>12. UnitCount'
  <2>1. Live(c)' <=> Live(c)
      BY Zenon, <1>1, <1>4, <1>5 DEF Inv, TypeOK, BlockerTypeOK, FlagsOK, Handed, Live, Recheck,
         blockerVars
  <2>2. One(c \in Posters /\ l # "idle") - One(c \in Posters /\ pc[c] # "idle")
            = One(l \in {"taken", "granted"}) - One(pc[c] \in {"taken", "granted"})
              + Pos(cnt') - Pos(cnt)
              + One(l \in {"post", "pop", "unpark"})
              - One(pc[c] \in {"post", "pop", "unpark"})
              + One(Live(c)') - One(Live(c))
      BY <1>10, <2>1, PosValue DEF Recheck, blockerVars, One
  <2>. QED BY Zenon, <1>1, <1>9, <1>10, <2>2, LocalUnitCount DEF Inv
<1>. QED BY Zenon, <1>2, <1>9, <1>11, <1>12, PopFindsNext DEF Inv, Shape

\* The unit of a failed wait goes to whoever finds the release flag up.
LEMMA RetakeInv ==
    ASSUME CardinalityFacts, Inv, NEW c \in Calls, Retake(c)
    PROVE  Inv'
<1>. DEFINE l == IF release[c] THEN "post" ELSE "failed"
<1>1. pc' = [pc EXCEPT ![c] = l] /\ l \in Labels
    BY Zenon DEF Inv, TypeOK, Retake, GiveBack, TakeRelease, Goto, Labels, Ended
<1>2. TypeOK'
    BY Zenon, <1>1 DEF Inv, TypeOK, Retake, GiveBack, TakeRelease, BlockerTypeOK
<1>3. /\ Shape /\ pc[c] \notin {"fetch_sub", "unpark", "store_unparked", "take_release"}
      /\ l \notin {"fetch_sub", "unpark", "store_unparked", "take_release"}
      /\ UNCHANGED <<to_wake, target, unparked>>
    BY Zenon DEF Inv, TypeOK, Shape, Retake, GiveBack, TakeRelease
<1>4. (Handed(c)' <=> Handed(c)) /\ (Targeted(c)' <=> Targeted(c)) /\ Queued' = Queued
    BY Zenon, <1>1, <1>3, SameHanded DEF Shape, Queued
<1>5. /\ FlagsOK(c) /\ TokenOK(c) /\ ReleaseOK(c)
      /\ (c \in Queued \/ Targeted(c) => ~Handed(c) /\ Registered(c))
    BY DEF Inv, CallOK, FlagsOK, QueueOK, TargetOK, Targeted
<1>6. (Registered(c)' => Registered(c) \/ Handed(c)) /\ (Targeted(c) => Registered(c)')
    BY Zenon, <1>1, <1>5 DEF Inv, TypeOK, Retake, GiveBack, TakeRelease, Registered, FlagsOK, Handed
<1>7. FlagsOK(c)'
    BY Zenon, <1>1, <1>4, <1>5 DEF Inv, TypeOK, Retake, GiveBack, TakeRelease, Registered, FlagsOK,
       Handed, BlockerTypeOK
<1>8. TokenOK(c)' /\ ReleaseOK(c)'
    BY Zenon, <1>1, <1>4, <1>5 DEF Inv, TypeOK, Retake, GiveBack, TakeRelease, FlagsOK,
       TokenOK, ReleaseOK, BlockerTypeOK
<1>9. Shape' /\ \A x \in Calls \ {c} : Live(x)' <=> Live(x)
  <2>1. \A x \in Calls \ {c} : ret'[x] = ret[x] /\ token'[x] = token[x] /\ release'[x] = release[x]
      BY Zenon DEF Inv, TypeOK, BlockerTypeOK, Retake, GiveBack, TakeRelease
  <2>. QED BY Zenon, <1>1, <1>2, <1>3, <1>6, <1>7, <1>8, <2>1, LocalStep
<1>10. cnt \in Int /\ cnt' \in Int
    BY Zenon, <1>2 DEF Inv, TypeOK
<1>11. QueueCount'
  <2>1. One(l = "pop") - One(pc[c] = "pop") + Pos(-cnt') - Pos(-cnt) = 0
      BY <1>10, PosValue DEF Inv, TypeOK, CallOK, FlagsOK, Retake, GiveBack, TakeRelease, One
  <2>. QED BY Zenon, <1>1, <1>3, <1>10, <2>1, LocalQueueCount DEF Inv
<1>12. UnitCount'
  <2>1. IF release[c] THEN Live(c) /\ ~Live(c)' ELSE (Live(c)' <=> Live(c))
      BY Zenon, <1>1, <1>4, <1>5 DEF Inv, TypeOK, BlockerTypeOK, FlagsOK, Handed, Live, Retake,
         GiveBack, TakeRelease
  <2>2. One(c \in Posters /\ l # "idle") - One(c \in Posters /\ pc[c] # "idle")
            = One(l \in {"taken", "granted"}) - One(pc[c] \in {"taken", "granted"})
              + Pos(cnt') - Pos(cnt)
              + One(l \in {"post", "pop", "unpark"})
              - One(pc[c] \in {"post", "pop", "unpark"})
              + One(Live(c)') - One(Live(c))
      BY <1>10, <2>1, PosValue DEF Retake, GiveBack, TakeRelease, One
  <2>. QED BY Zenon, <1>1, <1>9, <1>10, <2>2, LocalUnitCount DEF Inv
<1>. QED BY Zenon, <1>2, <1>9, <1>11, <1>12, PopFindsNext DEF Inv, Shape

\* A posted unit becomes available, or the poster moves it to a waiter.
LEMMA PostInv ==
    ASSUME CardinalityFacts, Inv, NEW c \in Calls, Post(c)
    PROVE  Inv'
<1>. DEFINE l == IF cnt < 0 THEN "pop" ELSE ret[c]
<1>1. pc' = [pc EXCEPT ![c] = l] /\ l \in Labels
    BY Zenon DEF Inv, TypeOK, Post, AtPost, blockerVars, Goto, Labels, Ended
<1>2. TypeOK'
    BY <1>1 DEF Inv, TypeOK, Post, AtPost, blockerVars, BlockerTypeOK
<1>3. /\ Shape /\ pc[c] \notin {"fetch_sub", "unpark", "store_unparked", "take_release"}
      /\ l \notin {"fetch_sub", "unpark", "store_unparked", "take_release"}
      /\ UNCHANGED <<to_wake, target, unparked>>
    BY Zenon DEF Inv, TypeOK, Shape, Post, AtPost, blockerVars
<1>4. (Handed(c)' <=> Handed(c)) /\ (Targeted(c)' <=> Targeted(c)) /\ Queued' = Queued
    BY Zenon, <1>1, <1>3, SameHanded DEF Shape, Queued
<1>5. /\ FlagsOK(c) /\ TokenOK(c) /\ ReleaseOK(c)
      /\ (c \in Queued \/ Targeted(c) => ~Handed(c) /\ Registered(c))
    BY DEF Inv, CallOK, FlagsOK, QueueOK, TargetOK, Targeted
<1>6. (Registered(c)' => Registered(c) \/ Handed(c)) /\ (Targeted(c) => Registered(c)')
    BY Zenon, <1>1, <1>5 DEF Inv, TypeOK, Post, AtPost, blockerVars, Registered, FlagsOK, Handed
<1>7. FlagsOK(c)'
    BY Zenon, <1>1, <1>4, <1>5 DEF Inv, TypeOK, Post, AtPost, blockerVars, Registered,
       FlagsOK, Handed, BlockerTypeOK
<1>8. TokenOK(c)' /\ ReleaseOK(c)'
    BY Zenon, <1>1, <1>4, <1>5 DEF Inv, TypeOK, Post, AtPost, blockerVars, FlagsOK, TokenOK,
       ReleaseOK, BlockerTypeOK
<1>9. Shape' /\ \A x \in Calls \ {c} : Live(x)' <=> Live(x)
  <2>1. \A x \in Calls \ {c} : ret'[x] = ret[x] /\ token'[x] = token[x] /\ release'[x] = release[x]
      BY Zenon DEF Inv, TypeOK, BlockerTypeOK, Post, AtPost, blockerVars
  <2>. QED BY Zenon, <1>1, <1>2, <1>3, <1>6, <1>7, <1>8, <2>1, LocalStep
<1>10. cnt \in Int /\ cnt' \in Int
    BY Zenon, <1>2 DEF Inv, TypeOK
<1>11. QueueCount'
  <2>1. One(l = "pop") - One(pc[c] = "pop") + Pos(-cnt') - Pos(-cnt) = 0
    <3>1. pc[c] # "pop" /\ (l = "pop" <=> cnt < 0) /\ cnt' = cnt + 1
        BY Zenon DEF Inv, TypeOK, Post, AtPost
    <3>2. Pos(-cnt) = (IF cnt < 0 THEN 0 - cnt ELSE 0)
        BY <1>10, PosValue
    <3>3. Pos(-cnt') = Pos(-(cnt + 1)) /\ Pos(-(cnt + 1)) = (IF cnt < 0 THEN 0 - (cnt + 1) ELSE 0)
        BY <1>10, <3>1, PosValue
    <3>. QED BY <1>10, <3>1, <3>2, <3>3 DEF One
  <2>. QED BY Zenon, <1>1, <1>3, <1>10, <2>1, LocalQueueCount DEF Inv
<1>12. UnitCount'
  <2>1. Live(c)' <=> Live(c)
      BY Zenon, <1>1, <1>4, <1>5 DEF Inv, TypeOK, BlockerTypeOK, FlagsOK, Handed, Live, Post,
         AtPost,
         blockerVars
  <2>2. One(c \in Posters /\ l # "idle") - One(c \in Posters /\ pc[c] # "idle")
            = One(l \in {"taken", "granted"}) - One(pc[c] \in {"taken", "granted"})
              + Pos(cnt') - Pos(cnt)
              + One(l \in {"post", "pop", "unpark"})
              - One(pc[c] \in {"post", "pop", "unpark"})
              + One(Live(c)') - One(Live(c))
    <3>1. /\ l = (IF cnt < 0 THEN "pop" ELSE ret[c])
          /\ ret[c] \in {"park", "failed", "posted"} /\ cnt' = cnt + 1
          /\ pc[c] = "post" \/ (pc[c] = "idle" /\ c \in Posters)
        BY Zenon DEF Inv, TypeOK, Post, AtPost
    <3>2. Pos(cnt') - Pos(cnt) = (IF cnt < 0 THEN 0 ELSE 1) /\ Pos(cnt') \in Int /\ Pos(cnt) \in Int
        BY <1>10, <3>1, PosValue
    <3>3. One(Live(c)') = One(Live(c)) /\ One(Live(c)) \in Int
        BY <2>1 DEF One
    <3>4. One(l \in {"taken", "granted"}) = 0 /\ One(pc[c] \in {"taken", "granted"}) = 0
        BY Zenon, <3>1 DEF One
    <3>5. /\ One(c \in Posters /\ l # "idle") - One(c \in Posters /\ pc[c] # "idle")
                = (IF pc[c] = "idle" THEN 1 ELSE 0)
        BY <3>1 DEF One
    <3>6. /\ One(l \in {"post", "pop", "unpark"}) = (IF cnt < 0 THEN 1 ELSE 0)
          /\ One(pc[c] \in {"post", "pop", "unpark"}) = (IF pc[c] = "idle" THEN 0 ELSE 1)
        BY Zenon, <3>1 DEF One
    <3>. HIDE DEF l
    <3>. QED BY <3>2, <3>3, <3>4, <3>5, <3>6
  <2>. QED BY Zenon, <1>1, <1>9, <1>10, <2>2, LocalUnitCount DEF Inv
<1>. QED BY Zenon, <1>2, <1>9, <1>11, <1>12, PopFindsNext DEF Inv, Shape

\* A wait that counts itself is covered by a negative cnt or passes on the unit
\* it has found; if it was popped before, it no longer counts as popped early.
LEMMA FetchSubInv ==
    ASSUME CardinalityFacts, Inv, NEW c \in Calls, FetchSub(c)
    PROVE  Inv'
<1>. DEFINE l == IF cnt > 0 THEN "pop" ELSE "park"
<1>1. pc' = [pc EXCEPT ![c] = l] /\ l \in Labels
    BY Zenon DEF FetchSub, Goto, Labels
<1>2. TypeOK'
    BY <1>1 DEF Inv, TypeOK, FetchSub, BlockerTypeOK, blockerVars
<1>3. /\ Shape /\ pc[c] = "fetch_sub" /\ l \in {"pop", "park"}
      /\ UNCHANGED <<to_wake, target, unparked, ret, token, release>>
      /\ cnt \in Int /\ cnt' = cnt - 1
    BY Zenon DEF Inv, TypeOK, Shape, FetchSub, blockerVars
<1>4. \A x \in Calls : (Handed(x)' <=> Handed(x)) /\ (Targeted(x)' <=> Targeted(x))
    BY Zenon, <1>1, <1>3, SameHanded DEF Shape
<1>5. Queued' = Queued /\ Queued \subseteq Calls
    BY Zenon, <1>3, SetsFinite DEF Queued, Shape
<1>6. /\ FlagsOK(c) /\ TokenOK(c) /\ ReleaseOK(c) /\ ret[c] = "park" /\ c \notin Posters
      /\ c \in Queued <=> ~(Handed(c) \/ Targeted(c))
    BY Zenon, <1>3 DEF Inv, CallOK, FlagsOK, QueueOK, RegisteredOK, Registered
<1>7. Registered(c) /\ Registered(c)'
    BY Zenon, <1>1, <1>3, <1>6 DEF Inv, TypeOK, Registered
<1>8. FlagsOK(c)'
    BY Zenon, <1>1, <1>3, <1>4, <1>5, <1>6, <1>7 DEF Inv, TypeOK, FlagsOK
<1>9. TokenOK(c)' /\ ReleaseOK(c)'
    BY Zenon, <1>1, <1>3, <1>4, <1>6 DEF Inv, TypeOK, TokenOK, ReleaseOK
<1>10. Shape' /\ \A x \in Calls \ {c} : Live(x)' <=> Live(x)
    BY Zenon, <1>1, <1>2, <1>3, <1>7, <1>8, <1>9, LocalStep
<1>11. QueueCount'
  <2>1. Cardinality(Counted)' = Cardinality(Counted) + (IF c \in Queued THEN 1 ELSE 0)
    <3>1. /\ \A y : y # c => (y \in Counted' <=> y \in Counted)
          /\ c \notin Counted /\ (c \in Counted' <=> c \in Queued)
        BY Zenon, <1>1, <1>3, <1>5 DEF Inv, TypeOK, Counted
    <3>2. Cardinality(Counted') = Cardinality(Counted) + One(c \in Counted') - One(c \in Counted)
        BY Zenon, <1>3, <3>1, SetsFinite, CountOne DEF Shape
    <3>. QED BY <1>3, <3>1, <3>2, SetsFinite DEF One, Shape
  <2>2. Cardinality(PoppedEarly)' = Cardinality(PoppedEarly) - (IF c \in Queued THEN 0 ELSE 1)
    <3>1. /\ \A y : y # c => (y \in PoppedEarly' <=> y \in PoppedEarly)
          /\ c \notin PoppedEarly' /\ (c \in PoppedEarly <=> c \notin Queued)
        BY Zenon, <1>1, <1>3, <1>4, <1>6 DEF Inv, TypeOK, PoppedEarly
    <3>2. Cardinality(PoppedEarly') =
              Cardinality(PoppedEarly) + One(c \in PoppedEarly') - One(c \in PoppedEarly)
        BY <1>3, <3>1, SetsFinite, CountOne DEF Shape
    <3>. QED BY <1>3, <3>1, <3>2, SetsFinite DEF One, Shape
  <2>3. Cardinality(Popping)' = Cardinality(Popping) + (IF cnt > 0 THEN 1 ELSE 0)
    <3>1. Cardinality(Popping)' = Cardinality(Popping) + One(l = "pop") - One(pc[c] = "pop")
        BY Zenon, <1>1, <1>3, PcCounts DEF Shape
    <3>2. One(l = "pop") = (IF cnt > 0 THEN 1 ELSE 0) /\ One(pc[c] = "pop") = 0
        BY Zenon, <1>3 DEF One
    <3>3. Cardinality(Popping) \in Nat
        BY Zenon, <1>3, SetsFinite DEF Shape
    <3>. HIDE DEF l
    <3>. QED BY <3>1, <3>2, <3>3
  <2>4. Pos(-cnt) = (IF cnt > 0 THEN 0 ELSE 0 - cnt)
      BY <1>3, PosValue
  <2>5. Pos(-(cnt - 1)) = (IF cnt > 0 THEN 0 ELSE 1 - cnt)
      BY <1>3, PosValue
  <2>. QED BY <1>3, <2>1, <2>2, <2>3, <2>4, <2>5, SetsFinite DEF Inv, QueueCount
<1>12. UnitCount'
  <2>1. Live(c)' <=> Live(c)
      BY Zenon, <1>1, <1>3, <1>4, <1>6 DEF Inv, TypeOK, Live
  <2>2. Pos(cnt') - Pos(cnt) = (IF cnt > 0 THEN -1 ELSE 0) /\ Pos(cnt') \in Int /\ Pos(cnt) \in Int
      BY <1>3, PosValue
  <2>3. One(Live(c)') = One(Live(c)) /\ One(Live(c)) \in Int
      BY <2>1 DEF One
  <2>4. /\ One(c \in Posters /\ l # "idle") = 0 /\ One(c \in Posters /\ pc[c] # "idle") = 0
        /\ One(l \in {"taken", "granted"}) = 0 /\ One(pc[c] \in {"taken", "granted"}) = 0
        /\ One(l \in {"post", "pop", "unpark"}) = (IF cnt > 0 THEN 1 ELSE 0)
        /\ One(pc[c] \in {"post", "pop", "unpark"}) = 0
      BY Zenon, <1>3, <1>6 DEF One
  <2>5. One(c \in Posters /\ l # "idle") - One(c \in Posters /\ pc[c] # "idle")
            = One(l \in {"taken", "granted"}) - One(pc[c] \in {"taken", "granted"})
              + Pos(cnt') - Pos(cnt)
              + One(l \in {"post", "pop", "unpark"})
              - One(pc[c] \in {"post", "pop", "unpark"})
              + One(Live(c)') - One(Live(c))
    <3>. HIDE DEF l
    <3>. QED BY <2>2, <2>3, <2>4
  <2>6. cnt' \in Int
      BY <1>3
  <2>. QED BY Zenon, <1>1, <1>10, <2>5, <2>6, LocalUnitCount DEF Inv
<1>. QED BY Zenon, <1>2, <1>10, <1>11, <1>12, PopFindsNext DEF Inv, Shape

\* A wait that puts its blocker into the queue does not count itself yet.
LEMMA PushInv ==
    ASSUME CardinalityFacts, Inv, NEW c \in Calls, Push(c)
    PROVE  Inv'
<1>1. /\ pc' = [pc EXCEPT ![c] = "fetch_sub"] /\ "fetch_sub" \in Labels
      /\ pc[c] = "push" /\ to_wake' = Append(to_wake, c)
      /\ UNCHANGED <<cnt, target, ret, token, unparked, release>>
    BY Zenon DEF Push, Goto, Labels, blockerVars
<1>2. /\ ret[c] = "park" /\ c \notin Posters /\ c \notin Queued
      /\ ~Handed(c) /\ ~Targeted(c) /\ ~release[c] /\ ~token[c] /\ ~unparked[c]
    BY Zenon, <1>1 DEF Inv, CallOK, FlagsOK, Registered, Handed
<1>3. /\ to_wake' \in Seq(Calls) /\ Queued' = Queued \cup {c} /\ IsInjective(to_wake')
      /\ Queued \subseteq Calls
    BY <1>1, <1>2, QueueAppend, SetsFinite DEF Inv, TypeOK, QueueOK, Queued
<1>4. TypeOK'
    BY Zenon, <1>1, <1>3 DEF Inv, TypeOK, BlockerTypeOK
<1>5. \A x \in Calls : (Handed(x)' <=> Handed(x)) /\ (Targeted(x)' <=> Targeted(x))
    BY Zenon, <1>1, SameHanded DEF Inv
<1>6. pc'[c] = "fetch_sub" /\ \A x \in Calls \ {c} : pc'[x] = pc[x]
    BY Zenon, <1>1 DEF Inv, TypeOK
<1>7. QueueOK'
    BY Zenon, <1>1, <1>2, <1>3, <1>5 DEF Inv, QueueOK
<1>8. RegisteredOK'
    BY Zenon, <1>1, <1>3, <1>5, <1>6 DEF Inv, RegisteredOK, Registered
<1>9. TargetOK'
    BY <1>1, <1>2, <1>5, <1>6 DEF Inv, TypeOK, TargetOK, Registered
<1>10. ASSUME NEW x \in Calls PROVE FlagsOK(x)'
  <2>1. CASE x = c
      BY Zenon, <1>1, <1>2, <1>3, <1>5, <1>6, <2>1 DEF FlagsOK, Registered
  <2>2. CASE x # c
    <3>1. FlagsOK(x)
        BY Zenon DEF Inv, CallOK
    <3>2. /\ pc'[x] = pc[x] /\ (x \in Queued' <=> x \in Queued)
          /\ (Handed(x)' <=> Handed(x)) /\ (Targeted(x)' <=> Targeted(x))
        BY Zenon, <1>3, <1>5, <1>6, <2>2
    <3>3. UNCHANGED <<token, unparked, release, ret>>
        BY Zenon, <1>1
    <3>4. Registered(x)' <=> Registered(x)
        BY Zenon, <3>2, <3>3 DEF Registered
    <3>. QED BY Zenon, <3>1, <3>2, <3>3, <3>4 DEF FlagsOK
  <2>. QED BY Zenon, <2>1, <2>2
<1>11. ASSUME NEW x \in Calls PROVE TokenOK(x)' /\ ReleaseOK(x)'
    BY ZenonT(40), <1>1, <1>2, <1>5, <1>6 DEF Inv, TypeOK, CallOK, TokenOK, ReleaseOK
<1>12. CallOK'
    BY Zenon, <1>10, <1>11 DEF CallOK
<1>13. QueueCount'
  <2>1. Counted' = Counted
      BY Zenon, <1>2, <1>3, <1>6 DEF Counted
  <2>2. PoppedEarly' = PoppedEarly
      BY Zenon, <1>1, <1>2, <1>5, <1>6 DEF PoppedEarly
  <2>3. Popping' = Popping
      BY Zenon, <1>1, <1>6 DEF Popping
  <2>. QED BY Zenon, <1>1, <2>1, <2>2, <2>3 DEF Inv, QueueCount
<1>14. UnitCount'
  <2>1. Handovers' = Handovers
      BY Zenon, <1>1, <1>2, <1>5, <1>6 DEF Handovers, Live
  <2>2. Moving' = Moving /\ Got' = Got /\ Posted' = Posted
      BY Zenon, <1>1, <1>2, <1>6, SemphoreAssumption DEF Moving, Got, Posted
  <2>. QED BY Zenon, <1>1, <2>1, <2>2 DEF Inv, UnitCount
<1>. QED
    BY Zenon, <1>4, <1>7, <1>8, <1>9, <1>12, <1>13, <1>14, PopFindsNext DEF Inv

\* A call that pops a blocker turns its pop into an unpark of that waiter.
LEMMA PopInv ==
    ASSUME CardinalityFacts, Inv, NEW c \in Calls, Pop(c)
    PROVE  Inv'
<1>0. PICK t : t = Head(to_wake)
    BY Zenon
<1>1. /\ pc' = [pc EXCEPT ![c] = "unpark"] /\ "unpark" \in Labels
      /\ pc[c] = "pop" /\ to_wake # <<>> /\ to_wake' = Tail(to_wake)
      /\ target' = [target EXCEPT ![c] = t]
      /\ UNCHANGED <<cnt, ret, token, unparked, release>>
    BY Zenon, <1>0 DEF Pop, Goto, Labels, blockerVars
<1>2. /\ t \in Calls /\ to_wake' \in Seq(Calls) /\ t \in Queued
      /\ Queued' = Queued \ {t} /\ IsInjective(to_wake') /\ Queued \subseteq Calls
    BY Zenon, <1>0, <1>1, QueueTail, SetsFinite DEF Inv, TypeOK, QueueOK, Queued
<1>3. ~Handed(t) /\ ~Targeted(t) /\ Registered(t)
    BY Zenon, <1>2 DEF Inv, QueueOK, CallOK, FlagsOK
<1>4. TypeOK'
    BY Zenon, <1>1, <1>2 DEF Inv, TypeOK, BlockerTypeOK
<1>5. /\ pc'[c] = "unpark" /\ target'[c] = t
      /\ \A x \in Calls \ {c} : pc'[x] = pc[x] /\ target'[x] = target[x]
    BY Zenon, <1>1 DEF Inv, TypeOK
<1>6. \A x \in Calls : Handed(x)' <=> Handed(x)
    BY Zenon, <1>1, <1>5 DEF Handed
<1>7. Targeted(t)' /\ \A x \in Calls \ {t} : Targeted(x)' <=> Targeted(x)
    BY Zenon, <1>1, <1>2, <1>5 DEF Targeted
<1>8. \A x \in Calls : Registered(x)' <=> Registered(x)
    BY Zenon, <1>1, <1>5 DEF Registered
<1>9. QueueOK'
    BY Zenon, <1>2, <1>6, <1>7 DEF Inv, QueueOK
<1>10. RegisteredOK'
    BY Zenon, <1>2, <1>6, <1>7, <1>8 DEF Inv, RegisteredOK
<1>11. TargetOK'
  <2>. SUFFICES ASSUME NEW d \in Calls, NEW x \in Calls, target'[d] = x
                PROVE  /\ pc'[d] = "unpark" =>
                            /\ ~Handed(x)'
                            /\ Registered(x)'
                            /\ \A e \in Calls : pc'[e] = "unpark" /\ target'[e] = x => e = d
                       /\ pc'[d] = "take_release" => unparked'[x]
      BY Zenon, <1>4, TargetOKNext
  <2>0. target \in [Calls -> Calls]
      BY Zenon DEF Inv, TypeOK
  <2>1. \A e \in Calls \ {c} : pc[e] = "unpark" => target[e] # t
      BY Zenon, <1>3 DEF Targeted
  <2>2. CASE d = c
      BY Zenon, <1>2, <1>3, <1>5, <1>6, <1>8, <2>1, <2>2
  <2>3. CASE d # c
      BY <1>1, <1>5, <1>6, <1>8, <2>0, <2>1, <2>3 DEF Inv, TargetOK
  <2>. QED BY Zenon, <2>2, <2>3
<1>12. ASSUME NEW x \in Calls PROVE FlagsOK(x)'
  <2>1. FlagsOK(x)
      BY Zenon DEF Inv, CallOK
  <2>2. pc'[x] \in {"idle", "push"} => x # t
      BY Zenon, <1>1, <1>3, <1>5 DEF Registered
  <2>. QED BY Zenon, <1>1, <1>2, <1>5, <1>6, <1>7, <1>8, <2>1, <2>2 DEF FlagsOK
<1>13. ASSUME NEW x \in Calls PROVE TokenOK(x)' /\ ReleaseOK(x)'
  <2>1. TokenOK(x) /\ ReleaseOK(x)
      BY Zenon DEF Inv, CallOK
  <2>2. TokenOK(x)'
      BY Zenon, <1>1, <1>5, <1>6, <2>1 DEF TokenOK
  <2>3. ReleaseOK(x)'
      BY Zenon, <1>1, <1>5, <2>1 DEF ReleaseOK
  <2>. QED BY Zenon, <2>2, <2>3
<1>14. CallOK'
    BY Zenon, <1>12, <1>13 DEF CallOK
<1>15. QueueCount'
  <2>1. Cardinality(Counted)' = Cardinality(Counted) - (IF pc[t] = "fetch_sub" THEN 0 ELSE 1)
    <3>1. /\ \A y : y # t => (y \in Counted' <=> y \in Counted)
          /\ t \notin Counted' /\ (t \in Counted <=> pc[t] # "fetch_sub")
        BY Zenon, <1>1, <1>2, <1>5 DEF Counted
    <3>2. Cardinality(Counted') = Cardinality(Counted) + One(t \in Counted') - One(t \in Counted)
        BY <3>1, SetsFinite, CountOne DEF Inv
    <3>. QED BY <3>1, <3>2, SetsFinite DEF One, Inv
  <2>2. Cardinality(PoppedEarly)' =
            Cardinality(PoppedEarly) + (IF pc[t] = "fetch_sub" THEN 1 ELSE 0)
    <3>1. /\ \A y : y # t => (y \in PoppedEarly' <=> y \in PoppedEarly)
          /\ t \notin PoppedEarly /\ (t \in PoppedEarly' <=> pc[t] = "fetch_sub")
        BY Zenon, <1>1, <1>2, <1>3, <1>5, <1>6, <1>7 DEF PoppedEarly
    <3>2. Cardinality(PoppedEarly') =
              Cardinality(PoppedEarly) + One(t \in PoppedEarly') - One(t \in PoppedEarly)
        BY Zenon, <3>1, SetsFinite, CountOne DEF Inv
    <3>. QED BY <3>1, <3>2, SetsFinite DEF One, Inv
  <2>3. Cardinality(Popping)' = Cardinality(Popping) - 1
    <3>1. Cardinality(Popping)' = Cardinality(Popping) + One("unpark" = "pop") - One(pc[c] = "pop")
        BY Zenon, <1>1, PcCounts DEF Inv
    <3>. QED BY <1>1, <3>1, SetsFinite DEF One, Inv
  <2>4. Pos(-cnt) \in Nat
    <3>1. -cnt \in Int
        BY DEF Inv, TypeOK
    <3>. QED BY Zenon, <3>1, PosValue
  <2>. QED BY <1>1, <2>1, <2>2, <2>3, <2>4, SetsFinite DEF Inv, QueueCount
<1>16. UnitCount'
  <2>1. Handovers' = Handovers
      BY Zenon, <1>1, <1>5, <1>6 DEF Handovers, Live
  <2>2. Moving' = Moving /\ Got' = Got /\ Posted' = Posted
      BY Zenon, <1>1, <1>5, SemphoreAssumption DEF Moving, Got, Posted
  <2>. QED BY Zenon, <1>1, <2>1, <2>2 DEF Inv, UnitCount
<1>. QED
    BY Zenon, <1>4, <1>9, <1>10, <1>11, <1>14, <1>15, <1>16, PopFindsNext DEF Inv

\* The unit that was being moved is handed to the waiter that is unparked, which
\* still waits or has its release flag up.
LEMMA UnparkInv ==
    ASSUME CardinalityFacts, Inv, NEW c \in Calls, Unpark(c)
    PROVE  Inv'
<1>0. PICK t \in Calls : t = target[c]
    BY Zenon DEF Inv, TypeOK
<1>1. /\ pc' = [pc EXCEPT ![c] = "store_unparked"] /\ "store_unparked" \in Labels
      /\ pc[c] = "unpark" /\ token' = [token EXCEPT ![t] = TRUE]
      /\ UNCHANGED <<cnt, to_wake, target, ret, unparked, release>>
    BY Zenon, <1>0 DEF Unpark, BlockerUnpark, Goto, Labels
<1>3. /\ ~Handed(t) /\ Targeted(t) /\ Registered(t)
      /\ \A d \in Calls : pc[d] = "unpark" /\ target[d] = t => d = c
    BY Zenon, <1>0, <1>1 DEF Inv, TargetOK, Targeted
<1>4. TypeOK'
    BY Zenon, <1>1 DEF Inv, TypeOK, BlockerTypeOK
<1>5. /\ pc'[c] = "store_unparked" /\ target'[c] = t /\ token'[t] = TRUE
      /\ \A x \in Calls \ {c} : pc'[x] = pc[x] /\ target'[x] = target[x]
      /\ \A x \in Calls \ {t} : token'[x] = token[x]
    BY Zenon, <1>0, <1>1 DEF Inv, TypeOK, BlockerTypeOK
<1>6. Handed(t)' /\ \A x \in Calls \ {t} : Handed(x)' <=> Handed(x)
    BY <1>1, <1>5 DEF Handed
<1>7. ~Targeted(t)' /\ \A x \in Calls \ {t} : Targeted(x)' <=> Targeted(x)
    BY <1>1, <1>3, <1>5 DEF Targeted
<1>8. \A x \in Calls : Registered(x)' <=> Registered(x)
    BY Zenon, <1>1, <1>5 DEF Registered
<1>9. Queued' = Queued /\ Queued \subseteq Calls /\ t \notin Queued
    BY Zenon, <1>1, <1>3, SetsFinite DEF Inv, Queued, QueueOK
<1>10. QueueOK'
    BY Zenon, <1>1, <1>6, <1>7, <1>9 DEF Inv, QueueOK
<1>11. RegisteredOK'
    BY Zenon, <1>6, <1>7, <1>8, <1>9 DEF Inv, RegisteredOK
<1>12. TargetOK'
  <2>. SUFFICES ASSUME NEW d \in Calls, NEW x \in Calls, target'[d] = x
                PROVE  /\ pc'[d] = "unpark" =>
                            /\ ~Handed(x)'
                            /\ Registered(x)'
                            /\ \A e \in Calls : pc'[e] = "unpark" /\ target'[e] = x => e = d
                       /\ pc'[d] = "take_release" => unparked'[x]
      BY Zenon, <1>4, TargetOKNext
  <2>0. target \in [Calls -> Calls]
      BY Zenon DEF Inv, TypeOK
  <2>1. CASE d = c
      BY Zenon, <1>5, <2>1
  <2>2. CASE d # c
      BY <1>1, <1>3, <1>5, <1>6, <1>8, <2>0, <2>2 DEF Inv, TargetOK
  <2>. QED BY Zenon, <2>1, <2>2
<1>13. ASSUME NEW x \in Calls PROVE FlagsOK(x)'
  <2>1. FlagsOK(x)
      BY Zenon DEF Inv, CallOK
  <2>2. pc'[x] \in {"idle", "push"} => x # t
      BY <1>1, <1>3, <1>5 DEF Registered
  <2>. QED BY Zenon, <1>1, <1>5, <1>6, <1>7, <1>8, <1>9, <2>1, <2>2 DEF FlagsOK
<1>14. ASSUME NEW x \in Calls PROVE TokenOK(x)' /\ ReleaseOK(x)'
  <2>1. TokenOK(x) /\ ReleaseOK(x)
      BY Zenon DEF Inv, CallOK
  <2>2. TokenOK(x)'
      BY <1>1, <1>5, <1>6, <2>1 DEF TokenOK
  <2>3. ReleaseOK(x)'
      BY ZenonT(40), <1>1, <1>5, <2>1 DEF ReleaseOK
  <2>. QED BY Zenon, <2>2, <2>3
<1>15. CallOK'
    BY Zenon, <1>13, <1>14 DEF CallOK
<1>16. QueueCount'
  <2>1. Counted' = Counted
      BY Zenon, <1>1, <1>5, <1>9 DEF Counted
  <2>2. PoppedEarly' = PoppedEarly
      BY <1>1, <1>3, <1>5, <1>6, <1>7 DEF PoppedEarly
  <2>3. Popping' = Popping
      BY Zenon, <1>1, <1>5 DEF Popping
  <2>. QED BY Zenon, <1>1, <2>1, <2>2, <2>3 DEF Inv, QueueCount
<1>17. UnitCount'
  <2>1. \A x \in Calls \ {t} : Live(x)' <=> Live(x)
      BY ZenonT(40), <1>1, <1>5, <1>6 DEF Live
  <2>2. ~Live(t) /\ Live(t)'
    <3>1. FlagsOK(t)
        BY Zenon DEF Inv, CallOK
    <3>2. ~Handed(t) /\ Handed(t)'
        BY Zenon, <1>3, <1>6
    <3>3. pc[t] \notin {"recheck", "failed"} \/ release[t]
        BY Zenon, <3>1, <3>2 DEF FlagsOK
    <3>4. pc[t] # "retake"
        BY Zenon, <3>1, <3>2 DEF FlagsOK, Handed
    <3>5. Registered(t)
        BY Zenon, <1>3
    <3>6. pc[t] \in {"fetch_sub", "park", "is_unparked", "set_release"} => ret[t] = "park"
        BY Zenon, <3>1 DEF FlagsOK
    <3>. QED BY <1>1, <1>5, <3>2, <3>3, <3>4, <3>5, <3>6 DEF Live, Registered
  <2>3. Cardinality(Handovers)' = Cardinality(Handovers) + 1
    <3>1. Cardinality(Handovers)' = Cardinality(Handovers) + One(Live(t)') - One(Live(t))
        BY Zenon, <2>1, HandoverCount DEF Inv
    <3>. QED BY <2>2, <3>1, SetsFinite DEF One, Inv
  <2>4. Cardinality(Moving)' = Cardinality(Moving) - 1
    <3>1. Cardinality(Moving)' =
              Cardinality(Moving) + One("store_unparked" \in {"post", "pop", "unpark"})
                                  - One(pc[c] \in {"post", "pop", "unpark"})
        BY Zenon, <1>1, PcCounts DEF Inv
    <3>. QED BY <1>1, <3>1, SetsFinite DEF One, Inv
  <2>5. Got' = Got /\ Posted' = Posted
      BY Zenon, <1>1, <1>5, SemphoreAssumption DEF Got, Posted
  <2>6. Pos(cnt) \in Nat
      BY Zenon, PosValue DEF Inv, TypeOK
  <2>. QED BY <1>1, <2>3, <2>4, <2>5, <2>6, SetsFinite DEF Inv, UnitCount
<1>. QED
    BY Zenon, <1>4, <1>10, <1>11, <1>12, <1>15, <1>16, <1>17, PopFindsNext DEF Inv

\* Publishing the unpark keeps the waiter handed its unit; from now on the
\* waker will look at the release flag.
LEMMA UnparkStoreInv ==
    ASSUME CardinalityFacts, Inv, NEW c \in Calls, UnparkStore(c)
    PROVE  Inv'
<1>0. PICK t \in Calls : t = target[c]
    BY Zenon DEF Inv, TypeOK
<1>1. /\ pc' = [pc EXCEPT ![c] = "take_release"] /\ "take_release" \in Labels
      /\ pc[c] = "store_unparked" /\ unparked' = [unparked EXCEPT ![t] = TRUE]
      /\ UNCHANGED <<cnt, to_wake, target, ret, token, release>>
    BY Zenon, <1>0 DEF UnparkStore, StoreUnparked, Goto, Labels
<1>2. Handed(t)
    BY Zenon, <1>0, <1>1 DEF Handed
<1>4. TypeOK'
    BY Zenon, <1>1 DEF Inv, TypeOK, BlockerTypeOK
<1>5. /\ pc'[c] = "take_release" /\ target'[c] = t /\ unparked'[t] = TRUE
      /\ \A x \in Calls \ {c} : pc'[x] = pc[x] /\ target'[x] = target[x]
      /\ \A x \in Calls \ {t} : unparked'[x] = unparked[x]
    BY Zenon, <1>0, <1>1 DEF Inv, TypeOK, BlockerTypeOK
<1>6. \A x \in Calls : Handed(x)' <=> Handed(x)
    BY <1>0, <1>1, <1>2, <1>5 DEF Handed
<1>7. \A x \in Calls : Targeted(x)' <=> Targeted(x)
    BY ZenonT(40), <1>1, <1>5 DEF Targeted
<1>8. \A x \in Calls : Registered(x)' <=> Registered(x)
    BY Zenon, <1>1, <1>5 DEF Registered
<1>9. Queued' = Queued /\ Queued \subseteq Calls
    BY Zenon, <1>1, SetsFinite DEF Inv, Queued
<1>10. QueueOK'
    BY Zenon, <1>1, <1>6, <1>7, <1>9 DEF Inv, QueueOK
<1>11. RegisteredOK'
    BY Zenon, <1>6, <1>7, <1>8, <1>9 DEF Inv, RegisteredOK
<1>12. TargetOK'
  <2>. SUFFICES ASSUME NEW d \in Calls, NEW x \in Calls, target'[d] = x
                PROVE  /\ pc'[d] = "unpark" =>
                            /\ ~Handed(x)'
                            /\ Registered(x)'
                            /\ \A e \in Calls : pc'[e] = "unpark" /\ target'[e] = x => e = d
                       /\ pc'[d] = "take_release" => unparked'[x]
      BY Zenon, <1>4, TargetOKNext
  <2>1. CASE d = c
      BY Zenon, <1>5, <2>1
  <2>2. CASE d # c
      BY <1>1, <1>5, <1>6, <1>8, <2>2 DEF Inv, TargetOK
  <2>. QED BY Zenon, <2>1, <2>2
<1>13. ASSUME NEW x \in Calls PROVE FlagsOK(x)'
  <2>1. FlagsOK(x)
      BY Zenon DEF Inv, CallOK
  <2>. QED BY ZenonT(40), <1>1, <1>5, <1>6, <1>7, <1>8, <1>9, <2>1 DEF FlagsOK
<1>14. ASSUME NEW x \in Calls PROVE TokenOK(x)' /\ ReleaseOK(x)'
  <2>1. TokenOK(x) /\ ReleaseOK(x)
      BY Zenon DEF Inv, CallOK
  <2>2. TokenOK(x)'
      BY Zenon, <1>1, <1>5, <1>6, <2>1 DEF TokenOK
  <2>3. ReleaseOK(x)'
      BY <1>1, <1>5, <2>1 DEF ReleaseOK
  <2>. QED BY Zenon, <2>2, <2>3
<1>15. CallOK'
    BY Zenon, <1>13, <1>14 DEF CallOK
<1>16. QueueCount'
  <2>1. Counted' = Counted
      BY Zenon, <1>1, <1>5, <1>9 DEF Counted
  <2>2. PoppedEarly' = PoppedEarly
      BY Zenon, <1>1, <1>5, <1>6, <1>7 DEF PoppedEarly
  <2>3. Popping' = Popping
      BY Zenon, <1>1, <1>5 DEF Popping
  <2>. QED BY Zenon, <1>1, <2>1, <2>2, <2>3 DEF Inv, QueueCount
<1>17. UnitCount'
  <2>1. Handovers' = Handovers
      BY <1>1, <1>5, <1>6 DEF Handovers, Live
  <2>2. Moving' = Moving /\ Got' = Got /\ Posted' = Posted
      BY Zenon, <1>1, <1>5, SemphoreAssumption DEF Moving, Got, Posted
  <2>. QED BY Zenon, <1>1, <2>1, <2>2 DEF Inv, UnitCount
<1>. QED
    BY Zenon, <1>4, <1>10, <1>11, <1>12, <1>15, <1>16, <1>17, PopFindsNext DEF Inv

\* The waker gets the unit back exactly if it finds the release flag up.
LEMMA UnparkTakeReleaseInv ==
    ASSUME CardinalityFacts, Inv, NEW c \in Calls, UnparkTakeRelease(c)
    PROVE  Inv'
<1>0. PICK t \in Calls : t = target[c]
    BY Zenon DEF Inv, TypeOK
<1>. DEFINE l == IF release[t] THEN "post" ELSE ret[c]
<1>1. /\ pc' = [pc EXCEPT ![c] = l] /\ l \in Labels
      /\ pc[c] = "take_release" /\ release' = [release EXCEPT ![t] = FALSE]
      /\ l \in {"post", "park", "failed", "posted"}
      /\ UNCHANGED <<cnt, to_wake, target, ret, token, unparked>>
    BY Zenon, <1>0 DEF Inv, TypeOK, UnparkTakeRelease, TakeRelease, Goto, Labels, Ended
<1>2. /\ unparked[t] /\ Handed(t) /\ ~release[c]
      /\ release[t] => t # c /\ pc[t] \in {"recheck", "retake", "failed"}
    BY ZenonT(40), <1>0, <1>1 DEF Inv, TargetOK, Handed, CallOK, FlagsOK
<1>3. /\ l = (IF release[t] THEN "post" ELSE ret[c])
      /\ (l = "failed" => unparked[c] /\ ret[c] = "failed")
    BY Zenon, <1>1 DEF Inv, CallOK, FlagsOK
<1>4. TypeOK'
    BY Zenon, <1>1 DEF Inv, TypeOK, BlockerTypeOK
<1>5. /\ pc'[c] = l /\ target'[c] = t /\ release'[t] = FALSE
      /\ \A x \in Calls \ {c} : pc'[x] = pc[x] /\ target'[x] = target[x]
      /\ \A x \in Calls \ {t} : release'[x] = release[x]
    BY Zenon, <1>0, <1>1 DEF Inv, TypeOK, BlockerTypeOK
<1>. HIDE DEF l
<1>6. \A x \in Calls : (Handed(x)' <=> Handed(x)) /\ (Targeted(x)' <=> Targeted(x))
    BY Zenon, <1>1, SameHanded DEF Inv
<1>7. \A x \in Calls \ {c} : Registered(x)' <=> Registered(x)
    BY Zenon, <1>1, <1>5 DEF Registered
<1>8. (Registered(c)' => Registered(c) \/ Handed(c))
          /\ (Registered(c) /\ ~Handed(c) => Registered(c)')
    BY Zenon, <1>1, <1>3, <1>5 DEF Inv, TypeOK, CallOK, FlagsOK, Registered, Handed
<1>9. Queued' = Queued /\ Queued \subseteq Calls
    BY Zenon, <1>1, SetsFinite DEF Inv, Queued
<1>10. QueueOK'
    BY Zenon, <1>1, <1>6, <1>9 DEF Inv, QueueOK
<1>11. RegisteredOK'
    BY Zenon, <1>6, <1>7, <1>8, <1>9 DEF Inv, RegisteredOK
<1>12. TargetOK'
  <2>. SUFFICES ASSUME NEW d \in Calls, NEW x \in Calls, target'[d] = x
                PROVE  /\ pc'[d] = "unpark" =>
                            /\ ~Handed(x)'
                            /\ Registered(x)'
                            /\ \A e \in Calls : pc'[e] = "unpark" /\ target'[e] = x => e = d
                       /\ pc'[d] = "take_release" => unparked'[x]
      BY Zenon, <1>4, TargetOKNext
  <2>1. CASE d = c
      BY Zenon, <1>1, <1>5, <2>1
  <2>2. CASE d # c
      BY <1>1, <1>5, <1>6, <1>7, <1>8, <2>2 DEF Inv, TargetOK
  <2>. QED BY Zenon, <2>1, <2>2
<1>13. ASSUME NEW x \in Calls PROVE FlagsOK(x)'
  <2>1. FlagsOK(x)
      BY Zenon DEF Inv, CallOK
  <2>2. CASE x = c
    <3>1. x \in Queued => Registered(x)' /\ ret'[x] = "park"
        BY Zenon, <1>1, <1>8, <2>1, <2>2 DEF Inv, QueueOK, FlagsOK
    <3>2. ~release'[x]
        BY Zenon, <1>2, <1>5, <2>2
    <3>3. l = "failed" => Handed(x)
        BY Zenon, <1>3, <2>2 DEF Handed
    <3>. QED BY Zenon, <1>1, <1>3, <1>5, <1>6, <1>9, <2>1, <2>2, <3>1, <3>2, <3>3 DEF FlagsOK
  <2>3. CASE x # c
      BY ZenonT(40), <1>1, <1>2, <1>5, <1>6, <1>7, <1>9, <2>1, <2>3 DEF FlagsOK
  <2>. QED BY Zenon, <2>2, <2>3
<1>14. ASSUME NEW x \in Calls PROVE TokenOK(x)' /\ ReleaseOK(x)'
  <2>1. TokenOK(x) /\ ReleaseOK(x)
      BY Zenon DEF Inv, CallOK
  <2>2. TokenOK(x)'
      BY Zenon, <1>1, <1>5, <1>6, <2>1 DEF TokenOK
  <2>3. ReleaseOK(x)'
      BY <1>0, <1>1, <1>2, <1>5, <2>1 DEF ReleaseOK
  <2>. QED BY Zenon, <2>2, <2>3
<1>15. CallOK'
    BY Zenon, <1>13, <1>14 DEF CallOK
<1>16. QueueCount'
  <2>1. Counted' = Counted
      BY Zenon, <1>1, <1>5, <1>9 DEF Counted
  <2>2. PoppedEarly' = PoppedEarly
      BY Zenon, <1>1, <1>5, <1>6 DEF PoppedEarly
  <2>3. Popping' = Popping
      BY Zenon, <1>1, <1>5 DEF Popping
  <2>. QED BY Zenon, <1>1, <2>1, <2>2, <2>3 DEF Inv, QueueCount
<1>17. UnitCount'
  <2>1. \A x \in Calls \ {t} : Live(x)' <=> Live(x)
    <3>. SUFFICES ASSUME NEW x \in Calls \ {t} PROVE Live(x)' <=> Live(x)
        BY Zenon
    <3>1. CASE x = c
        BY Zenon, <1>1, <1>2, <1>3, <1>5, <1>6, <3>1 DEF Live
    <3>2. CASE x # c
        BY Zenon, <1>1, <1>5, <1>6, <3>2 DEF Live
    <3>. QED BY Zenon, <3>1, <3>2
  <2>2. Live(t)' <=> Live(t) /\ ~release[t]
    <3>1. CASE t = c
        BY Zenon, <1>1, <1>2, <1>3, <1>5, <1>6, <3>1 DEF Live
    <3>2. CASE t # c
      <4>1. FlagsOK(t) /\ pc'[t] = pc[t] /\ ret'[t] = ret[t] /\ (Handed(t)' <=> Handed(t))
          BY Zenon, <1>1, <1>5, <1>6, <3>2 DEF Inv, CallOK
      <4>2. ~release'[t] /\ (release[t] => pc[t] \in {"recheck", "retake", "failed"})
          BY Zenon, <1>2, <1>5
      <4>. QED BY Zenon, <4>1, <4>2 DEF Live
    <3>. QED BY Zenon, <3>1, <3>2
  <2>3. release[t] => Live(t)
      BY Zenon, <1>2 DEF Live
  <2>4. Cardinality(Handovers)' = Cardinality(Handovers) - (IF release[t] THEN 1 ELSE 0)
    <3>1. Cardinality(Handovers)' = Cardinality(Handovers) + One(Live(t)') - One(Live(t))
        BY Zenon, <2>1, HandoverCount DEF Inv
    <3>. QED BY <2>2, <2>3, <3>1, SetsFinite DEF One, Inv
  <2>5. Cardinality(Moving)' = Cardinality(Moving) + (IF release[t] THEN 1 ELSE 0)
    <3>1. Cardinality(Moving)' =
              Cardinality(Moving) + One(l \in {"post", "pop", "unpark"})
                                  - One(pc[c] \in {"post", "pop", "unpark"})
        BY Zenon, <1>1, PcCounts DEF Inv
    <3>2. ret[c] \in {"park", "failed", "posted"}
        BY Zenon DEF Inv, TypeOK
    <3>3. One(l \in {"post", "pop", "unpark"}) = (IF release[t] THEN 1 ELSE 0)
        BY Zenon, <1>3, <3>2 DEF One
    <3>4. One(pc[c] \in {"post", "pop", "unpark"}) = 0
        BY Zenon, <1>1 DEF One
    <3>. QED BY <3>1, <3>3, <3>4, SetsFinite DEF Inv
  <2>6. Got' = Got /\ Posted' = Posted
      BY Zenon, <1>1, <1>5, SemphoreAssumption DEF Got, Posted
  <2>7. Pos(cnt) \in Nat
      BY Zenon, PosValue DEF Inv, TypeOK
  <2>. QED BY <1>1, <2>4, <2>5, <2>6, <2>7, SetsFinite DEF Inv, UnitCount
<1>. QED
    BY Zenon, <1>4, <1>10, <1>11, <1>12, <1>15, <1>16, <1>17, PopFindsNext DEF Inv

-----------------------------------------------------------------------------
(* The invariant holds always.                                             *)

LEMMA InitInv ==
    ASSUME CardinalityFacts
    PROVE  Init => Inv
<1>. SUFFICES ASSUME Init PROVE Inv
    BY Zenon
<1>1. TypeOK
  <2>1. BlockerTypeOK
      BY Zenon DEF Init, BlockerInit, BlockerTypeOK
  <2>. QED BY <2>1, SemphoreAssumption DEF Init, TypeOK, Labels
<1>2. Queued = {} /\ IsInjective(to_wake) /\ Len(to_wake) = 0
    BY DEF Init, Queued, Range, IsInjective
<1>3. \A x \in Calls : ~Handed(x) /\ ~Targeted(x) /\ ~Registered(x)
    BY Zenon DEF Init, BlockerInit, Handed, Targeted, Registered
<1>4. /\ Counted = {} /\ PoppedEarly = {} /\ Popping = {} /\ Moving = {} /\ Got = {}
      /\ Posted = {} /\ Handovers = {}
    BY Zenon, <1>2, <1>3, SemphoreAssumption
    DEF Init, Counted, PoppedEarly, Popping, Moving, Got, Posted, Handovers, Live
<1>5. QueueCount /\ UnitCount /\ PopFindsBlocker
  <2>1. Cardinality({}) = 0
      BY Zenon, CardEmpty
  <2>2. Pos(-cnt) = 0 /\ Pos(cnt) = InitVal /\ cnt = InitVal /\ InitVal \in Nat
    <3>1. cnt = InitVal /\ InitVal \in Nat /\ -cnt \in Int
        BY SemphoreAssumption DEF Init
    <3>. QED BY <3>1, PosValue
  <2>3. Cardinality(Counted) = 0 /\ Cardinality(PoppedEarly) = 0 /\ Cardinality(Popping) = 0
      BY Zenon, <1>4, <2>1
  <2>4. /\ Cardinality(Moving) = 0 /\ Cardinality(Got) = 0
        /\ Cardinality(Posted) = 0 /\ Cardinality(Handovers) = 0
      BY Zenon, <1>4, <2>1
  <2>5. QueueCount
      BY <2>2, <2>3 DEF QueueCount
  <2>6. UnitCount
      BY <2>2, <2>4 DEF UnitCount
  <2>7. PopFindsBlocker
      BY <1>2, <2>3 DEF PopFindsBlocker, Popping
  <2>. QED BY Zenon, <2>5, <2>6, <2>7
<1>6. QueueOK /\ RegisteredOK /\ TargetOK
    BY Zenon, <1>2, <1>3 DEF Init, QueueOK, RegisteredOK, TargetOK
<1>7. CallOK
    BY Zenon, <1>2, <1>3, SemphoreAssumption
    DEF Init, BlockerInit, CallOK, FlagsOK, TokenOK, ReleaseOK
<1>. QED BY Zenon, <1>1, <1>5, <1>6, <1>7 DEF Inv

LEMMA NextInv ==
    ASSUME CardinalityFacts, Inv, [Next]_vars
    PROVE  Inv'
<1>1. ASSUME NEW c \in Calls, Step(c) PROVE Inv'
    BY Zenon, <1>1, TryWaitOkInv, TryWaitFailsInv, PushInv, FetchSubInv, WaitParkOkInv,
       IsUnparkedInv,
       WaitSetReleaseInv, RecheckInv, RetakeInv, PostInv, PopInv, UnparkInv, UnparkStoreInv,
       UnparkTakeReleaseInv
    DEF Step
<1>2. ASSUME NEW c \in Calls, WaitParkErr(c) PROVE Inv'
    BY Zenon, <1>2, WaitParkErrInv
<1>3. ASSUME UNCHANGED vars PROVE Inv'
  <2>1. TypeOK' /\ IsInjective(to_wake') = IsInjective(to_wake)
      BY Zenon, <1>3 DEF Inv, vars, TypeOK, BlockerTypeOK
  <2>2. \A x : (Handed(x)' <=> Handed(x)) /\ (Targeted(x)' <=> Targeted(x))
      BY Zenon, <1>3 DEF vars, Handed, Targeted
  <2>3. Queued' = Queued /\ \A x \in Calls : (Live(x)' <=> Live(x))
            /\ (Registered(x)' <=> Registered(x))
      BY Zenon, <1>3, <2>2 DEF vars, Queued, Live, Registered
  <2>4. /\ Counted' = Counted /\ PoppedEarly' = PoppedEarly /\ Popping' = Popping
        /\ Moving' = Moving /\ Got' = Got /\ Posted' = Posted /\ Handovers' = Handovers
      BY Zenon, <1>3, <2>2, <2>3
      DEF vars, Counted, PoppedEarly, Popping, Moving, Got, Posted, Handovers
  <2>5. QueueCount' /\ UnitCount'
      BY Zenon, <1>3, <2>4 DEF Inv, vars, QueueCount, UnitCount
  <2>6. QueueOK' /\ RegisteredOK'
      BY Zenon, <1>3, <2>1, <2>2, <2>3, SetsFinite DEF Inv, QueueOK, RegisteredOK
  <2>7. TargetOK'
      BY Zenon, <1>3, <2>2, <2>3 DEF Inv, vars, TargetOK, Registered
  <2>8. ASSUME NEW x \in Calls PROVE FlagsOK(x)' /\ TokenOK(x)' /\ ReleaseOK(x)'
    <3>1. FlagsOK(x) /\ TokenOK(x) /\ ReleaseOK(x)
        BY Zenon DEF Inv, CallOK
    <3>. QED BY Zenon, <1>3, <2>2, <2>3, <3>1 DEF vars, FlagsOK, TokenOK, ReleaseOK
  <2>9. CallOK'
      BY Zenon, <2>8 DEF CallOK
  <2>. QED BY Zenon, <2>1, <2>5, <2>6, <2>7, <2>9, PopFindsNext DEF Inv
<1>. QED BY Zenon, <1>1, <1>2, <1>3 DEF Next, Quiet

\* The unit argument gives the balance of units, and says who still waits when nothing
\* is under way.
LEMMA InvBalance ==
    ASSUME CardinalityFacts, Inv
    PROVE  UnitsBalance
<1>. DEFINE left == InitVal + Cardinality(Posted) - Cardinality(Got)
            waiting == {c \in Calls : pc[c] = "park"} \cup Abandoned
<1>1. cnt \in Int /\ -cnt \in Int /\ Pos(cnt) \in Nat /\ Pos(-cnt) \in Nat
  <2>1. cnt \in Int /\ -cnt \in Int
      BY DEF Inv, TypeOK
  <2>. QED BY Zenon, <2>1, PosValue
<1>2. /\ left = Pos(cnt) + Cardinality(Moving) + Cardinality(Handovers)
      /\ left >= 0
    BY <1>1, SetsFinite, SemphoreAssumption DEF Inv, UnitCount
<1>3. ASSUME Quiescent
      PROVE  cnt = left - Cardinality(waiting) /\ (left = 0 \/ waiting = {})
  <2>1. \A x \in Calls : pc[x] \in {"taken", "granted", "would_block", "failed", "posted", "park"}
      BY Zenon, <1>3 DEF Quiescent, Ended
  <2>2. \A x \in Calls : (Handed(x) <=> unparked[x]) /\ ~Targeted(x)
      BY Zenon, <2>1 DEF Handed, Targeted
  <2>3. \A x \in Calls : pc[x] = "park" =>
            /\ ~Handed(x)
            /\ x \notin Posters
    <3>. SUFFICES ASSUME NEW x \in Calls, pc[x] = "park"
                  PROVE  ~Handed(x) /\ x \notin Posters
        BY Zenon
    <3>1. ret[x] = "park" /\ x \notin Posters
        BY Zenon DEF Inv, CallOK, FlagsOK
    <3>2. ~token[x]
        BY Zenon, <1>3 DEF Quiescent, Ended
    <3>. QED BY Zenon, <3>1, <3>2 DEF Inv, CallOK, TokenOK
  <2>4. \A x \in Abandoned : ~Handed(x) /\ x \notin Posters
    <3>. SUFFICES ASSUME NEW x \in Calls, pc[x] = "failed", release[x]
                  PROVE  ~Handed(x) /\ x \notin Posters
        BY Zenon DEF Abandoned
    <3>1. ~unparked[x]
        BY Zenon, <2>1 DEF Inv, CallOK, ReleaseOK
    <3>2. x \notin Posters
        BY Zenon DEF Inv, CallOK, FlagsOK
    <3>. QED BY Zenon, <2>2, <3>1, <3>2
  <2>5. waiting = Counted
    <3>1. \A x \in waiting : x \in Counted
        BY Zenon, <2>2, <2>3, <2>4 DEF Inv, RegisteredOK, Registered, Counted, Abandoned
    <3>2. \A x \in Counted : x \in waiting
      <4>. SUFFICES ASSUME NEW x \in Queued PROVE x \in waiting
          BY Zenon DEF Counted
      <4>1. x \in Calls /\ ~Handed(x) /\ Registered(x) /\ FlagsOK(x)
          BY Zenon, SetsFinite DEF Inv, QueueOK, CallOK, FlagsOK
      <4>. QED BY Zenon, <2>1, <4>1 DEF Registered, FlagsOK, Abandoned
    <3>. QED BY Zenon, <3>1, <3>2
  <2>6. Moving = {} /\ Popping = {} /\ PoppedEarly = {}
      BY Zenon, <2>1 DEF Moving, Popping, PoppedEarly
  <2>7. Handovers = {}
    <3>. SUFFICES ASSUME NEW x \in Calls, Live(x) PROVE FALSE
        BY Zenon DEF Handovers
    <3>1. pc[x] = "park" \/ x \in Abandoned
        BY Zenon, <2>1 DEF Live, Abandoned
    <3>. QED BY Zenon, <2>3, <2>4, <3>1 DEF Live
  <2>8. Cardinality({}) = 0
      BY Zenon, CardEmpty
  <2>9. left = Pos(cnt) /\ Cardinality(waiting) = Pos(-cnt)
    <3>1. Cardinality(Moving) = 0 /\ Cardinality(Handovers) = 0
        BY Zenon, <2>6, <2>7, <2>8
    <3>2. Cardinality(Popping) = 0 /\ Cardinality(PoppedEarly) = 0
        BY Zenon, <2>6, <2>8
    <3>3. Cardinality(waiting) = Cardinality(Counted)
        BY Zenon, <2>5
    <3>. HIDE DEF left, waiting
    <3>. QED BY <1>1, <1>2, <3>1, <3>2, <3>3 DEF Inv, QueueCount
  <2>10. Cardinality(waiting) = 0 => waiting = {}
      BY Zenon, <2>5, SetsFinite, CardEmpty DEF Inv
  <2>. HIDE DEF left, waiting
  <2>. QED BY <1>1, <2>9, <2>10, PosValue
<1>. QED BY Zenon, <1>2, <1>3 DEF UnitsBalance

-----------------------------------------------------------------------------
(* The semaphore implements AbstractSemaphore.                             *)

\* Every unit that has not been taken is available, being moved or handed over.
LEMMA ValueIs ==
    ASSUME CardinalityFacts, Inv
    PROVE  /\ value = Pos(cnt) + Owed
           /\ value \in Nat /\ Pos(cnt) \in Nat /\ Owed \in Nat
<1>1. Pos(cnt) \in Nat
    BY Zenon, PosValue DEF Inv, TypeOK
<1>. QED BY <1>1, SetsFinite, SemphoreAssumption DEF Inv, UnitCount, value, Owed

\* How the step of one call changes the abstract value.
LEMMA ValueStep ==
    ASSUME CardinalityFacts, Inv, NEW c \in Calls, NEW l \in Labels, pc' = [pc EXCEPT ![c] = l]
    PROVE  /\ pc[c] \notin {"idle", "taken", "granted"} /\ l \notin {"idle", "taken", "granted"}
                  => value' = value
           /\ pc[c] = "idle" /\ l # "idle" =>
                  /\ c \notin Posters /\ l \notin {"taken", "granted"} => value' = value
                  /\ c \in Posters /\ l \notin {"taken", "granted"} => value' = value + 1
           /\ c \notin Posters /\ pc[c] \notin {"taken", "granted"} /\ l \in {"taken", "granted"}
                  => value' = value - 1
<1>. DEFINE p1 == One(c \in Posters /\ l # "idle")
            p0 == One(c \in Posters /\ pc[c] # "idle")
            g1 == One(l \in {"taken", "granted"})
            g0 == One(pc[c] \in {"taken", "granted"})
<1>1. p1 \in Int /\ p0 \in Int /\ g1 \in Int /\ g0 \in Int
    BY DEF One
<1>2. /\ Cardinality(Got)' = Cardinality(Got) + g1 - g0
      /\ Cardinality(Posted)' = Cardinality(Posted) + p1 - p0
    BY Zenon, PcCounts DEF Inv
<1>. HIDE DEF p1, p0, g1, g0
<1>3. Cardinality(Got) \in Nat /\ Cardinality(Posted) \in Nat
    BY Zenon, SetsFinite DEF Inv
<1>4. value' = value + p1 - p0 - g1 + g0 /\ value \in Int
    BY <1>1, <1>2, <1>3, SemphoreAssumption DEF value
<1>5. /\ p1 = (IF c \in Posters /\ l # "idle" THEN 1 ELSE 0)
      /\ p0 = (IF c \in Posters /\ pc[c] # "idle" THEN 1 ELSE 0)
      /\ g1 = (IF l \in {"taken", "granted"} THEN 1 ELSE 0)
      /\ g0 = (IF pc[c] \in {"taken", "granted"} THEN 1 ELSE 0)
    BY Zenon DEF p1, p0, g1, g0, One
<1>. QED BY <1>1, <1>4, <1>5

\* A step of call c changes the status of c only.
LEMMA StatusStep ==
    ASSUME TypeOK, NEW c \in Calls, NEW l \in Labels, pc' = [pc EXCEPT ![c] = l],
           \A x \in Calls \ {c} : ret'[x] = ret[x]
    PROVE  status' = [status EXCEPT ![c] = status'[c]]
<1>1. \A x \in Calls \ {c} : status'[x] = status[x]
    BY Zenon DEF TypeOK, status, Got
<1>2. /\ status = [x \in Calls |-> status[x]]
      /\ status' = [x \in Calls |-> status'[x]]
    BY Zenon DEF status
<1>. QED BY Zenon, <1>1, <1>2

\* The steps that the abstract semaphore can take.
LEMMA SemaphoreStep ==
    ASSUME Inv, NEW c \in Calls, NEW l \in Labels, pc' = [pc EXCEPT ![c] = l],
           \A x \in Calls \ {c} : ret'[x] = ret[x],
           \/ status'[c] = status[c] /\ value' = value
           \/ status[c] = "idle" /\ status'[c] = "waiting" /\ value' = value
           \/ status[c] \in {"idle", "waiting"} /\ status'[c] = "failed" /\ value' = value
           \/ /\ status[c] \in {"idle", "waiting"} /\ status'[c] = "got"
              /\ value > 0 /\ value' = value - 1
           \/ status[c] = "idle" /\ status'[c] = "posted" /\ value' = value + 1
    PROVE  [Semaphore!Next]_<<value, status>>
<1>1. status' = [status EXCEPT ![c] = status'[c]]
    BY Zenon, StatusStep DEF Inv
<1>2. CASE status'[c] = status[c] /\ value' = value
  <2>1. status' = status
      BY Zenon, <1>1, <1>2 DEF status
  <2>. QED BY Zenon, <1>2, <2>1
<1>3. CASE ~(status'[c] = status[c] /\ value' = value)
  <2>1. Semaphore!Wait(c) \/ Semaphore!Take(c) \/ Semaphore!Fail(c) \/ Semaphore!Post(c)
      BY Zenon, <1>1, <1>3
      DEF Semaphore!Wait, Semaphore!Take, Semaphore!Fail, Semaphore!Post, Semaphore!Become
  <2>. QED BY Zenon, <2>1 DEF Semaphore!Next
<1>. QED BY Zenon, <1>2, <1>3

\* The semaphore starts with InitVal units.
LEMMA SemaphoreInit ==
    ASSUME CardinalityFacts, Init
    PROVE  Semaphore!Init
<1>1. Posted = {} /\ Got = {}
    BY Zenon, SemphoreAssumption DEF Init, Posted, Got
<1>2. value = InitVal
    BY <1>1, CardEmpty, SemphoreAssumption DEF value
<1>3. status = [c \in Calls |-> "idle"]
    BY Zenon DEF Init, status
<1>. QED BY Zenon, <1>2, <1>3 DEF Semaphore!Init

\* Every step is a step of AbstractSemaphore or leaves its state alone.
LEMMA SemaphoreNext ==
    ASSUME CardinalityFacts, Inv, NEW c \in Calls, Step(c) \/ WaitParkErr(c)
    PROVE  [Semaphore!Next]_<<value, status>>
<1>0. value \in Nat /\ FlagsOK(c) /\ TypeOK
    BY Zenon, ValueIs DEF Inv, CallOK
<1>1. CASE TryWaitOk(c)
  <2>1. status[c] = "idle" /\ status'[c] = "got" /\ ret' = ret
      BY Zenon, <1>0, <1>1 DEF TypeOK, status, Got, TryWaitOk, Goto
  <2>2. value > 0
    <3>1. cnt \in Int /\ cnt > 0
        BY Zenon, <1>0, <1>1 DEF TypeOK, TryWaitOk
    <3>. QED BY <3>1, ValueIs, PosValue
  <2>3. value' = value - 1
    <3>1. pc' = [pc EXCEPT ![c] = "taken"] /\ "taken" \in Labels /\ pc[c] = "idle"
        BY Zenon, <1>1 DEF TryWaitOk, Goto, Labels, Ended
    <3>2. c \notin Posters
        BY Zenon, <1>1 DEF TryWaitOk
    <3>. QED BY Zenon, <1>0, <3>1, <3>2, ValueStep
  <2>. QED BY Zenon, <1>1, <2>1, <2>2, <2>3, SemaphoreStep DEF TryWaitOk, Goto,
              Labels, Ended
<1>2. CASE WaitParkOk(c)
  <2>1. status[c] = "waiting" /\ status'[c] = "got" /\ ret' = ret /\ c \notin Posters
      BY Zenon, <1>0, <1>2 DEF TypeOK, FlagsOK, status, Got, WaitParkOk, Goto
  <2>2. value > 0
    <3>1. c \in Handovers
        BY Zenon, <1>0, <1>2 DEF FlagsOK, WaitParkOk, ParkOk, Handovers, Live
    <3>2. Cardinality(Handovers) # 0
        BY Zenon, <3>1, SetsFinite, CardEmpty DEF Inv
    <3>. QED BY <3>2, ValueIs, SetsFinite DEF Owed, Inv
  <2>3. value' = value - 1
    <3>1. pc' = [pc EXCEPT ![c] = "granted"] /\ "granted" \in Labels /\ pc[c] = "park"
        BY Zenon, <1>2 DEF WaitParkOk, Goto, Labels, Ended
    <3>. QED BY Zenon, <1>0, <2>1, <3>1, ValueStep
  <2>. QED BY Zenon, <1>2, <2>1, <2>2, <2>3, SemaphoreStep DEF WaitParkOk, Goto,
              Labels, Ended
<1>3. CASE TryWaitFails(c)
  <2>1. PICK l \in {"would_block", "push"} : pc' = [pc EXCEPT ![c] = l]
      BY Zenon, <1>3 DEF TryWaitFails, Goto
  <2>2. l \in Labels /\ pc[c] = "idle" /\ c \notin Posters /\ ret' = ret
      BY Zenon, <1>3 DEF TryWaitFails, Labels, Ended
  <2>3. value' = value
      BY Zenon, <1>0, <2>1, <2>2, ValueStep
  <2>4. status[c] = "idle" /\ status'[c] \in {"waiting", "failed"}
      BY Zenon, <1>0, <2>1, <2>2 DEF TypeOK, FlagsOK, status, Got
  <2>. QED BY Zenon, <2>1, <2>2, <2>3, <2>4, SemaphoreStep
<1>4. CASE Post(c) /\ pc[c] = "idle"
  <2>1. PICK l \in {"pop", "posted"} : pc' = [pc EXCEPT ![c] = l]
      BY Zenon, <1>0, <1>4 DEF FlagsOK, Post, AtPost, Goto
  <2>2. l \in Labels /\ pc[c] = "idle" /\ c \in Posters /\ ret' = ret
      BY Zenon, <1>4 DEF Post, AtPost, Labels, Ended
  <2>3. value' = value + 1
      BY Zenon, <1>0, <2>1, <2>2, ValueStep
  <2>4. status[c] = "idle" /\ status'[c] = "posted"
      BY Zenon, <1>0, <2>1, <2>2 DEF TypeOK, status, Got
  <2>. QED BY Zenon, <2>1, <2>2, <2>3, <2>4, SemaphoreStep
<1>5. CASE (Post(c) /\ pc[c] = "post") \/ UnparkTakeRelease(c)
  <2>1. PICK l \in {"pop", "post", ret[c]} : pc' = [pc EXCEPT ![c] = l]
      BY Zenon, <1>5 DEF Post, UnparkTakeRelease, Goto
  <2>2. /\ l \in Labels /\ ret' = ret /\ pc[c] \in {"post", "take_release"}
        /\ l \in {"pop", "post", "park", "failed", "posted"}
      BY Zenon, <1>0, <1>5 DEF TypeOK, Post, UnparkTakeRelease, Labels, Ended
  <2>3. value' = value
      BY Zenon, <1>0, <2>1, <2>2, ValueStep
  <2>4. status'[c] = status[c]
      BY Zenon, <1>0, <2>1, <2>2 DEF TypeOK, FlagsOK, status, Got
  <2>. QED BY Zenon, <2>1, <2>2, <2>3, <2>4, SemaphoreStep
<1>6. CASE IsUnparked(c) \/ Recheck(c) \/ Retake(c)
  <2>1. PICK l \in {"post", "set_release", "retake", "failed"} : pc' = [pc EXCEPT ![c] = l]
      BY Zenon, <1>6 DEF IsUnparked, Recheck, Retake, GiveBack, Goto
  <2>2. /\ l \in Labels /\ pc[c] \in {"is_unparked", "recheck", "retake"}
        /\ \A x \in Calls \ {c} : ret'[x] = ret[x]
      BY Zenon, <1>0, <1>6 DEF TypeOK, IsUnparked, Recheck, Retake, GiveBack, Labels, Ended
  <2>3. value' = value
      BY Zenon, <1>0, <2>1, <2>2, ValueStep
  <2>4. ret[c] = "park" /\ c \notin Posters /\ pc'[c] = l
      BY Zenon, <1>0, <2>1, <2>2 DEF TypeOK, FlagsOK
  <2>5. status[c] = "waiting" /\ status'[c] \in {"waiting", "failed"}
      BY Zenon, <2>2, <2>4 DEF status, Got
  <2>. QED BY Zenon, <2>1, <2>2, <2>3, <2>5, SemaphoreStep
<1>7. CASE \/ Push(c) \/ FetchSub(c) \/ WaitParkErr(c) \/ WaitSetRelease(c)
           \/ Pop(c) \/ Unpark(c) \/ UnparkStore(c)
  <2>1. PICK l \in {"fetch_sub", "pop", "park", "is_unparked", "recheck", "unpark",
                    "store_unparked", "take_release"} : pc' = [pc EXCEPT ![c] = l]
      BY Zenon, <1>7
      DEF Push, FetchSub, WaitParkErr, WaitSetRelease, Pop, Unpark, UnparkStore, Goto
  <2>2. /\ l \in Labels /\ ret' = ret
        /\ pc[c] \in {"push", "fetch_sub", "park", "set_release", "pop", "unpark",
                      "store_unparked"}
      BY Zenon, <1>7
      DEF Push, FetchSub, WaitParkErr, WaitSetRelease, Pop, Unpark, UnparkStore, Labels
  <2>3. value' = value
      BY Zenon, <1>0, <2>1, <2>2, ValueStep
  <2>4. status'[c] = status[c]
      BY Zenon, <1>0, <2>1, <2>2 DEF TypeOK, status, Got
  <2>. QED BY Zenon, <2>1, <2>2, <2>3, <2>4, SemaphoreStep
<1>. QED BY Zenon, <1>1, <1>2, <1>3, <1>4, <1>5, <1>6, <1>7 DEF Step, Post, AtPost

-----------------------------------------------------------------------------
(* The semaphore implements SemphoreContract.                              *)

\* The owed wake-ups after a step, from the balance of units.
LEMMA OwedStep ==
    ASSUME CardinalityFacts, Inv, Inv'
    PROVE  /\ Owed' = Owed + (value' - value) - (Pos(cnt') - Pos(cnt))
           /\ Owed \in Int /\ Owed' \in Int /\ value \in Int /\ value' \in Int
           /\ Pos(cnt) \in Int /\ Pos(cnt') \in Int
<1>1. value = Pos(cnt) + Owed /\ value \in Nat /\ Pos(cnt) \in Nat /\ Owed \in Nat
    BY Zenon, ValueIs
<1>2. /\ Moving' \subseteq Calls /\ Handovers' \subseteq Calls /\ Got' \subseteq Calls
      /\ Posted' \subseteq Calls
    BY Zenon, SemphoreAssumption DEF Moving, Handovers, Got, Posted
<1>3. /\ Cardinality(Moving') \in Nat /\ Cardinality(Handovers') \in Nat
      /\ Cardinality(Got') \in Nat /\ Cardinality(Posted') \in Nat
    BY Zenon, <1>2, SemphoreAssumption, CardSubset, CardType
<1>4. Pos(cnt') \in Nat
    BY Zenon, PosValue DEF Inv, TypeOK
<1>5. value' = Pos(cnt') + Owed' /\ Owed' \in Nat /\ value' \in Nat
    BY <1>3, <1>4, SemphoreAssumption DEF Inv, UnitCount, value, Owed
<1>. QED BY <1>1, <1>4, <1>5

\* The ghosts after a step of c in which only the release flag of t may change.
LEMMA GhostStep ==
    ASSUME CardinalityFacts, Inv, NEW c \in Calls, NEW l \in Labels, NEW t \in Calls,
           pc' = [pc EXCEPT ![c] = l],
           \A x \in Calls \ {t} : release'[x] = release[x]
    PROVE  /\ Ghosts \in Nat
           /\ Ghosts' = Ghosts + One(release'[t]) - One(release[t])
                               + One(l = "post") - One(pc[c] = "post")
           /\ pc[c] = "post" => Ghosts > 0
<1>1. pc \in [Calls -> Labels] /\ pc'[c] = l /\ \A y \in Calls : y # c => pc'[y] = pc[y]
    BY Zenon DEF Inv, TypeOK
<1>2. IsFiniteSet(Flagged) /\ IsFiniteSet(Posting)
    BY Zenon, SemphoreAssumption, CardSubset DEF Flagged, Posting
<1>3. /\ \A y : y # t => (y \in Flagged' <=> y \in Flagged)
      /\ (t \in Flagged' <=> release'[t]) /\ (t \in Flagged <=> release[t])
    BY Zenon DEF Flagged
<1>4. /\ \A y : y # c => (y \in Posting' <=> y \in Posting)
      /\ (c \in Posting' <=> l = "post") /\ (c \in Posting <=> pc[c] = "post")
    BY Zenon, <1>1 DEF Posting
<1>5. /\ Cardinality(Flagged') = Cardinality(Flagged) + One(t \in Flagged') - One(t \in Flagged)
      /\ Cardinality(Flagged) \in Nat /\ Cardinality(Flagged') \in Nat
    BY <1>2, <1>3, CountOne
<1>6. /\ Cardinality(Posting') = Cardinality(Posting) + One(c \in Posting') - One(c \in Posting)
      /\ Cardinality(Posting) \in Nat /\ Cardinality(Posting') \in Nat
    BY <1>2, <1>4, CountOne
<1>7. /\ One(t \in Flagged') = One(release'[t]) /\ One(t \in Flagged) = One(release[t])
      /\ One(release'[t]) \in Int /\ One(release[t]) \in Int
    BY <1>3 DEF One
<1>8. /\ One(c \in Posting') = One(l = "post") /\ One(c \in Posting) = One(pc[c] = "post")
      /\ One(l = "post") \in Int /\ One(pc[c] = "post") \in Int
    BY <1>4 DEF One
<1>9. pc[c] = "post" => Cardinality(Posting) # 0
    BY Zenon, <1>2, <1>4, CardEmpty
<1>. QED BY <1>5, <1>6, <1>7, <1>8, <1>9 DEF Ghosts

\* A step that changes none of the four fields is a stutter of the contract.
LEMMA ContractSame ==
    ASSUME CardinalityFacts, Inv, Inv', NEW c \in Calls, NEW l \in Labels, NEW t \in Calls,
           pc' = [pc EXCEPT ![c] = l],
           \A x \in Calls \ {t} : release'[x] = release[x],
           One(release'[t]) - One(release[t]) + One(l = "post") - One(pc[c] = "post") = 0,
           cnt' = cnt, Waiting' = Waiting, value' = value
    PROVE  contract' = contract
<1>1. Ghosts' = Ghosts
  <2>1. /\ Ghosts \in Nat
        /\ Ghosts' = Ghosts + One(release'[t]) - One(release[t])
                            + One(l = "post") - One(pc[c] = "post")
      BY Zenon, GhostStep
  <2>2. /\ One(release'[t]) \in Int /\ One(release[t]) \in Int
        /\ One(l = "post") \in Int /\ One(pc[c] = "post") \in Int
      BY DEF One
  <2>. QED BY <2>1, <2>2
<1>2. Owed' = Owed
  <2>1. /\ Owed' = Owed + (value' - value) - (Pos(cnt') - Pos(cnt))
        /\ Owed \in Int /\ value \in Int /\ Pos(cnt) \in Int
      BY Zenon, OwedStep
  <2>. QED BY <2>1
<1>. QED BY Zenon, <1>1, <1>2 DEF contract

\* The contract's state, from its fields.
Sem(k, w, g, o) == [cnt |-> k, waiting |-> w, ghosts |-> g, owed |-> o]

\* The contract's fields, now and after a step.
LEMMA ContractFields ==
    /\ contract = Sem(cnt, Waiting, Ghosts, Owed)
    /\ contract' = Sem(cnt', Waiting', Ghosts', Owed')
    /\ contract.cnt = cnt /\ contract.waiting = Waiting
    /\ contract.ghosts = Ghosts /\ contract.owed = Owed
BY Zenon DEF contract, Sem

\* The contract starts with InitVal units.
LEMMA ContractInit ==
    ASSUME CardinalityFacts, Init
    PROVE  contract = Contract!New
<1>1. Inv /\ cnt = InitVal /\ Waiting = {} /\ Flagged = {} /\ Posting = {}
    BY Zenon, InitInv DEF Init, BlockerInit, Waiting, Flagged, Posting
<1>2. Cardinality({}) = 0
    BY Zenon, CardEmpty
<1>3. Ghosts = 0
    BY <1>1, <1>2 DEF Ghosts
<1>4. Moving = {} /\ Handovers = {}
    BY Zenon DEF Init, BlockerInit, Moving, Handovers, Live, Handed
<1>5. Owed = 0
    BY <1>2, <1>4 DEF Owed
<1>. QED BY Zenon, <1>1, <1>3, <1>5, ContractFields DEF Contract!New, Sem

\* Every step is a step of SemphoreContract or leaves its state alone.
LEMMA ContractNext ==
    ASSUME CardinalityFacts, Inv, Inv', NEW c \in Calls, Step(c) \/ WaitParkErr(c)
    PROVE  [Contract!Next]_contract
<1>0. FlagsOK(c) /\ TypeOK /\ cnt \in Int /\ Ghosts \in Nat /\ Pos(cnt) \in Nat
  <2>1. Flagged \subseteq Calls /\ Posting \subseteq Calls
      BY Zenon DEF Flagged, Posting
  <2>2. Cardinality(Flagged) \in Nat /\ Cardinality(Posting) \in Nat
      BY Zenon, <2>1, SemphoreAssumption, CardSubset, CardType
  <2>. QED BY <2>2, ValueIs DEF Inv, CallOK, TypeOK, Ghosts
<1>. DEFINE dv == value' - value
            dp == Pos(cnt') - Pos(cnt)
<1>00. Owed' = Owed + dv - dp /\ Owed \in Int /\ value \in Int
    BY Zenon, OwedStep
<1>1. CASE TryWaitOk(c)
  <2>1. /\ pc' = [pc EXCEPT ![c] = "taken"] /\ "taken" \in Labels /\ pc[c] = "idle"
        /\ c \notin Posters /\ cnt > 0 /\ cnt' = cnt - 1 /\ UNCHANGED <<ret, release>>
      BY Zenon, <1>1 DEF TryWaitOk, Goto, Labels, Ended, blockerVars
  <2>2. Waiting' = Waiting
      BY Zenon, <1>0, <2>1 DEF TypeOK, Waiting
  <2>3. Ghosts' = Ghosts
    <3>1. Ghosts' = Ghosts + One(release'[c]) - One(release[c])
                           + One("taken" = "post") - One(pc[c] = "post")
        BY Zenon, <2>1, GhostStep
    <3>. QED BY <1>0, <2>1, <3>1 DEF One
  <2>4. value' = value - 1
      BY Zenon, <2>1, ValueStep
  <2>5. dv = -1 /\ dp = -1
      BY <1>0, <1>00, <2>1, <2>4, PosValue
  <2>6. Owed' = Owed
    <3>. HIDE DEF dv, dp
    <3>. QED BY <1>00, <2>5
  <2>7. Contract!TryWait
      BY <2>1, <2>2, <2>3, <2>6, ContractFields DEF Contract!TryWait, Sem
  <2>. QED BY Zenon, <2>7 DEF Contract!Next
<1>2. CASE FetchSub(c)
  <2>. DEFINE l == IF cnt > 0 THEN "pop" ELSE "park"
  <2>1. /\ pc' = [pc EXCEPT ![c] = l] /\ l \in Labels /\ pc[c] = "fetch_sub"
        /\ cnt' = cnt - 1 /\ UNCHANGED <<ret, release>> /\ l \in {"pop", "park"}
      BY Zenon, <1>2 DEF FetchSub, Goto, Labels, blockerVars
  <2>2. ret[c] = "park" /\ c \notin Posters
      BY Zenon, <1>0, <2>1 DEF FlagsOK
  <2>3. c \notin Waiting /\ Waiting' = Waiting \cup {c}
      BY Zenon, <1>0, <2>1, <2>2 DEF TypeOK, Waiting
  <2>4. Ghosts' = Ghosts
    <3>1. Ghosts' = Ghosts + One(release'[c]) - One(release[c])
                           + One(l = "post") - One(pc[c] = "post")
        BY Zenon, <2>1, GhostStep
    <3>2. One(l = "post") = 0 /\ One(pc[c] = "post") = 0 /\ One(release[c]) \in Int
        BY <2>1 DEF One
    <3>. QED BY <1>0, <2>1, <3>1, <3>2
  <2>5. value' = value
      BY Zenon, <2>1, ValueStep
  <2>6. dv = 0 /\ dp = (IF cnt > 0 THEN -1 ELSE 0)
      BY <1>0, <1>00, <2>1, <2>5, PosValue
  <2>7. Owed' = IF cnt > 0 THEN Owed + 1 ELSE Owed
    <3>. HIDE DEF dv, dp
    <3>. QED BY <1>00, <2>6
  <2>8. Contract!Register(c)
    <3>1. [contract EXCEPT !.cnt = cnt - 1, !.waiting = Waiting \cup {c}, !.owed = Owed'] =
              Sem(cnt - 1, Waiting \cup {c}, Ghosts, Owed')
      <4>1. [contract EXCEPT !.cnt = cnt - 1] = Sem(cnt - 1, Waiting, Ghosts, Owed)
          BY ContractFields DEF Sem
      <4>2. [Sem(cnt - 1, Waiting, Ghosts, Owed) EXCEPT !.waiting = Waiting \cup {c}] =
                Sem(cnt - 1, Waiting \cup {c}, Ghosts, Owed)
          BY DEF Sem
      <4>3. [Sem(cnt - 1, Waiting \cup {c}, Ghosts, Owed) EXCEPT !.owed = Owed'] =
                Sem(cnt - 1, Waiting \cup {c}, Ghosts, Owed')
          BY DEF Sem
      <4>. QED BY Zenon, <4>1, <4>2, <4>3
    <3>2. contract' = Sem(cnt - 1, Waiting \cup {c}, Ghosts, Owed')
        BY Zenon, <2>1, <2>3, <2>4, <2>7, ContractFields
    <3>. QED BY Zenon, <2>1, <2>3, <2>4, <2>7, <3>1, <3>2, ContractFields DEF Contract!Register
  <2>. QED BY Zenon, <2>2, <2>8 DEF Contract!Next
<1>3. CASE WaitParkOk(c)
  <2>1. /\ pc' = [pc EXCEPT ![c] = "granted"] /\ "granted" \in Labels /\ pc[c] = "park"
        /\ cnt' = cnt /\ UNCHANGED <<ret, release>> /\ token[c]
      BY Zenon, <1>3 DEF WaitParkOk, ParkOk, Goto, Labels, Ended
  <2>2. ret[c] = "park" /\ c \notin Posters
      BY Zenon, <1>0, <2>1 DEF FlagsOK
  <2>3. c \in Waiting /\ Waiting' = Waiting \ {c}
      BY Zenon, <1>0, <2>1, <2>2 DEF TypeOK, Waiting
  <2>4. Ghosts' = Ghosts
    <3>1. Ghosts' = Ghosts + One(release'[c]) - One(release[c])
                           + One("granted" = "post") - One(pc[c] = "post")
        BY Zenon, <2>1, GhostStep
    <3>. QED BY <1>0, <2>1, <3>1 DEF One
  <2>5. value' = value - 1
      BY Zenon, <2>1, <2>2, ValueStep
  <2>6. Owed' = Owed - 1
    <3>1. dv = -1 /\ dp = 0
        BY <1>0, <1>00, <2>1, <2>5
    <3>. HIDE DEF dv, dp
    <3>. QED BY <1>00, <3>1
  <2>7. Owed > 0
    <3>1. c \in Handovers
        BY Zenon, <1>0, <2>1, <2>2 DEF FlagsOK, Handovers, Live
    <3>2. Cardinality(Handovers) # 0
        BY Zenon, <3>1, SetsFinite, CardEmpty DEF Inv
    <3>. QED BY <3>2, SetsFinite DEF Owed, Inv
  <2>8. Contract!Return(c)
    <3>1. [contract EXCEPT !.waiting = Waiting \ {c}, !.owed = Owed - 1] =
              Sem(cnt, Waiting \ {c}, Ghosts, Owed - 1)
      <4>1. [contract EXCEPT !.waiting = Waiting \ {c}] = Sem(cnt, Waiting \ {c}, Ghosts, Owed)
          BY ContractFields DEF Sem
      <4>2. [Sem(cnt, Waiting \ {c}, Ghosts, Owed) EXCEPT !.owed = Owed - 1] =
                Sem(cnt, Waiting \ {c}, Ghosts, Owed - 1)
          BY DEF Sem
      <4>. QED BY Zenon, <4>1, <4>2
    <3>2. contract' = Sem(cnt, Waiting \ {c}, Ghosts, Owed - 1)
        BY Zenon, <2>1, <2>3, <2>4, <2>6, <2>7, ContractFields
    <3>. QED BY Zenon, <2>1, <2>3, <2>4, <2>6, <2>7, <3>1, <3>2, ContractFields
                DEF Contract!Return
  <2>. QED BY Zenon, <2>2, <2>8 DEF Contract!Next
<1>4. CASE (IsUnparked(c) /\ unparked[c]) \/ WaitSetRelease(c)
  <2>1. PICK l \in {"post", "recheck"} :
            /\ pc' = [pc EXCEPT ![c] = l]
            /\ l = "post" => release' = release /\ pc[c] = "is_unparked"
                 /\ ret' = [ret EXCEPT ![c] = "failed"]
            /\ l = "recheck" => /\ release' = [release EXCEPT ![c] = TRUE]
                                /\ pc[c] = "set_release" /\ ret' = ret
      BY Zenon, <1>4 DEF IsUnparked, GiveBack, WaitSetRelease, SetRelease, Goto, blockerVars
  <2>2. /\ l \in Labels /\ cnt' = cnt /\ pc[c] \in {"is_unparked", "set_release"}
        /\ \A x \in Calls \ {c} : ret'[x] = ret[x] /\ release'[x] = release[x]
      BY Zenon, <1>0, <1>4, <2>1 DEF TypeOK, BlockerTypeOK, IsUnparked, WaitSetRelease, Labels
  <2>3. ret[c] = "park" /\ c \notin Posters /\ ~release[c]
      BY Zenon, <1>0, <2>2 DEF FlagsOK
  <2>4. c \in Waiting /\ Waiting' = Waiting \ {c}
      BY Zenon, <1>0, <2>1, <2>2, <2>3 DEF TypeOK, Waiting
  <2>5. Ghosts' = Ghosts + 1
    <3>1. Ghosts' = Ghosts + One(release'[c]) - One(release[c])
                           + One(l = "post") - One(pc[c] = "post")
      <4>1. \A x \in Calls \ {c} : release'[x] = release[x]
          BY Zenon, <2>2
      <4>2. pc' = [pc EXCEPT ![c] = l] /\ l \in Labels
          BY Zenon, <2>1, <2>2
      <4>. QED BY Zenon, <4>1, <4>2, GhostStep
    <3>2. l = "recheck" => release'[c]
        BY Zenon, <1>0, <2>1 DEF TypeOK, BlockerTypeOK
    <3>3. One(release'[c]) = (IF l = "recheck" THEN 1 ELSE 0)
        BY Zenon, <2>1, <2>3, <3>2 DEF One
    <3>4. /\ One(release[c]) = 0 /\ One(pc[c] = "post") = 0
          /\ One(l = "post") = (IF l = "recheck" THEN 0 ELSE 1)
        BY Zenon, <2>2, <2>3 DEF One
    <3>. QED BY <1>0, <3>1, <3>3, <3>4
  <2>6. value' = value
      BY Zenon, <2>1, <2>2, ValueStep
  <2>7. Owed' = Owed
    <3>1. dv = 0 /\ dp = 0
        BY <1>0, <1>00, <2>2, <2>6
    <3>. HIDE DEF dv, dp
    <3>. QED BY <1>00, <3>1
  <2>8. Contract!GiveUp(c)
    <3>1. [contract EXCEPT !.waiting = Waiting \ {c}, !.ghosts = Ghosts + 1] =
              Sem(cnt, Waiting \ {c}, Ghosts + 1, Owed)
      <4>1. [contract EXCEPT !.waiting = Waiting \ {c}] = Sem(cnt, Waiting \ {c}, Ghosts, Owed)
          BY ContractFields DEF Sem
      <4>2. [Sem(cnt, Waiting \ {c}, Ghosts, Owed) EXCEPT !.ghosts = Ghosts + 1] =
                Sem(cnt, Waiting \ {c}, Ghosts + 1, Owed)
          BY DEF Sem
      <4>. QED BY Zenon, <4>1, <4>2
    <3>2. contract' = Sem(cnt, Waiting \ {c}, Ghosts + 1, Owed)
        BY Zenon, <2>2, <2>4, <2>5, <2>7, ContractFields
    <3>. QED BY Zenon, <2>2, <2>4, <2>5, <2>7, <3>1, <3>2, ContractFields DEF Contract!GiveUp
  <2>. QED BY Zenon, <2>3, <2>8 DEF Contract!Next
<1>5. CASE Post(c)
  <2>. DEFINE l == IF cnt < 0 THEN "pop" ELSE ret[c]
  <2>1. /\ pc' = [pc EXCEPT ![c] = l] /\ l \in {"pop", "park", "failed", "posted"}
        /\ l \in Labels /\ cnt' = cnt + 1 /\ UNCHANGED <<ret, release>>
        /\ pc[c] = "post" \/ (pc[c] = "idle" /\ c \in Posters)
      BY Zenon, <1>0, <1>5 DEF TypeOK, Post, AtPost, Goto, Labels, Ended, blockerVars
  <2>2. ret[c] = "park" => l \in {"pop", "park"}
      BY Zenon, <2>1
  <2>3. /\ pc[c] = "idle" => ret[c] = "posted"
        /\ ret[c] = "posted" <=> c \in Posters
      BY Zenon, <1>0, <2>1 DEF FlagsOK
  <2>. HIDE DEF l
  <2>4. Waiting' = Waiting
      BY Zenon, <1>0, <2>1, <2>2, <2>3 DEF TypeOK, Waiting
  <2>5. /\ Ghosts' = (IF pc[c] = "post" THEN Ghosts - 1 ELSE Ghosts)
        /\ (pc[c] = "post" => Ghosts > 0)
    <3>1. /\ Ghosts' = Ghosts + One(release'[c]) - One(release[c])
                              + One(l = "post") - One(pc[c] = "post")
          /\ pc[c] = "post" => Ghosts > 0
        BY Zenon, <2>1, GhostStep
    <3>2. /\ One(l = "post") = 0 /\ One(pc[c] = "post") = (IF pc[c] = "post" THEN 1 ELSE 0)
          /\ One(release[c]) \in Int
        BY <2>1 DEF One
    <3>. QED BY <1>0, <2>1, <3>1, <3>2
  <2>6. value' = (IF pc[c] = "post" THEN value ELSE value + 1)
      BY Zenon, <2>1, ValueStep
  <2>7. dv = (IF pc[c] = "post" THEN 0 ELSE 1) /\ dp = (IF cnt < 0 THEN 0 ELSE 1)
      BY <1>0, <1>00, <2>1, <2>6, PosValue
  <2>8. CASE pc[c] = "post"
    <3>1. Owed' = IF cnt < 0 THEN Owed ELSE Owed - 1
      <4>. HIDE DEF dv, dp
      <4>. QED BY <1>00, <2>7, <2>8
    <3>2. Owed > 0
      <4>1. c \in Moving
          BY Zenon, <2>8 DEF Moving
      <4>2. Cardinality(Moving) # 0
          BY Zenon, <4>1, SetsFinite, CardEmpty DEF Inv
      <4>. QED BY <4>2, SetsFinite DEF Owed, Inv
    <3>3. Contract!Repost
      <4>1. [contract EXCEPT !.cnt = cnt + 1, !.ghosts = Ghosts - 1,
                       !.owed = IF cnt < 0 THEN Owed ELSE Owed - 1] =
                Sem(cnt + 1, Waiting, Ghosts - 1, IF cnt < 0 THEN Owed ELSE Owed - 1)
        <5>1. [contract EXCEPT !.cnt = cnt + 1] = Sem(cnt + 1, Waiting, Ghosts, Owed)
            BY ContractFields DEF Sem
        <5>2. [Sem(cnt + 1, Waiting, Ghosts, Owed) EXCEPT !.ghosts = Ghosts - 1] =
                  Sem(cnt + 1, Waiting, Ghosts - 1, Owed)
            BY DEF Sem
        <5>3. [Sem(cnt + 1, Waiting, Ghosts - 1, Owed) EXCEPT !.owed =
                  IF cnt < 0 THEN Owed ELSE Owed - 1] =
                  Sem(cnt + 1, Waiting, Ghosts - 1, IF cnt < 0 THEN Owed ELSE Owed - 1)
            BY DEF Sem
        <5>. QED BY Zenon, <5>1, <5>2, <5>3
      <4>2. contract' = Sem(cnt + 1, Waiting, Ghosts - 1, IF cnt < 0 THEN Owed ELSE Owed - 1)
          BY Zenon, <2>1, <2>4, <2>5, <2>8, <3>1, <3>2, ContractFields
      <4>. QED BY Zenon, <2>1, <2>4, <2>5, <2>8, <3>1, <3>2, <4>1, <4>2, ContractFields
                  DEF Contract!Repost
    <3>. QED BY Zenon, <3>3 DEF Contract!Next
  <2>9. CASE pc[c] # "post"
    <3>1. Owed' = IF cnt < 0 THEN Owed + 1 ELSE Owed
      <4>. HIDE DEF dv, dp
      <4>. QED BY <1>00, <2>7, <2>9
    <3>2. Contract!Post
      <4>1. [contract EXCEPT !.cnt = cnt + 1, !.owed = IF cnt < 0 THEN Owed + 1 ELSE Owed] =
                Sem(cnt + 1, Waiting, Ghosts, IF cnt < 0 THEN Owed + 1 ELSE Owed)
        <5>1. [contract EXCEPT !.cnt = cnt + 1] = Sem(cnt + 1, Waiting, Ghosts, Owed)
            BY ContractFields DEF Sem
        <5>2. [Sem(cnt + 1, Waiting, Ghosts, Owed) EXCEPT !.owed =
                  IF cnt < 0 THEN Owed + 1 ELSE Owed] =
                  Sem(cnt + 1, Waiting, Ghosts, IF cnt < 0 THEN Owed + 1 ELSE Owed)
            BY DEF Sem
        <5>. QED BY Zenon, <5>1, <5>2
      <4>2. contract' = Sem(cnt + 1, Waiting, Ghosts, IF cnt < 0 THEN Owed + 1 ELSE Owed)
          BY Zenon, <2>1, <2>4, <2>5, <2>9, <3>1, ContractFields
      <4>. QED BY Zenon, <2>1, <2>4, <2>5, <2>9, <3>1, <4>1, <4>2, ContractFields
                  DEF Contract!Post
    <3>. QED BY Zenon, <3>2 DEF Contract!Next
  <2>. QED BY Zenon, <2>8, <2>9
<1>6. CASE TryWaitFails(c)
  <2>1. PICK l \in {"would_block", "push"} : pc' = [pc EXCEPT ![c] = l]
      BY Zenon, <1>6 DEF TryWaitFails, Goto
  <2>2. l \in Labels /\ pc[c] = "idle" /\ c \notin Posters /\ UNCHANGED <<cnt, ret, release>>
      BY Zenon, <1>6 DEF TryWaitFails, Labels, Ended, blockerVars
  <2>3. Waiting' = Waiting
      BY Zenon, <1>0, <2>1, <2>2 DEF TypeOK, Waiting
  <2>4. value' = value
      BY Zenon, <2>1, <2>2, ValueStep
  <2>5. One(release'[c]) - One(release[c]) + One(l = "post") - One(pc[c] = "post") = 0
      BY <2>2 DEF One
  <2>. QED BY Zenon, <2>1, <2>2, <2>3, <2>4, <2>5, ContractSame
<1>7. CASE \/ Push(c) \/ WaitParkErr(c) \/ Recheck(c) \/ (IsUnparked(c) /\ ~unparked[c])
           \/ Pop(c) \/ Unpark(c) \/ UnparkStore(c)
  <2>1. PICK l \in {"fetch_sub", "is_unparked", "retake", "failed", "set_release", "unpark",
                    "store_unparked", "take_release"} : pc' = [pc EXCEPT ![c] = l]
      BY Zenon, <1>7
      DEF Push, WaitParkErr, Recheck, IsUnparked, GiveBack, Pop, Unpark, UnparkStore, Goto
  <2>2. /\ l \in Labels /\ UNCHANGED <<cnt, ret, release>>
        /\ pc[c] \in {"push", "park", "recheck", "is_unparked", "pop", "unpark", "store_unparked"}
        /\ pc[c] = "push" <=> l = "fetch_sub"
        /\ pc[c] = "recheck" <=> l \in {"retake", "failed"}
      BY Zenon, <1>0, <1>7, <2>1
      DEF TypeOK, Push, WaitParkErr, ParkErr, Recheck, IsUnparked, GiveBack, Pop, Unpark,
          BlockerUnpark,
          UnparkStore, StoreUnparked, blockerVars, Labels, Ended, Goto
  <2>3. Waiting' = Waiting
      BY Zenon, <1>0, <2>1, <2>2 DEF TypeOK, Waiting
  <2>4. value' = value
      BY Zenon, <2>1, <2>2, ValueStep
  <2>5. One(release'[c]) - One(release[c]) + One(l = "post") - One(pc[c] = "post") = 0
      BY <2>2 DEF One
  <2>. QED BY Zenon, <2>1, <2>2, <2>3, <2>4, <2>5, ContractSame
<1>8. CASE Retake(c)
  <2>1. PICK l \in {"post", "failed"} :
            pc' = [pc EXCEPT ![c] = l] /\ (l = "post" <=> release[c])
      BY Zenon, <1>8 DEF Retake, GiveBack, Goto
  <2>2. /\ l \in Labels /\ cnt' = cnt /\ pc[c] = "retake" /\ ~release'[c]
        /\ \A x \in Calls \ {c} : ret'[x] = ret[x] /\ release'[x] = release[x]
        /\ l = "post" => ret'[c] = "failed"
      BY Zenon, <1>0, <1>8, <2>1
      DEF TypeOK, BlockerTypeOK, Retake, GiveBack, TakeRelease, Goto, Labels, Ended
  <2>3. Waiting' = Waiting
      BY Zenon, <1>0, <2>1, <2>2 DEF TypeOK, Waiting
  <2>4. value' = value
      BY Zenon, <2>1, <2>2, ValueStep
  <2>5. One(release'[c]) - One(release[c]) + One(l = "post") - One(pc[c] = "post") = 0
      BY <2>1, <2>2 DEF One
  <2>. QED BY Zenon, <2>1, <2>2, <2>3, <2>4, <2>5, ContractSame
<1>9. CASE UnparkTakeRelease(c)
  <2>0. PICK t \in Calls : t = target[c]
      BY Zenon, <1>0 DEF TypeOK
  <2>1. PICK l \in {"post", ret[c]} :
            pc' = [pc EXCEPT ![c] = l] /\ (l = "post" <=> release[t])
      BY Zenon, <1>0, <1>9, <2>0 DEF TypeOK, UnparkTakeRelease, Goto
  <2>2. /\ l \in Labels /\ l \in {"post", "park", "failed", "posted"} /\ UNCHANGED <<cnt, ret>>
        /\ pc[c] = "take_release" /\ ~release'[t]
        /\ \A x \in Calls \ {t} : release'[x] = release[x]
      BY Zenon, <1>0, <1>9, <2>0, <2>1
      DEF TypeOK, BlockerTypeOK, UnparkTakeRelease, TakeRelease, Labels, Ended
  <2>3. Waiting' = Waiting
      BY Zenon, <1>0, <2>1, <2>2 DEF TypeOK, Waiting
  <2>4. value' = value
      BY Zenon, <2>1, <2>2, ValueStep
  <2>5. One(release'[t]) - One(release[t]) + One(l = "post") - One(pc[c] = "post") = 0
      BY <2>1, <2>2 DEF One
  <2>. QED BY Zenon, <2>1, <2>2, <2>3, <2>4, <2>5, ContractSame
<1>. QED BY Zenon, <1>1, <1>2, <1>3, <1>4, <1>5, <1>6, <1>7, <1>8, <1>9 DEF Step

-----------------------------------------------------------------------------
(* The theorems.                                                           *)

INSTANCE FiniteSetTheorems

\* The facts on finite sets that the lemmas above assume.
LEMMA CardinalityHolds == CardinalityFacts
<1>1. \A S : IsFiniteSet(S) => Cardinality(S) \in Nat
    BY Zenon, FS_CardinalityType
<1>2. \A n \in Nat : IsFiniteSet(1..n) /\ Cardinality(1..n) = n
    BY FS_Interval
<1>3. \A S, T : \A f \in Surjection(S, T) :
          IsFiniteSet(S) => IsFiniteSet(T) /\ Cardinality(T) <= Cardinality(S)
    BY Zenon, FS_Surjection
<1>4. \A S : \A T \in SUBSET S :
          IsFiniteSet(S) => /\ IsFiniteSet(T) /\ Cardinality(T) <= Cardinality(S)
                            /\ Cardinality(S) = Cardinality(T) => S = T
    BY Zenon, FS_Subset
<1>. QED
    BY ZenonT(40), <1>1, <1>2, <1>3, <1>4, FS_EmptySet, FS_Singleton, FS_AddElement,
       FS_RemoveElement
    DEF CardinalityFacts

\* semphore.rs:61-153, any number of calls.  The unit argument holds always; in
\* particular the expect "got null blocker!" (semphore.rs:69) does not panic.
THEOREM InvAlways == Spec => []Inv
<1>. USE CardinalityHolds
<1>1. Inv /\ [Next]_vars => Inv'
    BY NextInv
<1>. QED BY InitInv, <1>1, PTL DEF Spec

\* semphore.rs:61-71, 80-109, 145-153, any number of calls.  No unit is lost and
\* none is handed out twice.
THEOREM UnitsBalanced == Spec => []UnitsBalance
<1>1. Inv => UnitsBalance
    BY CardinalityHolds, InvBalance
<1>. QED BY InvAlways, <1>1, PTL

\* semphore.rs:74-153, any number of calls.  Every behaviour of the semaphore is
\* one of a counting semaphore.
THEOREM SemaphoreRefinement == Spec => ImplementsSemaphore
<1>1. Init => Semaphore!Init
    BY Zenon, CardinalityHolds, SemaphoreInit
<1>2. ASSUME Inv, NEW c \in Calls, Step(c) \/ WaitParkErr(c)
      PROVE  [Semaphore!Next]_<<value, status>>
    BY Zenon, CardinalityHolds, <1>2, SemaphoreNext
<1>3. ASSUME UNCHANGED vars PROVE UNCHANGED <<value, status>>
    BY Zenon, <1>3 DEF vars, value, status, Got, Posted
<1>4. Inv /\ [Next]_vars => [Semaphore!Next]_<<value, status>>
    BY <1>2, <1>3 DEF Next, Quiet
<1>. QED BY InvAlways, <1>1, <1>4, PTL DEF Spec, ImplementsSemaphore, Semaphore!Spec

\* semphore.rs:61-163, any number of calls.  What the clients of the semaphore
\* rely on (SemphoreContract) holds of its code.
THEOREM ContractRefinement == Spec => ImplementsContract
<1>1. Init => contract = Contract!New
    BY Zenon, CardinalityHolds, ContractInit
<1>2. ASSUME Inv, Inv', NEW c \in Calls, Step(c) \/ WaitParkErr(c)
      PROVE  [Contract!Next]_contract
    BY Zenon, CardinalityHolds, <1>2, ContractNext
<1>3. ASSUME UNCHANGED vars PROVE contract' = contract
  <2>1. /\ Moving' = Moving /\ Posting' = Posting /\ Flagged' = Flagged /\ Waiting' = Waiting
        /\ cnt' = cnt
      BY Zenon, <1>3 DEF vars, Moving, Posting, Flagged, Waiting
  <2>2. Handovers' = Handovers
      BY Zenon, <1>3 DEF vars, Handovers, Live, Handed
  <2>. QED BY Zenon, <2>1, <2>2 DEF contract, Ghosts, Owed
<1>4. Inv /\ Inv' /\ [Next]_vars => [Contract!Next]_contract
    BY <1>2, <1>3 DEF Next, Quiet
<1>. QED BY InvAlways, <1>1, <1>4, PTL DEF Spec, ImplementsContract, Contract!Spec
=============================================================================
