-------------------------- MODULE CollectionLemmas --------------------------
(***************************************************************************)
(* Facts about queues and about the sizes of finite sets that the proofs   *)
(* of several components need: how they change when one or two elements    *)
(* enter or leave; and what the operations of SemphoreContract do to the   *)
(* units of a semaphore.  What they take from the library on finite sets   *)
(* is gathered in CardinalityFacts; each module that uses the lemmas       *)
(* proves it from FiniteSetTheorems before it states its theorems, so that *)
(* the library is in scope only there.                                     *)
(***************************************************************************)
EXTENDS Integers, Sequences, FiniteSets, Functions, TLAPS

-----------------------------------------------------------------------------
(* What the library proves of finite sets.                                 *)

CardinalityFacts ==
    /\ \A S : IsFiniteSet(S) => Cardinality(S) \in Nat
    /\ IsFiniteSet({}) /\ Cardinality({}) = 0
    /\ \A S : IsFiniteSet(S) => (Cardinality(S) = 0 <=> S = {})
    /\ \A x : IsFiniteSet({x}) /\ Cardinality({x}) = 1
    /\ \A S : IsFiniteSet(S) => (Cardinality(S) = 1 <=> \E x : S = {x})
    /\ \A S : \A T \in SUBSET S :
           IsFiniteSet(S) => /\ IsFiniteSet(T) /\ Cardinality(T) <= Cardinality(S)
                             /\ Cardinality(S) = Cardinality(T) => S = T
    /\ \A S, x : IsFiniteSet(S) =>
           /\ IsFiniteSet(S \cup {x})
           /\ Cardinality(S \cup {x}) = IF x \in S THEN Cardinality(S) ELSE Cardinality(S) + 1
    /\ \A S, x : IsFiniteSet(S) =>
           /\ IsFiniteSet(S \ {x})
           /\ Cardinality(S \ {x}) = IF x \in S THEN Cardinality(S) - 1 ELSE Cardinality(S)
    /\ \A n \in Nat : IsFiniteSet(1..n) /\ Cardinality(1..n) = n
    /\ \A S, T : \A f \in Surjection(S, T) :
           IsFiniteSet(S) => IsFiniteSet(T) /\ Cardinality(T) <= Cardinality(S)

LEMMA CardType ==
    ASSUME CardinalityFacts, NEW S, IsFiniteSet(S)
    PROVE  Cardinality(S) \in Nat
BY DEF CardinalityFacts

LEMMA CardEmpty ==
    ASSUME CardinalityFacts
    PROVE  /\ IsFiniteSet({}) /\ Cardinality({}) = 0
           /\ \A S : IsFiniteSet(S) => (Cardinality(S) = 0 <=> S = {})
BY Zenon DEF CardinalityFacts

LEMMA CardSingleton ==
    ASSUME CardinalityFacts
    PROVE  /\ \A x : IsFiniteSet({x}) /\ Cardinality({x}) = 1
           /\ \A S : IsFiniteSet(S) => (Cardinality(S) = 1 <=> \E x : S = {x})
BY Zenon DEF CardinalityFacts

LEMMA CardSubset ==
    ASSUME CardinalityFacts, NEW S, IsFiniteSet(S), NEW T \in SUBSET S
    PROVE  /\ IsFiniteSet(T) /\ Cardinality(T) <= Cardinality(S)
           /\ Cardinality(S) = Cardinality(T) => S = T
BY Zenon DEF CardinalityFacts

LEMMA CardAdd ==
    ASSUME CardinalityFacts, NEW S, NEW x, IsFiniteSet(S)
    PROVE  /\ IsFiniteSet(S \cup {x})
           /\ Cardinality(S \cup {x}) = IF x \in S THEN Cardinality(S) ELSE Cardinality(S) + 1
BY Zenon DEF CardinalityFacts

LEMMA CardRemove ==
    ASSUME CardinalityFacts, NEW S, NEW x, IsFiniteSet(S)
    PROVE  /\ IsFiniteSet(S \ {x})
           /\ Cardinality(S \ {x}) = IF x \in S THEN Cardinality(S) - 1 ELSE Cardinality(S)
BY Zenon DEF CardinalityFacts

-----------------------------------------------------------------------------
(* Queues of waiters: sequences without repetition.                        *)

\* What a push does to the set of queued elements.
LEMMA QueueAppend ==
    ASSUME NEW S, NEW q \in Seq(S), NEW e \in S
    PROVE  /\ Append(q, e) \in Seq(S)
           /\ Range(Append(q, e)) = Range(q) \cup {e}
           /\ IsInjective(q) /\ e \notin Range(q) => IsInjective(Append(q, e))
<1>1. /\ Append(q, e) \in Seq(S)
      /\ Len(Append(q, e)) = Len(q) + 1
      /\ \A i \in 1..Len(q) : Append(q, e)[i] = q[i]
      /\ Append(q, e)[Len(q) + 1] = e
    OBVIOUS
<1>2. DOMAIN Append(q, e) = 1..(Len(q) + 1) /\ DOMAIN q = 1..Len(q) /\ Len(q) \in Nat
    BY <1>1
<1>3. Range(Append(q, e)) = Range(q) \cup {e}
  <2>1. \A x \in Range(Append(q, e)) : x \in Range(q) \cup {e}
      BY <1>1, <1>2 DEF Range
  <2>2. \A x \in Range(q) \cup {e} : x \in Range(Append(q, e))
      BY <1>1, <1>2 DEF Range
  <2>. QED BY <2>1, <2>2
<1>4. IsInjective(q) /\ e \notin Range(q) => IsInjective(Append(q, e))
    BY <1>1, <1>2 DEF Range, IsInjective
<1>. QED BY <1>1, <1>3, <1>4

\* What a pop does to the set of queued elements.
LEMMA QueueTail ==
    ASSUME NEW S, NEW q \in Seq(S), q # <<>>, IsInjective(q)
    PROVE  /\ Head(q) \in S
           /\ Tail(q) \in Seq(S)
           /\ Head(q) \in Range(q)
           /\ Range(Tail(q)) = Range(q) \ {Head(q)}
           /\ IsInjective(Tail(q))
<1>1. /\ Head(q) \in S /\ Tail(q) \in Seq(S)
      /\ Len(Tail(q)) = Len(q) - 1
      /\ \A i \in 1..Len(Tail(q)) : Tail(q)[i] = q[i + 1]
    OBVIOUS
<1>2. /\ DOMAIN Tail(q) = 1..(Len(q) - 1) /\ DOMAIN q = 1..Len(q)
      /\ Len(q) \in Nat /\ Len(q) > 0 /\ Head(q) = q[1]
    BY <1>1
<1>3. \A x \in Range(Tail(q)) : x \in Range(q) \ {Head(q)}
    BY <1>1, <1>2 DEF Range, IsInjective
<1>4. \A x \in Range(q) \ {Head(q)} : x \in Range(Tail(q))
  <2>. SUFFICES ASSUME NEW i \in 1..Len(q), q[i] # q[1]
                PROVE  q[i] \in Range(Tail(q))
      BY <1>2 DEF Range
  <2>1. i - 1 \in 1..(Len(q) - 1) /\ Tail(q)[i - 1] = q[i]
      BY <1>1, <1>2
  <2>. QED BY <2>1, <1>2 DEF Range
<1>5. IsInjective(Tail(q))
    BY <1>1, <1>2 DEF IsInjective
<1>. QED BY <1>1, <1>2, <1>3, <1>4, <1>5 DEF Range


\* A queue has at least as many places as it has elements.
LEMMA QueueLength ==
    ASSUME CardinalityFacts, NEW S, NEW q \in Seq(S)
    PROVE  /\ Range(q) \subseteq S
           /\ IsFiniteSet(Range(q))
           /\ Len(q) \in Nat
           /\ Cardinality(Range(q)) <= Len(q)
<1>1. Range(q) \subseteq S /\ Len(q) \in Nat /\ DOMAIN q = 1..Len(q)
    BY DEF Range
<1>2. q \in Surjection(1..Len(q), Range(q))
    BY <1>1 DEF Surjection, Range
<1>3. IsFiniteSet(1..Len(q)) /\ Cardinality(1..Len(q)) = Len(q)
    BY <1>1 DEF CardinalityFacts
<1>4. IsFiniteSet(Range(q)) /\ Cardinality(Range(q)) <= Len(q)
    BY <1>2, <1>3 DEF CardinalityFacts
<1>. QED BY <1>1, <1>4

-----------------------------------------------------------------------------
(* Sizes of sets.                                                          *)

\* A condition, counted.
One(b) == IF b THEN 1 ELSE 0

\* A set that may have gained or lost one element.
LEMMA CountOne ==
    ASSUME CardinalityFacts, NEW S, NEW T, NEW x, IsFiniteSet(S),
           \A y : y # x => (y \in T <=> y \in S)
    PROVE  /\ IsFiniteSet(T)
           /\ Cardinality(S) \in Nat /\ Cardinality(T) \in Nat
           /\ Cardinality(T) = Cardinality(S) + One(x \in T) - One(x \in S)
<1>1. CASE x \in T
  <2>1. T = S \cup {x}
      BY <1>1
  <2>. QED BY <1>1, <2>1, CardAdd, CardType DEF One
<1>2. CASE x \notin T
  <2>1. T = S \ {x}
      BY <1>2
  <2>. QED BY <1>2, <2>1, CardRemove, CardType DEF One
<1>. QED BY <1>1, <1>2

\* Two elements may have come or gone.
LEMMA CountTwo ==
    ASSUME CardinalityFacts, NEW S, NEW T, NEW x, NEW z, x # z, IsFiniteSet(S),
           \A y : y # x /\ y # z => (y \in T <=> y \in S)
    PROVE  /\ IsFiniteSet(T)
           /\ Cardinality(S) \in Nat /\ Cardinality(T) \in Nat
           /\ Cardinality(T) = Cardinality(S) + One(x \in T) - One(x \in S)
                                              + One(z \in T) - One(z \in S)
<1>. DEFINE U == IF x \in T THEN S \cup {x} ELSE S \ {x}
<1>1. /\ \A y : y # x => (y \in U <=> y \in S)
      /\ \A y : y # z => (y \in T <=> y \in U)
      /\ (x \in U <=> x \in T) /\ (z \in U <=> z \in S)
    OBVIOUS
<1>. HIDE DEF U
<1>2. /\ IsFiniteSet(U) /\ Cardinality(S) \in Nat /\ Cardinality(U) \in Nat
      /\ Cardinality(U) = Cardinality(S) + One(x \in U) - One(x \in S)
    BY <1>1, CountOne
<1>3. /\ IsFiniteSet(T) /\ Cardinality(T) \in Nat
      /\ Cardinality(T) = Cardinality(U) + One(z \in T) - One(z \in U)
    BY <1>1, <1>2, CountOne
<1>. QED BY <1>1, <1>2, <1>3 DEF One
-----------------------------------------------------------------------------
(* The units of a semaphore, as the record of SemphoreContract shows them  *)
(* to its clients.                                                         *)

SemType(W) == [cnt : Int, waiting : SUBSET W, ghosts : Nat, owed : Nat]

\* The units nobody has: those the counter shows, and the wake-ups owed.
Units(s) == (IF s.cnt > 0 THEN s.cnt ELSE 0) + s.owed

\* The records after the operations of SemphoreContract.
SemTryWait(s) == [s EXCEPT !.cnt = @ - 1]
SemRegister(s, c) ==
    [s EXCEPT !.cnt = @ - 1, !.waiting = @ \cup {c},
              !.owed = IF s.cnt > 0 THEN @ + 1 ELSE @]
SemReturn(s, c) ==
    [s EXCEPT !.waiting = @ \ {c}, !.owed = @ - 1]
SemGiveUp(s, c) ==
    [s EXCEPT !.waiting = @ \ {c}, !.ghosts = @ + 1]
SemPost(s) ==
    [s EXCEPT !.cnt = @ + 1, !.owed = IF s.cnt < 0 THEN @ + 1 ELSE @]
SemRepost(s) ==
    [s EXCEPT !.cnt = @ + 1, !.ghosts = @ - 1,
              !.owed = IF s.cnt < 0 THEN @ ELSE @ - 1]

\* try_wait takes a unit.
LEMMA UnitsTryWait ==
    ASSUME NEW W, NEW s \in SemType(W), s.cnt > 0, NEW t, t = SemTryWait(s)
    PROVE  /\ t \in SemType(W) /\ Units(s) \in Nat /\ Units(s) > 0
           /\ Units(t) = Units(s) - 1
BY DEF SemType, SemTryWait, Units

\* A wait that registers takes none yet: it turns a posted one into a wake-up.
LEMMA UnitsRegister ==
    ASSUME NEW W, NEW s \in SemType(W), NEW c \in W, NEW t,
           t = SemRegister(s, c)
    PROVE  t \in SemType(W) /\ Units(t) = Units(s)
<1>1. /\ t.cnt = s.cnt - 1 /\ t.owed = IF s.cnt > 0 THEN s.owed + 1 ELSE s.owed
      /\ t.waiting = s.waiting \cup {c} /\ t.ghosts = s.ghosts
      /\ t = [cnt |-> t.cnt, waiting |-> t.waiting, ghosts |-> t.ghosts, owed |-> t.owed]
    BY DEF SemType, SemRegister
<1>2. s.cnt \in Int /\ s.owed \in Nat /\ s.waiting \subseteq W /\ s.ghosts \in Nat
    BY DEF SemType
<1>3. t.owed \in Nat /\ t.cnt \in Int /\ t.waiting \subseteq W /\ t.ghosts \in Nat
    BY <1>1, <1>2
<1>4. t \in SemType(W)
    BY <1>1, <1>3 DEF SemType
<1>. QED BY <1>1, <1>2, <1>4 DEF Units

\* The wait that returns takes the unit it is owed.
LEMMA UnitsReturn ==
    ASSUME NEW W, NEW s \in SemType(W), NEW c, s.owed > 0, NEW t,
           t = SemReturn(s, c)
    PROVE  /\ t \in SemType(W) /\ Units(s) \in Nat /\ Units(s) > 0
           /\ Units(t) = Units(s) - 1
<1>1. /\ t.cnt = s.cnt /\ t.owed = s.owed - 1
      /\ t.waiting = s.waiting \ {c} /\ t.ghosts = s.ghosts
      /\ t = [cnt |-> t.cnt, waiting |-> t.waiting, ghosts |-> t.ghosts, owed |-> t.owed]
    BY DEF SemType, SemReturn
<1>2. s.cnt \in Int /\ s.owed \in Nat /\ s.waiting \subseteq W /\ s.ghosts \in Nat
    BY DEF SemType
<1>3. t.owed \in Nat /\ t.cnt \in Int /\ t.waiting \subseteq W /\ t.ghosts \in Nat
    BY <1>1, <1>2
<1>4. t \in SemType(W)
    BY <1>1, <1>3 DEF SemType
<1>. QED BY <1>1, <1>2, <1>4 DEF Units

\* A wait that gives up takes none.
LEMMA UnitsGiveUp ==
    ASSUME NEW W, NEW s \in SemType(W), NEW c, NEW t,
           t = SemGiveUp(s, c)
    PROVE  t \in SemType(W) /\ Units(t) = Units(s)
<1>1. /\ t.cnt = s.cnt /\ t.owed = s.owed
      /\ t.waiting = s.waiting \ {c} /\ t.ghosts = s.ghosts + 1
      /\ t = [cnt |-> t.cnt, waiting |-> t.waiting, ghosts |-> t.ghosts, owed |-> t.owed]
    BY DEF SemType, SemGiveUp
<1>2. s.cnt \in Int /\ s.owed \in Nat /\ s.waiting \subseteq W /\ s.ghosts \in Nat
    BY DEF SemType
<1>3. t.owed \in Nat /\ t.cnt \in Int /\ t.waiting \subseteq W /\ t.ghosts \in Nat
    BY <1>1, <1>2
<1>4. t \in SemType(W)
    BY <1>1, <1>3 DEF SemType
<1>. QED BY <1>1, <1>2, <1>4 DEF Units

\* post gives one back, to the counter or as a wake-up.
LEMMA UnitsPost ==
    ASSUME NEW W, NEW s \in SemType(W), NEW t,
           t = SemPost(s)
    PROVE  /\ t \in SemType(W) /\ Units(s) \in Nat
           /\ Units(t) = Units(s) + 1
<1>1. /\ t.cnt = s.cnt + 1 /\ t.owed = IF s.cnt < 0 THEN s.owed + 1 ELSE s.owed
      /\ t.waiting = s.waiting /\ t.ghosts = s.ghosts
      /\ t = [cnt |-> t.cnt, waiting |-> t.waiting, ghosts |-> t.ghosts, owed |-> t.owed]
    BY DEF SemType, SemPost
<1>2. s.cnt \in Int /\ s.owed \in Nat /\ s.waiting \subseteq W /\ s.ghosts \in Nat
    BY DEF SemType
<1>3. t.owed \in Nat /\ t.cnt \in Int /\ t.waiting \subseteq W /\ t.ghosts \in Nat
    BY <1>1, <1>2
<1>4. t \in SemType(W)
    BY <1>1, <1>3 DEF SemType
<1>. QED BY <1>1, <1>2, <1>4 DEF Units

\* The unit that met a wait that gave up is posted again: there are as many.
LEMMA UnitsRepost ==
    ASSUME NEW W, NEW s \in SemType(W), s.ghosts > 0, s.owed > 0, NEW t,
           t = SemRepost(s)
    PROVE  t \in SemType(W) /\ Units(t) = Units(s)
<1>1. /\ t.cnt = s.cnt + 1 /\ t.owed = IF s.cnt < 0 THEN s.owed ELSE s.owed - 1
      /\ t.waiting = s.waiting /\ t.ghosts = s.ghosts - 1
      /\ t = [cnt |-> t.cnt, waiting |-> t.waiting, ghosts |-> t.ghosts, owed |-> t.owed]
    BY DEF SemType, SemRepost
<1>2. s.cnt \in Int /\ s.owed \in Nat /\ s.waiting \subseteq W /\ s.ghosts \in Nat
    BY DEF SemType
<1>3. t.owed \in Nat /\ t.cnt \in Int /\ t.waiting \subseteq W /\ t.ghosts \in Nat
    BY <1>1, <1>2
<1>4. t \in SemType(W)
    BY <1>1, <1>3 DEF SemType
<1>. QED BY <1>1, <1>2, <1>4 DEF Units
=============================================================================
