------------------------------ MODULE SyncVec ------------------------------
(***************************************************************************)
(* std/vec/mod.rs.  Like SyncHashMap the vector keeps its elements twice:  *)
(* dirty, behind a Mutex, owns them, read has bitwise copies and is read   *)
(* without the lock.  Elements are numbers in the order they enter.        *)
(***************************************************************************)
EXTENDS Integers, Sequences, SequencesExt

CONSTANTS Callers, MaxValues, Null

VARIABLES
    read,      \* the copies
    dirty,     \* the elements
    lock,      \* the caller that holds the Mutex of dirty, or Null
    poisoned,  \* the Mutex is poisoned
    call,      \* the call of each caller: its name and index
    pc,        \* where each caller is
    made,      \* values that exist so far
    dropped,   \* values that have been dropped
    shown      \* read shows what dirty has: nothing was replaced or moved in place

vars == <<read, dirty, lock, poisoned, call, pc, made, dropped, shown>>

Values == 1 .. MaxValues
Indexes == 0 .. MaxValues
Names == {"insert", "push", "pop", "remove", "clear", "shrink_to_fit", "get_mut", "iter_mut"}
Adding(p) == call[p].name \in {"insert", "push"}

TypeOK ==
    /\ read \in Seq(Values) /\ dirty \in Seq(Values)
    /\ lock \in Callers \cup {Null}
    /\ poisoned \in BOOLEAN /\ shown \in BOOLEAN
    /\ call \in [Callers -> [name : Names, index : Indexes]]
    /\ pc \in [Callers -> {"idle", "check", "lock", "dirty", "read", "unlock", "guard", "gone"}]
    /\ made \in 0 .. MaxValues
    /\ dropped \subseteq Values

Goto(p, l) == pc' = [pc EXCEPT ![p] = l]

\* The readers; an index of the code is one less than an index of a sequence.
len == Len(read)
get(i) == IF i < len THEN read[i + 1] ELSE Null
iter == read

\* from: the elements of the caller's vector are copied to read.
from(v) == dirty = v /\ read = v

Init ==
    /\ made \in 0 .. 1
    /\ from([i \in 1 .. made |-> i])
    /\ lock = Null
    /\ poisoned = FALSE
    /\ call = [p \in Callers |-> [name |-> "clear", index |-> 0]]
    /\ pc = [p \in Callers |-> "idle"]
    /\ dropped = {}
    /\ shown = TRUE

\* remove looks at read first, without the lock.
Begin(p) ==
    /\ pc[p] = "idle"
    /\ \E n \in Names, i \in Indexes :
          /\ n \notin {"insert", "remove", "get_mut"} => i = 0
          /\ n \in {"insert", "push"} => made < MaxValues
          /\ i <= Len(dirty) + 1
          /\ call' = [call EXCEPT ![p] = [name |-> n, index |-> i]]
          /\ Goto(p, IF n = "remove" THEN "check" ELSE "lock")
    /\ UNCHANGED <<read, dirty, lock, poisoned, made, dropped, shown>>

\* A check that races with a change of read may find anything.
RemoveCheck(p) ==
    /\ pc[p] = "check"
    /\ \/ get(call[p].index) # Null /\ Goto(p, "lock")
       \/ get(call[p].index) = Null /\ Goto(p, "idle")
       \/ /\ \E q \in Callers : pc[q] = "read"
          /\ \E l \in {"lock", "idle"} : Goto(p, l)
    /\ UNCHANGED <<read, dirty, lock, poisoned, call, made, dropped, shown>>

\* dirty.lock(): on a poisoned lock the calls return, iter_mut tries again.
Lock(p) ==
    /\ pc[p] = "lock" /\ lock = Null
    /\ Adding(p) => made < MaxValues
    /\ IF poisoned
       THEN /\ Goto(p, IF call[p].name = "iter_mut" THEN "lock" ELSE "idle")
            /\ UNCHANGED lock
       ELSE lock' = p /\ Goto(p, "dirty")
    /\ UNCHANGED <<read, dirty, poisoned, call, made, dropped, shown>>

Unlock(p) ==
    /\ pc[p] = "unlock"
    /\ lock' = Null
    /\ Goto(p, "idle")
    /\ UNCHANGED <<read, dirty, poisoned, call, made, dropped, shown>>

\* A panic of Vec::insert or Vec::remove, index out of bounds, with the guard held.
Panic(p) ==
    /\ poisoned' = TRUE
    /\ lock' = Null
    /\ Goto(p, "idle")
    /\ UNCHANGED <<read, dirty, call, made, dropped, shown>>

Dirty(p, n) == pc[p] = "dirty" /\ call[p].name = n
Read(p, n) == pc[p] = "read" /\ call[p].name = n

\* The read half of a call, then the guard is dropped.
SetRead(p, s) ==
    /\ read' = s
    /\ Goto(p, "unlock")
    /\ UNCHANGED <<dirty, lock, poisoned, call, made, dropped, shown>>

\* The new element goes to its index in dirty; read gets a copy of the LAST
\* element of dirty at that index.
insert(p) ==
    LET i == call[p].index + 1
    IN  \/ /\ Dirty(p, "insert")
           /\ IF i > Len(dirty) + 1
              THEN Panic(p)
              ELSE /\ made' = made + 1
                   /\ dirty' = InsertAt(dirty, i, made + 1)
                   /\ shown' = (shown /\ i = Len(dirty) + 1)
                   /\ Goto(p, "read")
                   /\ UNCHANGED <<read, lock, poisoned, call, dropped>>
        \/ Read(p, "insert") /\ SetRead(p, InsertAt(read, i, Last(dirty)))

push(p) ==
    \/ /\ Dirty(p, "push")
       /\ made' = made + 1
       /\ dirty' = Append(dirty, made + 1)
       /\ Goto(p, "read")
       /\ UNCHANGED <<read, lock, poisoned, call, dropped, shown>>
    \/ Read(p, "push") /\ SetRead(p, Append(read, Last(dirty)))

\* Mutant: the copy of the popped element stays in read.
popDirtyOnly(p) ==
    /\ Dirty(p, "pop")
    /\ dirty' = IF dirty = <<>> THEN dirty ELSE Front(dirty)
    /\ dropped' = IF dirty = <<>> THEN dropped ELSE dropped \cup {Last(dirty)}
    /\ Goto(p, "unlock")
    /\ UNCHANGED <<read, lock, poisoned, call, made, shown>>

pop(p) ==
    \/ /\ Dirty(p, "pop")
       /\ IF dirty = <<>>
          THEN Goto(p, "unlock") /\ UNCHANGED <<dirty, dropped>>
          ELSE /\ dirty' = Front(dirty)
               /\ dropped' = dropped \cup {Last(dirty)}
               /\ Goto(p, "read")
       /\ UNCHANGED <<read, lock, poisoned, call, made, shown>>
    \/ Read(p, "pop") /\ SetRead(p, IF read = <<>> THEN read ELSE Front(read))

remove(p) ==
    LET i == call[p].index + 1
    IN  \/ /\ Dirty(p, "remove")
           /\ IF i > Len(dirty)
              THEN Panic(p)
              ELSE /\ dirty' = RemoveAt(dirty, i)
                   /\ dropped' = dropped \cup {dirty[i]}
                   /\ Goto(p, "read")
                   /\ UNCHANGED <<read, lock, poisoned, call, made, shown>>
        \/ Read(p, "remove") /\ SetRead(p, RemoveAt(read, i))

clear(p) ==
    \/ /\ Dirty(p, "clear")
       /\ dirty' = <<>>
       /\ dropped' = dropped \cup Range(dirty)
       /\ Goto(p, "read")
       /\ UNCHANGED <<read, lock, poisoned, call, made, shown>>
    \/ Read(p, "clear") /\ SetRead(p, <<>>)

shrink_to_fit(p) ==
    /\ Dirty(p, "shrink_to_fit")
    /\ Goto(p, "unlock")
    /\ UNCHANGED <<read, dirty, lock, poisoned, call, made, dropped, shown>>

get_mut(p) ==
    /\ Dirty(p, "get_mut")
    /\ Goto(p, IF call[p].index < Len(dirty) THEN "guard" ELSE "unlock")
    /\ UNCHANGED <<read, dirty, lock, poisoned, call, made, dropped, shown>>

iter_mut(p) ==
    /\ Dirty(p, "iter_mut")
    /\ Goto(p, "guard")
    /\ UNCHANGED <<read, dirty, lock, poisoned, call, made, dropped, shown>>

\* deref_mut: the caller assigns to an element of dirty.
deref_mut(p) ==
    /\ pc[p] = "guard" /\ made < MaxValues
    /\ \E i \in {j \in DOMAIN dirty : call[p].name = "get_mut" => j = call[p].index + 1} :
          /\ dirty' = [dirty EXCEPT ![i] = made + 1]
          /\ dropped' = dropped \cup {dirty[i]}
    /\ made' = made + 1
    /\ shown' = FALSE
    /\ UNCHANGED <<read, lock, poisoned, call, pc>>

DropGuard(p) ==
    /\ pc[p] = "guard"
    /\ poisoned' \in {poisoned, TRUE}
    /\ lock' = Null
    /\ Goto(p, "idle")
    /\ UNCHANGED <<read, dirty, call, made, dropped, shown>>

\* Drop: the copies are popped and forgotten, dirty drops the elements.
DropVec ==
    /\ \A p \in Callers : pc[p] = "idle"
    /\ dropped' = dropped \cup Range(dirty)
    /\ dirty' = <<>> /\ read' = <<>>
    /\ pc' = [p \in Callers |-> "gone"]
    /\ UNCHANGED <<lock, poisoned, call, made, shown>>

Step(p) ==
    \/ Begin(p) \/ RemoveCheck(p) \/ Lock(p) \/ Unlock(p) \/ insert(p) \/ push(p) \/ pop(p)
    \/ remove(p) \/ clear(p) \/ shrink_to_fit(p) \/ get_mut(p) \/ iter_mut(p) \/ deref_mut(p)
    \/ DropGuard(p)

Next == DropVec \/ \E p \in Callers : Step(p)

Spec == Init /\ [][Next]_vars

-----------------------------------------------------------------------------
\* std/vec/mod.rs:58-149.  While nobody holds the lock read is as long as dirty,
\* also after a call has panicked, and it shows the elements of dirty unless one
\* was inserted before the end or replaced through get_mut or iter_mut.
ReadsAgree ==
    lock = Null =>
        /\ len = Len(dirty)
        /\ shown => iter = dirty /\ Range(iter) \cap dropped = {}
=============================================================================
