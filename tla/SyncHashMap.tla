---------------------------- MODULE SyncHashMap ----------------------------
(***************************************************************************)
(* std/sync/sync_hash_map.rs.  The map keeps its entries twice: dirty,     *)
(* behind a Mutex, owns the values; read has bitwise copies of them and is *)
(* read without any lock.  A value is a number, so that its drops can be   *)
(* counted: values enter in the order of their numbers, and a value the    *)
(* map returns is dropped by its caller.  Reading changes nothing, so that *)
(* get, len and iter are operators and no actions.                         *)
(***************************************************************************)
EXTENDS Integers, FiniteSets

CONSTANTS Callers, Keys, MaxValues, Null

VARIABLES
    read,      \* key -> copy of a value, or Null
    dirty,     \* key -> value, or Null
    lock,      \* the caller that holds the Mutex of dirty, or Null
    poisoned,  \* the Mutex is poisoned
    call,      \* the call of each caller: its name and key
    pc,        \* where each caller is
    made,      \* values that exist so far
    dropped,   \* values that have been dropped
    twice,     \* some value has been dropped twice
    changed    \* keys whose value in dirty was replaced since they were inserted

vars == <<read, dirty, lock, poisoned, call, pc, made, dropped, twice, changed>>

Values == 1 .. MaxValues
Names == {"insert", "remove", "clear", "shrink_to_fit", "get_mut", "iter_mut"}

get(k) == read[k]
iter == {<<k, read[k]>> : k \in {j \in Keys : read[j] # Null}}
len == Cardinality(iter)

TypeOK ==
    /\ read \in [Keys -> Values \cup {Null}]
    /\ dirty \in [Keys -> Values \cup {Null}]
    /\ lock \in Callers \cup {Null}
    /\ poisoned \in BOOLEAN /\ twice \in BOOLEAN
    /\ call \in [Callers -> [name : Names, key : Keys]]
    /\ pc \in [Callers -> {"idle", "lock", "dirty", "read", "unlock", "guard", "gone"}]
    /\ made \in 0 .. MaxValues
    /\ dropped \subseteq Values
    /\ changed \subseteq Keys

Goto(p, l) == pc' = [pc EXCEPT ![p] = l]

\* The values of vs are dropped.
DropValues(vs) ==
    /\ dropped' = dropped \cup (vs \ {Null})
    /\ twice' = (twice \/ vs \cap dropped # {})

Empty == [k \in Keys |-> Null]

\* from: the map of the caller becomes dirty and every value is copied to read.
from(m) == dirty = m /\ read = m

Init ==
    /\ \E first \in SUBSET Keys : \E f \in [first -> Values] :
          /\ \A k, j \in first : k # j => f[k] # f[j]
          /\ made = Cardinality(first) /\ \A k \in first : f[k] <= made
          /\ from([k \in Keys |-> IF k \in first THEN f[k] ELSE Null])
    /\ lock = Null
    /\ poisoned = FALSE /\ twice = FALSE
    /\ call = [p \in Callers |-> [name |-> "clear", key |-> CHOOSE k \in Keys : TRUE]]
    /\ pc = [p \in Callers |-> "idle"]
    /\ dropped = {}
    /\ changed = {}

Begin(p) ==
    /\ pc[p] = "idle"
    /\ \E n \in Names, k \in Keys :
          /\ n = "insert" => made < MaxValues
          /\ call' = [call EXCEPT ![p] = [name |-> n, key |-> k]]
    /\ Goto(p, "lock")
    /\ UNCHANGED <<read, dirty, lock, poisoned, made, dropped, twice, changed>>

\* dirty.lock().  On a poisoned lock the calls return at once, insert with the
\* value it was given; iter_mut tries again for ever.
Lock(p) ==
    /\ pc[p] = "lock" /\ lock = Null
    /\ call[p].name = "insert" => made < MaxValues
    /\ IF poisoned
       THEN /\ Goto(p, IF call[p].name = "iter_mut" THEN "lock" ELSE "idle")
            /\ UNCHANGED lock
       ELSE lock' = p /\ Goto(p, "dirty")
    /\ UNCHANGED <<read, dirty, poisoned, call, made, dropped, twice, changed>>

Unlock(p) ==
    /\ pc[p] = "unlock"
    /\ lock' = Null
    /\ Goto(p, "idle")
    /\ UNCHANGED <<read, dirty, poisoned, call, made, dropped, twice, changed>>

\* The dirty half and the read half of a call.
Dirty(p, n) == pc[p] = "dirty" /\ call[p].name = n
Read(p, n) == pc[p] = "read" /\ call[p].name = n

\* Mutant: the copy is left in read when the key goes.
removeDirtyOnly(p) ==
    /\ Dirty(p, "remove")
    /\ dirty' = [dirty EXCEPT ![call[p].key] = Null]
    /\ DropValues({dirty[call[p].key]})
    /\ changed' = changed \ {call[p].key}
    /\ Goto(p, "unlock")
    /\ UNCHANGED <<read, lock, poisoned, call, made>>

remove(p) ==
    LET k == call[p].key
    IN  \/ /\ Dirty(p, "remove")
           /\ dirty' = [dirty EXCEPT ![k] = Null]
           /\ DropValues({dirty[k]})
           /\ changed' = changed \ {k}
           /\ Goto(p, IF dirty[k] = Null THEN "unlock" ELSE "read")
           /\ UNCHANGED <<read, lock, poisoned, call, made>>
        \/ /\ Read(p, "remove")
           /\ read' = [read EXCEPT ![k] = Null]
           /\ Goto(p, "unlock")
           /\ UNCHANGED <<dirty, lock, poisoned, call, made, dropped, twice, changed>>

\* Only a new key is copied to read; the old value of another goes to the caller.
insert(p) ==
    LET k == call[p].key
    IN  \/ /\ Dirty(p, "insert")
           /\ made' = made + 1
           /\ dirty' = [dirty EXCEPT ![k] = made + 1]
           /\ DropValues({dirty[k]})
           /\ changed' = IF dirty[k] = Null THEN changed ELSE changed \cup {k}
           /\ Goto(p, IF dirty[k] = Null THEN "read" ELSE "unlock")
           /\ UNCHANGED <<read, lock, poisoned, call>>
        \/ /\ Read(p, "insert")
           /\ read' = [read EXCEPT ![k] = dirty[k]]
           /\ Goto(p, "unlock")
           /\ UNCHANGED <<dirty, lock, poisoned, call, made, dropped, twice, changed>>

ClearDirty(p) ==
    /\ Dirty(p, "clear")
    /\ dirty' = Empty
    /\ DropValues({dirty[k] : k \in Keys})
    /\ changed' = {}
    /\ Goto(p, "read")
    /\ UNCHANGED <<read, lock, poisoned, call, made>>

\* Every copy is removed and forgotten.
ClearRead(p) ==
    /\ Read(p, "clear")
    /\ read' = Empty
    /\ Goto(p, "unlock")
    /\ UNCHANGED <<dirty, lock, poisoned, call, made, dropped, twice, changed>>

clear(p) == ClearDirty(p) \/ ClearRead(p)

shrink_to_fit(p) ==
    /\ Dirty(p, "shrink_to_fit")
    /\ Goto(p, "unlock")
    /\ UNCHANGED <<read, dirty, lock, poisoned, call, made, dropped, twice, changed>>

\* A reference to the value in dirty, with the guard.
get_mut(p) ==
    /\ Dirty(p, "get_mut")
    /\ Goto(p, IF dirty[call[p].key] = Null THEN "unlock" ELSE "guard")
    /\ UNCHANGED <<read, dirty, lock, poisoned, call, made, dropped, twice, changed>>

iter_mut(p) ==
    /\ Dirty(p, "iter_mut")
    /\ Goto(p, "guard")
    /\ UNCHANGED <<read, dirty, lock, poisoned, call, made, dropped, twice, changed>>

\* deref_mut: the caller assigns through the reference.
deref_mut(p) ==
    /\ pc[p] = "guard" /\ made < MaxValues
    /\ \E k \in {j \in Keys : dirty[j] # Null /\ (call[p].name = "get_mut" => j = call[p].key)} :
          /\ dirty' = [dirty EXCEPT ![k] = made + 1]
          /\ DropValues({dirty[k]})
          /\ changed' = changed \cup {k}
    /\ made' = made + 1
    /\ UNCHANGED <<read, lock, poisoned, call, pc>>

\* The guard is dropped, perhaps by a panic of its holder.
DropGuard(p) ==
    /\ pc[p] = "guard"
    /\ poisoned' \in {poisoned, TRUE}
    /\ lock' = Null
    /\ Goto(p, "idle")
    /\ UNCHANGED <<read, dirty, call, made, dropped, twice, changed>>

\* Mutant: the copies are dropped as well.
DropCopies ==
    /\ \A p \in Callers : pc[p] = "idle"
    /\ dropped' = Values
    /\ twice' = (\E k \in Keys : read[k] # Null)
    /\ dirty' = Empty /\ read' = Empty
    /\ pc' = [p \in Callers |-> "gone"]
    /\ UNCHANGED <<lock, poisoned, call, made, changed>>

\* Drop: the copies are removed from read and forgotten, dirty drops the values.
Drop ==
    /\ \A p \in Callers : pc[p] = "idle"
    /\ DropValues({dirty[k] : k \in Keys})
    /\ dirty' = Empty /\ read' = Empty
    /\ pc' = [p \in Callers |-> "gone"]
    /\ UNCHANGED <<lock, poisoned, call, made, changed>>

Step(p) ==
    \/ Begin(p) \/ Lock(p) \/ Unlock(p) \/ insert(p) \/ remove(p) \/ shrink_to_fit(p)
    \/ get_mut(p) \/ iter_mut(p) \/ deref_mut(p) \/ DropGuard(p)

Next == Drop \/ \E p \in Callers : Step(p) \/ clear(p)

Spec == Init /\ [][Next]_vars

-----------------------------------------------------------------------------
\* sync_hash_map.rs:84-160.  While nobody holds the lock read shows the entries of
\* dirty, with values that still exist; the exception are keys whose value was
\* replaced in place (insert of an existing key, get_mut, iter_mut): read keeps
\* the copy of the old value, which its owner has dropped.
ReadsAgree ==
    lock = Null =>
        /\ len = Cardinality({k \in Keys : dirty[k] # Null})
        /\ \A k \in Keys \ changed : get(k) = dirty[k] /\ get(k) \notin dropped

\* sync_hash_map.rs:38-54, 106-131, 141-160.  Although a value is in the map twice
\* it is dropped once.
DroppedOnce == ~twice
=============================================================================
