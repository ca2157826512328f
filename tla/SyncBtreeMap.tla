---------------------------- MODULE SyncBtreeMap ----------------------------
(***************************************************************************)
(* std/sync/sync_btree_map.rs.  read is a BTreeMap, dirty a HashMap; the   *)
(* code repeats the one of SyncHashMap except where it is given here.      *)
(***************************************************************************)
EXTENDS SyncHashMap

VARIABLE wild    \* clear has used an iterator over nodes that had moved

btreeVars == <<vars, wild>>

BtreeInit == Init /\ wild = FALSE

\* What SyncBtreeMap has in common with SyncHashMap.
btree_insert(p) == insert(p)
btree_remove(p) == remove(p)
btree_get_mut(p) == get_mut(p)
btree_iter_mut(p) == iter_mut(p)

\* shrink_to_fit is empty: it does not even lock.
btree_begin(p) == Begin(p) /\ call'[p].name # "shrink_to_fit"

\* clear removes keys while it iterates over them: removing a key of a BTreeMap
\* moves the ones behind it, so that with two keys or more any part of them may
\* stay behind.
btree_clear(p) ==
    \/ ClearDirty(p) /\ UNCHANGED wild
    \/ /\ Read(p, "clear")
       /\ IF len <= 1
          THEN read' = Empty /\ UNCHANGED wild
          ELSE /\ \E left \in SUBSET Keys :
                     read' = [k \in Keys |-> IF k \in left THEN read[k] ELSE Null]
               /\ wild' = TRUE
       /\ Goto(p, "unlock")
       /\ UNCHANGED <<dirty, lock, poisoned, call, made, dropped, twice, changed>>

\* Drop collects the keys first and removes the last one first.
btree_drop == Drop

BtreeStep(p) ==
    \/ btree_begin(p) \/ Lock(p) \/ Unlock(p) \/ btree_insert(p) \/ btree_remove(p)
    \/ btree_get_mut(p) \/ btree_iter_mut(p) \/ deref_mut(p) \/ DropGuard(p)

BtreeNext ==
    \/ (btree_drop \/ \E p \in Callers : BtreeStep(p)) /\ UNCHANGED wild
    \/ \E p \in Callers : btree_clear(p)

BtreeSpec == BtreeInit /\ [][BtreeNext]_btreeVars

-----------------------------------------------------------------------------
\* sync_btree_map.rs:82-161.  As for SyncHashMap, as long as clear was only called
\* with one key at most.
BtreeReadsAgree == ~wild => ReadsAgree
=============================================================================
