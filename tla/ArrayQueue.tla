----------------------------- MODULE ArrayQueue -----------------------------
(***************************************************************************)
(* std/queue/array_queue.rs, the bounded queue: a ring of cap slots, each  *)
(* with a stamp.  A position is a lap and an index in the ring, as one     *)
(* number with laps of one_lap.  A process is one call of push or pop.     *)
(* The value of a push is named by the position the push claims.  Loads    *)
(* and stores are taken to be sequentially consistent;                     *)
(* compare_exchange_weak may fail spuriously.                              *)
(***************************************************************************)
EXTENDS Integers, FiniteSets

CONSTANTS Pushes, Pops,   \* the calls
          Cap             \* the capacity, not zero

VARIABLES
    head, tail,   \* the positions
    buffer,       \* the slots: stamp and value
    q             \* the local state of each call

vars == <<head, tail, buffer, q>>

NoValue == -1

\* The smallest power of two greater than Cap.
one_lap == CHOOSE n \in {2 ^ k : k \in 0 .. Cap} : n > Cap /\ n \div 2 <= Cap

TypeOK ==
    /\ head \in Nat /\ tail \in Nat
    /\ buffer \in [0 .. Cap - 1 -> [stamp : Nat, value : Int]]
    /\ q \in [Pushes \cup Pops ->
                [at : {"idle", "stamp", "cas", "check", "slot", "done", "refused"},
                 pos : Nat, got : Int]]

Idle == [at |-> "idle", pos |-> 0, got |-> NoValue]

\* ArrayQueue::new
Init ==
    /\ head = 0 /\ tail = 0
    /\ buffer = [i \in 0 .. Cap - 1 |-> [stamp |-> i, value |-> NoValue]]
    /\ q = [c \in Pushes \cup Pops |-> Idle]

At(c, l) == q[c].at = l
Index(pos) == pos % one_lap
Stamp(c) == buffer[Index(q[c].pos)].stamp
NextPos(pos) == IF Index(pos) + 1 < Cap THEN pos + 1 ELSE pos - Index(pos) + one_lap
Goto(c, l) == q' = [q EXCEPT ![c].at = l]
Restart(c) == q' = [q EXCEPT ![c] = Idle]

\* Both operations: load the position, then the stamp of its slot, which says that
\* the slot may be used, that the queue may be full or empty, or that another call
\* is still at work there.
Load(c, position) ==
    /\ At(c, "idle")
    /\ q' = [q EXCEPT ![c].at = "stamp", ![c].pos = position]
    /\ UNCHANGED <<head, tail, buffer>>

Inspect(c, usable, refusing) ==
    /\ At(c, "stamp")
    /\ IF usable THEN Goto(c, "cas") ELSE IF refusing THEN Goto(c, "check") ELSE Restart(c)
    /\ UNCHANGED <<head, tail, buffer>>

Refuse(c, confirmed) ==
    /\ At(c, "check")
    /\ IF confirmed THEN Goto(c, "refused") ELSE Restart(c)
    /\ UNCHANGED <<head, tail, buffer>>

CasFails(c, position) ==
    /\ At(c, "cas")
    /\ q' = [q EXCEPT ![c].at = "stamp", ![c].pos = position]
    /\ UNCHANGED <<head, tail, buffer>>

-----------------------------------------------------------------------------
PushTail(p) ==
    /\ At(p, "cas") /\ tail = q[p].pos
    /\ tail' = NextPos(tail)
    /\ Goto(p, "slot")
    /\ UNCHANGED <<head, buffer>>

PushSlot(p) ==
    /\ At(p, "slot")
    /\ buffer' = [buffer EXCEPT ![Index(q[p].pos)] = [stamp |-> q[p].pos + 1, value |-> q[p].pos]]
    /\ Goto(p, "done")
    /\ UNCHANGED <<head, tail>>

push(p) ==
    \/ Load(p, tail)
    \/ Inspect(p, Stamp(p) = q[p].pos, Stamp(p) + one_lap = q[p].pos + 1)
    \/ Refuse(p, head + one_lap = q[p].pos)
    \/ PushTail(p) \/ CasFails(p, tail) \/ PushSlot(p)

PopHead(c) ==
    /\ At(c, "cas") /\ head = q[c].pos
    /\ head' = NextPos(head)
    /\ Goto(c, "slot")
    /\ UNCHANGED <<tail, buffer>>

PopSlot(c) ==
    /\ At(c, "slot")
    /\ buffer' = [buffer EXCEPT ![Index(q[c].pos)].stamp = q[c].pos + one_lap]
    /\ q' = [q EXCEPT ![c].at = "done", ![c].got = buffer[Index(q[c].pos)].value]
    /\ UNCHANGED <<head, tail>>

pop(c) ==
    \/ Load(c, head)
    \/ Inspect(c, Stamp(c) = q[c].pos + 1, Stamp(c) = q[c].pos)
    \/ Refuse(c, tail = q[c].pos)
    \/ PopHead(c) \/ CasFails(c, head) \/ PopSlot(c)

Next == (\E p \in Pushes : push(p)) \/ (\E c \in Pops : pop(c))

Spec == Init /\ [][Next]_vars

-----------------------------------------------------------------------------
is_empty == tail = head
is_full == head + one_lap = tail

len ==
    LET hix == Index(head)
        tix == Index(tail)
    IN IF hix < tix THEN tix - hix
       ELSE IF hix > tix THEN Cap - hix + tix
       ELSE IF is_empty THEN 0 ELSE Cap

Claimed(s) == Cardinality({c \in s : q[c].at \in {"slot", "done"}})

\* The slots that the drop of the queue drops.
Drop ==
    LET hix == Index(head) IN
    {IF hix + i < Cap THEN hix + i ELSE hix + i - Cap : i \in 0 .. len - 1}

\* The positions IntoIter visits: from head on, until it meets tail.
IntoIter ==
    LET pos[n \in 0 .. Cap] == IF n = 0 THEN head ELSE NextPos(pos[n - 1])
        end == CHOOSE n \in 0 .. Cap : pos[n] = tail
    IN  {pos[n] : n \in 0 .. end - 1}

\* array_queue.rs:154-295, 377-399.  A pop returns the value of the push that claimed
\* the same position, there are never more than Cap values, len says how many, and a
\* call is refused only while the queue is full or empty.
PopTakesPush ==
    /\ \A c \in Pops : At(c, "done") => q[c].got = q[c].pos
    /\ len = Claimed(Pushes) - Claimed(Pops)
    /\ len \in 0 .. Cap
    /\ \A p \in Pushes : At(p, "check") /\ head + one_lap = q[p].pos => is_full
    /\ \A c \in Pops : At(c, "check") /\ tail = q[c].pos => is_empty

\* array_queue.rs:402-426, 439-472.  Between two calls, dropping the queue drops the
\* values that were not popped and iterating over it yields them.
DropsTheRest ==
    (\A c \in Pushes \cup Pops : q[c].at \in {"idle", "done", "refused"}) =>
        LET done(s) == {q[c].pos : c \in {d \in s : At(d, "done")}}
            rest == done(Pushes) \ done(Pops)
        IN  IntoIter = rest /\ Drop = {Index(p) : p \in rest}
=============================================================================
