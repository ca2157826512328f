------------------------------ MODULE SegQueue ------------------------------
(***************************************************************************)
(* std/queue/seg_queue.rs, the queue of the channels, wait lists and timer *)
(* lists: a linked list of blocks, each with BLOCK_CAP slots.  A process   *)
(* is one call of pop, or a thread that calls push Each times.  An index   *)
(* is kept without its lowest bit, HAS_NEXT, which is hn.  A block is      *)
(* named when it is published; until then it is private to its pusher.     *)
(* The value of a push is named by the index the push claims.  Loads and   *)
(* stores are taken to be sequentially consistent; compare_exchange_weak   *)
(* may fail spuriously.                                                    *)
(***************************************************************************)
EXTENDS Integers, Sequences, FiniteSets, Functions

CONSTANTS Pushers, Each,   \* the threads that push, and how often
          Pops,            \* the calls of pop
          LAP              \* indices of one block, 32 in the code

BLOCK_CAP == LAP - 1
Offset(index) == index % LAP

VARIABLES
    head,     \* Position: index, hn, block (0: null)
    tail,     \* Position: index, block
    blocks,   \* the blocks published so far: next, slots, freed
    q         \* the local state of each call

vars == <<head, tail, blocks, q>>

NoValue == -1
Slot == [value : Int, write : BOOLEAN, read : BOOLEAN, destroy : BOOLEAN]

\* Block::new
NewBlock ==
    [next |-> 0, freed |-> FALSE,
     slots |-> [i \in 0 .. BLOCK_CAP - 1 |->
                  [value |-> NoValue, write |-> FALSE, read |-> FALSE, destroy |-> FALSE]]]

PushLabels == {"idle", "block", "first", "head_store", "cas", "install_block",
               "install_index", "install_next", "write", "done"}
PopLabels == {"idle", "block", "tail", "cas", "wait_next", "head_block", "head_index",
              "read", "mark", "destroy", "some", "none"}

TypeOK ==
    /\ head \in [index : Nat, hn : BOOLEAN, block : 0 .. Len(blocks)]
    /\ tail \in [index : Nat, block : 0 .. Len(blocks)]
    /\ \A b \in 1 .. Len(blocks) :
          /\ blocks[b].next \in 0 .. Len(blocks)
          /\ blocks[b].freed \in BOOLEAN
          /\ blocks[b].slots \in [0 .. BLOCK_CAP - 1 -> Slot]
    /\ \A c \in Pushers : q[c].at \in PushLabels
    /\ \A c \in Pops : q[c].at \in PopLabels

\* i: the iteration of destroy in a pop, the calls made so far in a pusher.
Idle == [at |-> "idle", index |-> 0, hn |-> FALSE, new_hn |-> FALSE, block |-> 0,
         next |-> 0, i |-> 0, got |-> NoValue]

Init ==
    /\ head = [index |-> 0, hn |-> FALSE, block |-> 0]
    /\ tail = [index |-> 0, block |-> 0]
    /\ blocks = <<>>
    /\ q = [c \in Pushers \cup Pops |-> Idle]

At(c, l) == q[c].at = l
Goto(c, l) == q' = [q EXCEPT ![c].at = l]
Restart(c) == q' = [q EXCEPT ![c] = [Idle EXCEPT !.i = q[c].i]]
Reload(c, index, hn) ==
    q' = [q EXCEPT ![c] = [Idle EXCEPT !.at = "block", !.index = index, !.hn = hn, !.i = q[c].i]]
MyOffset(c) == Offset(q[c].index)
IsLast(c) == MyOffset(c) + 1 = BLOCK_CAP
SlotOf(c) == blocks[q[c].block].slots[MyOffset(c)]

-----------------------------------------------------------------------------
(* push                                                                    *)

LoadTail(p) ==
    /\ At(p, "idle")
    /\ Reload(p, tail.index, FALSE)
    /\ UNCHANGED <<head, tail, blocks>>

\* At the end of a block the push waits for the next one, from the start.
LoadTailBlock(p) ==
    /\ At(p, "block")
    /\ IF MyOffset(p) = BLOCK_CAP
       THEN Restart(p)
       ELSE q' = [q EXCEPT ![p].block = tail.block,
                           ![p].at = IF tail.block = 0 THEN "first" ELSE "cas"]
    /\ UNCHANGED <<head, tail, blocks>>

First(p) ==
    /\ At(p, "first")
    /\ IF tail.block = 0
       THEN /\ blocks' = Append(blocks, NewBlock)
            /\ tail' = [tail EXCEPT !.block = Len(blocks) + 1]
            /\ q' = [q EXCEPT ![p].at = "head_store", ![p].block = Len(blocks) + 1]
       ELSE Restart(p) /\ UNCHANGED <<tail, blocks>>
    /\ UNCHANGED head

HeadStore(p) ==
    /\ At(p, "head_store")
    /\ head' = [head EXCEPT !.block = q[p].block]
    /\ Goto(p, "cas")
    /\ UNCHANGED <<tail, blocks>>

CasTail(p) ==
    /\ At(p, "cas")
    /\ \/ /\ tail.index = q[p].index
          /\ tail' = [tail EXCEPT !.index = @ + 1]
          /\ Goto(p, IF IsLast(p) THEN "install_block" ELSE "write")
       \/ /\ Reload(p, tail.index, FALSE)
          /\ UNCHANGED tail
    /\ UNCHANGED <<head, blocks>>

InstallBlock(p) ==
    /\ At(p, "install_block")
    /\ blocks' = Append(blocks, NewBlock)
    /\ tail' = [tail EXCEPT !.block = Len(blocks) + 1]
    /\ q' = [q EXCEPT ![p].at = "install_index", ![p].next = Len(blocks) + 1]
    /\ UNCHANGED head

InstallIndex(p) ==
    /\ At(p, "install_index")
    /\ tail' = [tail EXCEPT !.index = q[p].index + 2]
    /\ Goto(p, "install_next")
    /\ UNCHANGED <<head, blocks>>

InstallNext(p) ==
    /\ At(p, "install_next")
    /\ blocks' = [blocks EXCEPT ![q[p].block].next = q[p].next]
    /\ Goto(p, "write")
    /\ UNCHANGED <<head, tail>>

Write(p) ==
    /\ At(p, "write")
    /\ blocks' = [blocks EXCEPT ![q[p].block].slots[MyOffset(p)].value = q[p].index,
                                ![q[p].block].slots[MyOffset(p)].write = TRUE]
    /\ q' = [q EXCEPT ![p] = [Idle EXCEPT !.at = IF q[p].i + 1 = Each THEN "done" ELSE "idle",
                                          !.i = q[p].i + 1]]
    /\ UNCHANGED <<head, tail>>

Push(p) ==
    \/ LoadTail(p) \/ LoadTailBlock(p) \/ First(p) \/ HeadStore(p) \/ CasTail(p)
    \/ InstallBlock(p) \/ InstallIndex(p) \/ InstallNext(p) \/ Write(p)

-----------------------------------------------------------------------------
(* pop                                                                     *)

LoadHead(c) ==
    /\ At(c, "idle")
    /\ Reload(c, head.index, head.hn)
    /\ UNCHANGED <<head, tail, blocks>>

\* A null block means that the first push is in progress: wait for it.
LoadHeadBlock(c) ==
    /\ At(c, "block")
    /\ IF MyOffset(c) = BLOCK_CAP \/ (q[c].hn /\ head.block = 0)
       THEN Restart(c)
       ELSE q' = [q EXCEPT ![c].block = head.block,
                           ![c].new_hn = q[c].hn,
                           ![c].at = IF q[c].hn THEN "cas" ELSE "tail"]
    /\ UNCHANGED <<head, tail, blocks>>

CheckTail(c) ==
    /\ At(c, "tail")
    /\ IF q[c].index = tail.index
       THEN q' = [q EXCEPT ![c] = [Idle EXCEPT !.at = "none"]]
       ELSE IF q[c].block = 0
       THEN Restart(c)
       ELSE q' = [q EXCEPT ![c].new_hn = q[c].index \div LAP # tail.index \div LAP,
                           ![c].at = "cas"]
    /\ UNCHANGED <<head, tail, blocks>>

CasHead(c) ==
    /\ At(c, "cas")
    /\ \/ /\ head.index = q[c].index /\ head.hn = q[c].hn
          /\ head' = [head EXCEPT !.index = @ + 1, !.hn = q[c].new_hn]
          /\ Goto(c, IF IsLast(c) THEN "wait_next" ELSE "read")
       \/ /\ Reload(c, head.index, head.hn)
          /\ UNCHANGED head
    /\ UNCHANGED <<tail, blocks>>

WaitNext(c) ==
    /\ At(c, "wait_next")
    /\ LET next == blocks[q[c].block].next
       IN /\ next # 0
          /\ q' = [q EXCEPT ![c].at = "head_block", ![c].next = next,
                            ![c].new_hn = blocks[next].next # 0]
    /\ UNCHANGED <<head, tail, blocks>>

HeadBlock(c) ==
    /\ At(c, "head_block")
    /\ head' = [head EXCEPT !.block = q[c].next]
    /\ Goto(c, "head_index")
    /\ UNCHANGED <<tail, blocks>>

HeadIndex(c) ==
    /\ At(c, "head_index")
    /\ head' = [head EXCEPT !.index = q[c].index + 2, !.hn = q[c].new_hn]
    /\ Goto(c, "read")
    /\ UNCHANGED <<tail, blocks>>

\* Mutant: the value is read without wait_write.
ReadAtOnce(c) ==
    /\ At(c, "read")
    /\ q' = [q EXCEPT ![c].got = SlotOf(c).value,
                      ![c].at = IF IsLast(c) THEN "destroy" ELSE "mark",
                      ![c].i = 0]
    /\ UNCHANGED <<head, tail, blocks>>

Read(c) ==
    /\ At(c, "read")
    /\ SlotOf(c).write
    /\ q' = [q EXCEPT ![c].got = SlotOf(c).value,
                      ![c].at = IF IsLast(c) THEN "destroy" ELSE "mark",
                      ![c].i = 0]
    /\ UNCHANGED <<head, tail, blocks>>

MarkRead(c) ==
    /\ At(c, "mark")
    /\ blocks' = [blocks EXCEPT ![q[c].block].slots[MyOffset(c)].read = TRUE]
    /\ q' = [q EXCEPT ![c].at = IF SlotOf(c).destroy THEN "destroy" ELSE "some",
                      ![c].i = MyOffset(c) + 1]
    /\ UNCHANGED <<head, tail>>

\* Mutant: the block is freed without regard to its readers.
DestroyAtOnce(c) ==
    /\ At(c, "destroy")
    /\ blocks' = [blocks EXCEPT ![q[c].block].freed = TRUE]
    /\ Goto(c, "some")
    /\ UNCHANGED <<head, tail>>

\* One iteration of destroy: a slot that is still being read gets DESTROY, and its
\* reader continues; after the last slot but one the block is freed.
Destroy(c) ==
    /\ At(c, "destroy")
    /\ LET b == q[c].block
           i == q[c].i
       IN IF i = BLOCK_CAP - 1
          THEN /\ blocks' = [blocks EXCEPT ![b].freed = TRUE]
               /\ Goto(c, "some")
          ELSE IF blocks[b].slots[i].read
          THEN q' = [q EXCEPT ![c].i = i + 1] /\ UNCHANGED blocks
          ELSE /\ blocks' = [blocks EXCEPT ![b].slots[i].destroy = TRUE]
               /\ Goto(c, "some")
    /\ UNCHANGED <<head, tail>>

Pop(c) ==
    \/ LoadHead(c) \/ LoadHeadBlock(c) \/ CheckTail(c) \/ CasHead(c) \/ WaitNext(c)
    \/ HeadBlock(c) \/ HeadIndex(c) \/ Read(c) \/ MarkRead(c) \/ Destroy(c)

Next == (\E p \in Pushers : Push(p)) \/ (\E c \in Pops : Pop(c))

Spec == Init /\ [][Next]_vars

-----------------------------------------------------------------------------
\* An index at the end of a block stands for the start of the next one.
Skip(index) == IF Offset(index) = LAP - 1 THEN index + 1 ELSE index

len ==
    LET lap == Skip(head.index) \div LAP
        t == Skip(tail.index) - lap * LAP
        h == Skip(head.index) - lap * LAP
    IN t - h - t \div LAP

is_empty == head.index = tail.index

Written ==
    {w \in (1 .. Len(blocks)) \X (0 .. BLOCK_CAP - 1) : blocks[w[1]].slots[w[2]].write}
Popped == {c \in Pops : At(c, "some")}
Uses(c) == q[c].at \in {"install_next", "write", "wait_next", "read", "mark", "destroy"}

\* seg_queue.rs:96-114, 253-264, 346-370.  Nobody touches a block that has been
\* freed: a block is freed once, by the last of its readers.
BlocksAlive == \A c \in Pushers \cup Pops : Uses(c) => ~blocks[q[c].block].freed

Quiet ==
    /\ \A c \in Pushers : q[c].at \in {"idle", "done"}
    /\ \A c \in Pops : q[c].at \in {"idle", "some", "none"}

\* Mutant: the offset after the last slot of a block is not skipped.
IntoIterNextNoSkip(pos) ==
    IF Offset(pos.index) + 1 = BLOCK_CAP
    THEN [index |-> pos.index + 1, block |-> blocks[pos.block].next]
    ELSE [pos EXCEPT !.index = @ + 1]

\* The slots that the drop of the queue drops and the blocks that it frees: it walks
\* from head to tail, and on to the next block at the end of each.
Drop ==
    LET block[i \in head.index .. tail.index] ==
            IF i = head.index THEN head.block
            ELSE IF Offset(i - 1) < BLOCK_CAP THEN block[i - 1] ELSE blocks[block[i - 1]].next
        walk == head.index .. tail.index - 1
    IN  [slots |-> {<<block[i], Offset(i)>> : i \in {j \in walk : Offset(j) < BLOCK_CAP}},
         freed |-> {block[i] : i \in {j \in walk : Offset(j) = BLOCK_CAP} \cup {tail.index}} \ {0}]

\* IntoIter::next, which frees a block with its last value, and its n-th call.
IntoIterNext(pos) ==
    IF Offset(pos.index) + 1 = BLOCK_CAP
    THEN [index |-> pos.index + 2, block |-> blocks[pos.block].next]
    ELSE [pos EXCEPT !.index = @ + 1]

IntoIter ==
    LET pos[n \in Nat] == IF n = 0 THEN [index |-> head.index, block |-> head.block]
                          ELSE IntoIterNext(pos[n - 1])
        end == CHOOSE n \in 0 .. Len(blocks) * LAP : pos[n].index >= tail.index
    IN  [values |-> [n \in 1 .. end |-> <<pos[n - 1].block, Offset(pos[n - 1].index)>>],
         ends |-> pos[end].index = tail.index]

\* seg_queue.rs:200-380.  A pop returns the value of the push that claimed the same
\* index, and after the calls len and is_empty agree with what is in the queue.
PopTakesPush ==
    /\ \A c \in Pops : q[c].got \in {NoValue, q[c].index}
    /\ \A c \in Pops : At(c, "some") => q[c].got # NoValue
    /\ Quiet => /\ len = Cardinality(Written) - Cardinality(Popped)
                /\ is_empty = (len = 0)

\* seg_queue.rs:453-489, 518-560.  Between two calls, dropping the queue drops every
\* value that was not popped and frees every block that is left, and iterating over
\* it yields those values and no others.
DropsTheRest ==
    Quiet =>
        LET rest == {w \in Written : ~blocks[w[1]].freed} \
                        {<<q[c].block, MyOffset(c)>> : c \in Popped}
        IN  /\ Drop.slots = rest
            /\ Drop.freed = {b \in 1 .. Len(blocks) : ~blocks[b].freed}
            /\ LET it == IntoIter IN
               it.ends /\ Range(it.values) = rest /\ IsInjective(it.values)
=============================================================================
