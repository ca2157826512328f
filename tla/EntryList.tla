----------------------------- MODULE EntryList ------------------------------
(***************************************************************************)
(* std/queue/mpsc_list_v1.rs: the list of timers, with nodes that the list *)
(* and the Entry returned by push own together.  Many threads push, one    *)
(* consumer pops and removes; an Entry is dropped by the thread that has   *)
(* it or handed to the consumer.  refs is a plain integer: a decrement is  *)
(* a read, a write and a test for zero, which may read it again, and those *)
(* of the consumer and of an Entry may overlap.                            *)
(***************************************************************************)
EXTENDS Integers, Sequences, Functions

CONSTANTS Pushes,   \* the pushes; each makes the node of its name
          Stub,     \* the first node
          Null

Nodes == Pushes \cup {Stub}

VARIABLES
    node,     \* prev, next, whether there is a value, and refs: the count, the link bit
    freed,
    head, tail,
    pc,       \* where each push, and the Entry it returned, is
    my,       \* the former head, or the refs, that it has read or written
    cpc,      \* where the consumer is, and
    old, ref, \* the tail it moves off and the refs it has read or written
    order,    \* history: the nodes as they were pushed,
    popped,   \* and popped
    removed,
    raced,    \* the consumer and the drop of an Entry have changed refs at one time
    early     \* the queue was dropped while there was an entry of its tail

entryVars == <<pc, my>>
conVars == <<cpc, old, ref>>
vars == <<node, freed, head, tail, entryVars, conVars, order, popped, removed, raced, early>>

Refs(n, b) == [cnt |-> n, link |-> b]
NewNode == [prev |-> Null, next |-> Null, value |-> TRUE, refs |-> Refs(2, TRUE)]

TypeOK ==
    /\ node \in [Nodes -> [prev : Nodes \cup {Null}, next : Nodes \cup {Null}, value : BOOLEAN,
                           refs : [cnt : 0 .. 2, link : BOOLEAN]]]
    /\ freed \subseteq Nodes /\ removed \subseteq Pushes
    /\ {head, tail} \subseteq Nodes

\* Queue::new
Init ==
    /\ node = [n \in Nodes |-> IF n = Stub THEN [NewNode EXCEPT !.value = FALSE, !.refs = Refs(1, FALSE)]
                               ELSE NewNode]
    /\ freed = {} /\ removed = {}
    /\ head = Stub /\ tail = Stub
    /\ pc = [p \in Pushes |-> "new"] /\ my = [p \in Pushes |-> Null]
    /\ cpc = "idle" /\ old = Null /\ ref = Null
    /\ order = <<>> /\ popped = <<>>
    /\ raced = FALSE /\ early = FALSE

\* The test of the refs of node n, by one who has written r: it frees the node when
\* it finds 0 in what it wrote, or in what it reads again.
Test(n, r) ==
    \E now \in {r, node[n].refs} :
        freed' = IF now = Refs(0, FALSE) THEN freed \cup {n} ELSE freed

\* The drop of the Entry of node n, or the consumer, is about to change its refs.
EntryChanges(n) == n \in Pushes /\ pc[n] \in {"drop", "drop_test"}
ConsumerChanges(n) ==
    \/ cpc = "clear_write" /\ n = tail
    \/ cpc \in {"dec_write", "dec_test"} /\ n = old

Less(r) == [r EXCEPT !.cnt = @ - 1]

-----------------------------------------------------------------------------
(* Queue::push, and the Entry.                                             *)

Swap(p) ==
    /\ pc[p] = "new" /\ cpc # "dropped"
    /\ head' = p
    /\ my' = [my EXCEPT ![p] = head]
    /\ order' = Append(order, p)
    /\ pc' = [pc EXCEPT ![p] = "link"]
    /\ UNCHANGED <<node, freed, tail, conVars, popped, removed, raced, early>>

Link(p) ==
    /\ pc[p] = "link"
    /\ node' = [node EXCEPT ![p].prev = my[p], ![my[p]].next = p]
    /\ my' = [my EXCEPT ![p] = Null]
    /\ pc' = [pc EXCEPT ![p] = "held"]
    /\ UNCHANGED <<freed, head, tail, conVars, order, popped, removed, raced, early>>

DropRead(p) ==
    /\ pc[p] = "held"
    /\ my' = [my EXCEPT ![p] = node[p].refs]
    /\ raced' = (raced \/ ConsumerChanges(p))
    /\ pc' = [pc EXCEPT ![p] = "drop"]
    /\ UNCHANGED <<node, freed, head, tail, conVars, order, popped, removed, early>>

DropWrite(p) ==
    /\ pc[p] = "drop"
    /\ node' = [node EXCEPT ![p].refs = Less(my[p])]
    /\ my' = [my EXCEPT ![p] = Less(@)]
    /\ pc' = [pc EXCEPT ![p] = "drop_test"]
    /\ UNCHANGED <<freed, head, tail, conVars, order, popped, removed, raced, early>>

DropTest(p) ==
    /\ pc[p] = "drop_test"
    /\ Test(p, my[p])
    /\ my' = [my EXCEPT ![p] = Null]
    /\ pc' = [pc EXCEPT ![p] = "gone"]
    /\ UNCHANGED <<node, head, tail, conVars, order, popped, removed, raced, early>>

\* The entry goes to the consumer, which removes it.
Give(p) ==
    /\ pc[p] = "held"
    /\ pc' = [pc EXCEPT ![p] = "given"]
    /\ UNCHANGED <<node, freed, head, tail, my, conVars, order, popped, removed, raced, early>>

\* Mutant: the last node is unlinked too.
RemoveLast(p) ==
    LET n == node[p]
        linked == n.refs.link /\ n.prev # Null
    IN  /\ pc[p] = "given" /\ cpc \in {"idle", "dropped"}
        /\ pc' = [pc EXCEPT ![p] = "gone"]
        /\ IF linked
           THEN /\ node' = [m \in Nodes |->
                      IF m = n.next THEN [node[m] EXCEPT !.prev = n.prev]
                      ELSE IF m = n.prev THEN [node[m] EXCEPT !.next = n.next]
                      ELSE IF m = p THEN [node[m] EXCEPT !.value = FALSE, !.refs = Refs(0, FALSE)]
                      ELSE node[m]]
                /\ freed' = freed \cup {p}
                /\ removed' = removed \cup {p}
           ELSE /\ node' = [node EXCEPT ![p].refs = Less(@)]
                /\ freed' = IF Less(n.refs) = Refs(0, FALSE) THEN freed \cup {p} ELSE freed
                /\ UNCHANGED removed
        /\ UNCHANGED <<head, tail, my, conVars, order, popped, raced, early>>

\* Entry::remove and the drop of the entry.  A node that was popped, is the tail or
\* has no successor yet is left to pop.
Remove(p) ==
    LET n == node[p]
        linked == n.refs.link /\ n.prev # Null /\ n.next # Null
    IN  /\ pc[p] = "given" /\ cpc \in {"idle", "dropped"}
        /\ pc' = [pc EXCEPT ![p] = "gone"]
        /\ IF linked
           THEN /\ node' = [node EXCEPT ![n.next].prev = n.prev, ![n.prev].next = n.next,
                                        ![p].value = FALSE, ![p].refs = Refs(0, FALSE)]
                /\ freed' = freed \cup {p}
                /\ removed' = removed \cup {p}
           ELSE /\ node' = [node EXCEPT ![p].refs = Less(@)]
                /\ freed' = IF Less(n.refs) = Refs(0, FALSE) THEN freed \cup {p} ELSE freed
                /\ UNCHANGED removed
        /\ UNCHANGED <<head, tail, my, conVars, order, popped, raced, early>>

-----------------------------------------------------------------------------
(* The consumer.  pop clears the link bit of the tail, then waits until    *)
(* the node behind it is linked; pop_if waits for that node and its value, *)
(* which it may refuse, first.                                             *)

is_empty == head = tail

Pop ==
    /\ cpc = "idle"
    /\ ~is_empty
    /\ cpc' = "clear_read"
    /\ UNCHANGED <<node, freed, head, tail, entryVars, old, ref, order, popped, removed, raced, early>>

PopIf ==
    /\ cpc = "idle"
    /\ ~is_empty /\ node[tail].next # Null /\ node[node[tail].next].value
    /\ cpc' \in {"clear_read", "idle"}
    /\ UNCHANGED <<node, freed, head, tail, entryVars, old, ref, order, popped, removed, raced, early>>

ClearRead ==
    /\ cpc = "clear_read"
    /\ ref' = node[tail].refs
    /\ raced' = (raced \/ EntryChanges(tail))
    /\ cpc' = "clear_write"
    /\ UNCHANGED <<node, freed, head, tail, entryVars, old, order, popped, removed, early>>

ClearWrite ==
    /\ cpc = "clear_write"
    /\ node' = [node EXCEPT ![tail].refs = [ref EXCEPT !.link = FALSE]]
    /\ ref' = Null
    /\ cpc' = "move"
    /\ UNCHANGED <<freed, head, tail, entryVars, old, order, popped, removed, raced, early>>

\* The next node becomes the tail and its value is taken.
MoveTail ==
    LET next == node[tail].next IN
    /\ cpc = "move"
    /\ next # Null
    /\ node' = [node EXCEPT ![next].prev = Null, ![next].value = FALSE]
    /\ old' = tail
    /\ tail' = next
    /\ popped' = Append(popped, next)
    /\ cpc' = "dec_read"
    /\ UNCHANGED <<freed, head, entryVars, ref, order, removed, raced, early>>

DecRead ==
    /\ cpc = "dec_read"
    /\ ref' = node[old].refs
    /\ raced' = (raced \/ EntryChanges(old))
    /\ cpc' = "dec_write"
    /\ UNCHANGED <<node, freed, head, tail, entryVars, old, order, popped, removed, early>>

\* Mutant: the old tail is given up although its entry is not dropped yet.
DecWriteFrees ==
    /\ cpc = "dec_write"
    /\ node' = [node EXCEPT ![old].refs = Refs(0, FALSE)]
    /\ ref' = Refs(0, FALSE)
    /\ cpc' = "dec_test"
    /\ UNCHANGED <<freed, head, tail, entryVars, old, order, popped, removed, raced, early>>

DecWrite ==
    /\ cpc = "dec_write"
    /\ node' = [node EXCEPT ![old].refs = Less(ref)]
    /\ ref' = Less(ref)
    /\ cpc' = "dec_test"
    /\ UNCHANGED <<freed, head, tail, entryVars, old, order, popped, removed, raced, early>>

DecTest ==
    /\ cpc = "dec_test"
    /\ Test(old, ref)
    /\ old' = Null /\ ref' = Null
    /\ cpc' = "idle"
    /\ UNCHANGED <<node, head, tail, entryVars, order, popped, removed, raced, early>>

\* Queue::drop, when everything is popped: the tail is freed whatever its refs are.
Drop ==
    /\ cpc = "idle" /\ is_empty
    /\ \A p \in Pushes : pc[p] # "new"
    /\ freed' = freed \cup {tail}
    /\ early' = \E p \in Pushes : p = tail /\ pc[p] \in {"held", "given", "drop", "drop_test"}
    /\ cpc' = "dropped"
    /\ UNCHANGED <<node, head, tail, entryVars, old, ref, order, popped, removed, raced>>

Next ==
    \/ \E p \in Pushes :
          Swap(p) \/ Link(p) \/ DropRead(p) \/ DropWrite(p) \/ DropTest(p) \/ Give(p) \/ Remove(p)
    \/ Pop \/ PopIf \/ ClearRead \/ ClearWrite \/ MoveTail \/ DecRead \/ DecWrite \/ DecTest \/ Drop

Spec == Init /\ [][Next]_vars

-----------------------------------------------------------------------------
\* The nodes that somebody may touch next.
Uses ==
    (IF cpc = "dropped" THEN {} ELSE {head, tail})
    \cup {my[p] : p \in {q \in Pushes : pc[q] = "link"}}
    \cup {p \in Pushes : pc[p] \in {"held", "given", "drop", "drop_test"}}
    \cup (IF cpc \in {"dec_read", "dec_write", "dec_test"} THEN {old} ELSE {})
    \cup (IF cpc = "move" THEN {node[tail].next} ELSE {})

\* mpsc_list_v1.rs:71-139, 226-330.  A node is not freed while the list, a push, the
\* consumer or an Entry refers to it, and all are freed in the end, whichever of the
\* pop and the drop of its Entry is the later one, unless the queue went first.  As
\* mpsc_list_v1.rs:127 demands ("you must make sure it happens with no contension")
\* the two do not change the refs of a node at one time: then it may be freed twice,
\* or never.
NodesOwned ==
    ~early /\ ~raced =>
        /\ Uses \cap freed = {}
        /\ cpc = "dropped" /\ (\A p \in Pushes : pc[p] = "gone") => freed = Nodes

\* mpsc_list_v1.rs:171-330.  The values are popped in the order of the pushes, each
\* once, but for the removed ones; what pop takes next has a value, and the tail none.
PopsInOrder ==
    /\ popped = SelectSeq(order,
                          LAMBDA p : p \in Range(popped) /\ p \notin removed)
    /\ \A i, j \in 1 .. Len(order) :
          i < j /\ order[j] \in Range(popped) => order[i] \in Range(popped) \cup removed
    /\ cpc = "move" /\ node[tail].next # Null => node[node[tail].next].value /\ ~node[tail].value
=============================================================================
