------------------------------ MODULE MpscList ------------------------------
(***************************************************************************)
(* std/queue/mpsc_list.rs, the wait list of Mutex and RwLock: a linked     *)
(* list whose first node (tail) is a stub.  Many threads push; Pops are    *)
(* made one after the other, as the doc of Queue asks and as OnePopper of  *)
(* Mutex shows of its callers.  A node is named by the order of the swaps, *)
(* and its value is the number of the node.                                *)
(***************************************************************************)
EXTENDS Integers, Sequences, FiniteSets

CONSTANTS Pushes,   \* the calls of push
          MaxPops   \* bound on the calls of pop

Stub == 1

VARIABLES
    head, tail,   \* the last and the first node
    nodes,        \* the nodes in the order of the swaps: next (0: null), full, freed
    q,            \* where each push is, with its node and the node before it
    popper,       \* where the consumer is
    popped        \* what the pops have returned (0: None)

vars == <<head, tail, nodes, q, popper, popped>>

NewNode == [next |-> 0, full |-> TRUE, freed |-> FALSE]

TypeOK ==
    /\ head \in 1 .. Len(nodes) /\ tail \in 1 .. Len(nodes)
    /\ \A n \in 1 .. Len(nodes) :
          nodes[n] \in [next : 0 .. Len(nodes), full : BOOLEAN, freed : BOOLEAN]
    /\ q \in [Pushes -> [at : {"idle", "link", "done"}, prev : 0 .. Len(nodes)]]
    /\ popper \in {"idle", "next", "take"}
    /\ popped \in Seq(-1 .. Len(nodes))

Init ==
    /\ head = Stub /\ tail = Stub
    /\ nodes = <<[NewNode EXCEPT !.full = FALSE]>>
    /\ q = [p \in Pushes |-> [at |-> "idle", prev |-> 0]]
    /\ popper = "idle"
    /\ popped = <<>>

PushSwap(p) ==
    /\ q[p].at = "idle"
    /\ nodes' = Append(nodes, NewNode)
    /\ head' = Len(nodes) + 1
    /\ q' = [q EXCEPT ![p] = [at |-> "link", prev |-> head]]
    /\ UNCHANGED <<tail, popper, popped>>

PushLink(p) ==
    /\ q[p].at = "link"
    /\ nodes' = [nodes EXCEPT ![q[p].prev].next = q[p].prev + 1]
    /\ q' = [q EXCEPT ![p].at = "done"]
    /\ UNCHANGED <<head, tail, popper, popped>>

is_empty == head = tail

PopCheck ==
    /\ popper = "idle" /\ Len(popped) < MaxPops
    /\ IF is_empty
       THEN popped' = Append(popped, 0) /\ UNCHANGED popper
       ELSE popper' = "next" /\ UNCHANGED popped
    /\ UNCHANGED <<head, tail, nodes, q>>

\* The pop spins while the push that has taken the head has not linked its node.
PopNext ==
    /\ popper = "next"
    /\ nodes[tail].next # 0
    /\ popper' = "take"
    /\ UNCHANGED <<head, tail, nodes, q, popped>>

PopTake ==
    /\ popper = "take"
    /\ LET next == nodes[tail].next
       IN /\ nodes' = [nodes EXCEPT ![next].full = FALSE, ![tail].freed = TRUE]
          /\ tail' = next
          /\ popped' = Append(popped, IF nodes[next].full THEN next ELSE -1)
    /\ popper' = "idle"
    /\ UNCHANGED <<head, q>>

Next == (\E p \in Pushes : PushSwap(p) \/ PushLink(p)) \/ PopCheck \/ PopNext \/ PopTake

Spec == Init /\ [][Next]_vars

-----------------------------------------------------------------------------
\* mpsc_list.rs:46-51, 64-97.  The pops return the values in the order of the swaps,
\* each once, and no push links a node to one that has been freed.
PopTakesPush ==
    /\ \A p \in Pushes : q[p].at = "link" => ~nodes[q[p].prev].freed
    /\ SelectSeq(popped, LAMBDA n : n # 0) = [i \in 1 .. tail - Stub |-> i + Stub]
    /\ ~nodes[tail].freed
=============================================================================
