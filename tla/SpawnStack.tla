----------------------------- MODULE SpawnStack -----------------------------
(***************************************************************************)
(* Where coroutines live: spawn_impl and run_coroutine (coroutine_impl.rs) *)
(* with the stacks of mco-gen (stack/mod.rs, gen_impl.rs).  Every worker   *)
(* has one stack; spawn_impl takes a shadow clone of the first worker's,   *)
(* resets it, which moves its top down to one eighth, and allocates the    *)
(* generator of the new coroutine at that top.  A suspended coroutine      *)
(* keeps a copy of what lies below the top of its stack.                   *)
(***************************************************************************)
EXTENDS Naturals, Sequences

CONSTANTS Coroutines, Null

VARIABLES
    mapped,   \* the low eighth of the first worker's stack is mapped
    box,      \* the coroutine whose generator lies at its top
    queue,    \* the coroutines that wait to be run
    st,       \* new, live or dropped: the CoroutineImpl of each
    reduce,   \* coroutines with a saved copy
    wrote,    \* a copy was written to the top of the whole stack
    ran,      \* history: the closures that each coroutine has run
    fault     \* memory that is not mapped was accessed

vars == <<mapped, box, queue, st, reduce, wrote, ran, fault>>

TypeOK ==
    /\ mapped \in BOOLEAN /\ wrote \in BOOLEAN /\ fault \in BOOLEAN
    /\ box \in Coroutines \cup {Null}
    /\ queue \in Seq(Coroutines)
    /\ st \in [Coroutines -> {"new", "live", "dropped"}]
    /\ reduce \subseteq Coroutines
    /\ ran \in [Coroutines -> SUBSET Coroutines]

Init ==
    /\ mapped = TRUE
    /\ box = Null
    /\ queue = <<>>
    /\ st = [c \in Coroutines |-> "new"]
    /\ reduce = {} /\ wrote = FALSE
    /\ ran = [c \in Coroutines |-> {}]
    /\ fault = FALSE

\* Stack::reset writes its pattern at the bottom; GeneratorImpl::new and init_code
\* put the generator at the top it leaves.
Spawn(c) ==
    /\ ~fault
    /\ st[c] = "new"
    /\ IF mapped
       THEN /\ box' = c
            /\ queue' = Append(queue, c)
            /\ st' = [st EXCEPT ![c] = "live"]
            /\ UNCHANGED fault
       ELSE fault' = TRUE /\ UNCHANGED <<box, queue, st>>
    /\ UNCHANGED <<mapped, reduce, wrote, ran>>

\* get_stack gives the whole stack of the worker: the copy goes to its top, and not
\* to where the generator is.
StackRestore(c) ==
    /\ reduce' = reduce \ {c}
    /\ wrote' = (wrote \/ c \in reduce)

\* Done::drop_coroutine: the drop of the StackBox unmaps the stack it was made on.
DropCoroutine(c) ==
    /\ st' = [st EXCEPT ![c] = "dropped"]
    /\ mapped' = FALSE
    /\ box' = Null

\* run_coroutine: what is resumed is the generator that lies there.
RunYields(c) ==
    /\ ran' = [ran EXCEPT ![c] = @ \cup {box}]
    /\ reduce' = reduce \cup {c}
    /\ wrote' = (wrote \/ c \in reduce)
    /\ queue' = Append(Tail(queue), c)
    /\ UNCHANGED <<mapped, box, st>>

RunEnds(c) ==
    /\ ran' = [ran EXCEPT ![c] = @ \cup {box}]
    /\ StackRestore(c)
    /\ DropCoroutine(c)
    /\ queue' = Tail(queue)

RunCoroutine ==
    /\ ~fault
    /\ queue # <<>>
    /\ IF mapped
       THEN (RunYields(Head(queue)) \/ RunEnds(Head(queue))) /\ UNCHANGED fault
       ELSE fault' = TRUE /\ UNCHANGED <<mapped, box, queue, st, reduce, wrote, ran>>

Next == RunCoroutine \/ \E c \in Coroutines : Spawn(c)

Spec == Init /\ [][Next]_vars

-----------------------------------------------------------------------------
\* tests/lib.rs:178-191 spawns three coroutines and asserts that each has changed
\* its own element: a coroutine runs the closure it was spawned with.
RunsOwnClosure == \A c \in Coroutines : ran[c] \subseteq {c}
=============================================================================
