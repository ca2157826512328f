------------------------------ MODULE Generator -----------------------------
(***************************************************************************)
(* The generators of mco-gen (gen_impl.rs, rt.rs, yield_.rs, scope.rs and  *)
(* detail/gen.rs): contexts linked by their parent pointers, with one root *)
(* context per thread whose parent is the context that runs.  A coroutine  *)
(* is a generator with local data; the code inside it may run a generator  *)
(* of its own and yield the whole coroutine from there, and the coroutine  *)
(* may be resumed by another thread.  What is passed in and out is left    *)
(* out.  The child pointer is only written.                                *)
(***************************************************************************)
EXTENDS Integers, Sequences, SequencesExt, FiniteSets

CONSTANTS Threads,
          Coroutines,      \* generators with local_data
          Inner            \* plain generators

VARIABLES
    parent,     \* parent of each context; of a root: the running context
    f,          \* generators whose function is not yet consumed
    ref,        \* _ref
    err,        \* generators that keep panic data
    unwinding,  \* threads on which a panic is under way
    held,       \* the code a plain generator belongs to: a context
    calls,      \* history: the contexts resumed on a thread, the last one running
    kept        \* history: the contexts inside a suspended generator

vars == <<parent, f, ref, err, unwinding, held, calls, kept>>

Gens == Coroutines \cup Inner
Contexts == Threads \cup Gens       \* a thread stands for its root context

TypeOK ==
    /\ parent \in [Contexts -> Contexts]
    /\ f \subseteq Gens /\ err \subseteq Gens
    /\ ref \in [Gens -> 0 .. 2]
    /\ unwinding \subseteq Threads
    /\ held \in [Inner -> Contexts]
    /\ calls \in [Threads -> Seq(Contexts)]
    /\ kept \in [Gens -> Seq(Gens)]

\* init_code: the context is its own parent, and ready to start.
Init ==
    /\ parent = [x \in Contexts |-> x]
    /\ f = Gens
    /\ ref = [g \in Gens |-> 0]
    /\ err = {}
    /\ unwinding = {}
    /\ held \in {h \in [Inner -> Contexts] : \A g \in Inner : h[g] \notin Inner \/ h[h[g]] \notin Inner}
    /\ calls = [t \in Threads |-> <<t>>]
    /\ kept = [g \in Gens |-> <<g>>]

Top(t) == parent[t]

is_done(g) == g \notin f /\ ref[g] # 0

\* Whoever has the generator may use it, and not while it runs: the scheduler on
\* any thread a coroutine, the code that made it a plain one.
MayUse(t, g) ==
    /\ \A u \in Threads : ~Contains(calls[u], g)
    /\ Top(t) = IF g \in Coroutines THEN t ELSE held[g]

-----------------------------------------------------------------------------
(* The list of contexts of a thread.                                       *)

push_context(t, g) == parent' = [parent EXCEPT ![g] = Top(t), ![t] = parent[g]]

\* Mutant: a context is its own top again when it leaves the list.
PopForgetsTop(t, g) == parent' = [parent EXCEPT ![g] = g, ![t] = parent[g]]

\* The old top is kept in the parent of the context that leaves.
pop_context(t, g) == parent' = [parent EXCEPT ![g] = Top(t), ![t] = parent[g]]

\* What the stack switch does: calls and kept follow the machine stacks.
SwitchTo(t, g) ==
    /\ push_context(t, g)
    /\ calls' = [calls EXCEPT ![t] = @ \o kept[g]]
    /\ kept' = [kept EXCEPT ![g] = <<>>]

SwitchFrom(t, g) ==
    LET i == SelectInSeq(calls[t], LAMBDA x : x = g) IN
    /\ pop_context(t, g)
    /\ calls' = [calls EXCEPT ![t] = SubSeq(@, 1, i - 1)]
    /\ kept' = [kept EXCEPT ![g] = SubSeq(calls[t], i, Len(calls[t]))]

-----------------------------------------------------------------------------
\* resume, raw_send; one that is done returns None at once.
Resume(t, g) ==
    /\ t \notin unwinding
    /\ MayUse(t, g)
    /\ ref[g] = 0
    /\ ref' = [ref EXCEPT ![g] = 1]
    /\ f' = f \ {g}
    /\ SwitchTo(t, g)
    /\ UNCHANGED <<err, unwinding, held>>

\* cancel, and the drop of a generator that is not done.
Cancel(t, g) ==
    /\ t \notin unwinding
    /\ MayUse(t, g)
    /\ ~is_done(g)
    /\ IF g \in f
       THEN /\ f' = f \ {g}
            /\ ref' = [ref EXCEPT ![g] = 1]
            /\ UNCHANGED <<parent, calls, kept>>
       ELSE /\ ref' = [ref EXCEPT ![g] = 2]
            /\ SwitchTo(t, g)
            /\ UNCHANGED f
    /\ UNCHANGED <<err, unwinding, held>>

\* init_code of a generator that is done
Reinit(t, g) ==
    /\ t \notin unwinding
    /\ MayUse(t, g)
    /\ is_done(g)
    /\ f' = f \cup {g}
    /\ ref' = [ref EXCEPT ![g] = 0]
    /\ parent' = [parent EXCEPT ![g] = g]
    /\ kept' = [kept EXCEPT ![g] = <<g>>]
    /\ err' = err \ {g}
    /\ UNCHANGED <<unwinding, held, calls>>

\* The code of g runs on t, and has not been told to stop.
Runs(t, g) == Top(t) = g /\ t \notin unwinding /\ (g \in Coroutines \/ ref[g] = 1)

\* raw_yield: yields the running generator.
Yield(t, g) ==
    /\ Runs(t, g)
    /\ ref[g] = 1
    /\ ref' = [ref EXCEPT ![g] = 0]
    /\ SwitchFrom(t, g)
    /\ UNCHANGED <<f, err, unwinding, held>>

\* co_ctx: the first context from the top with local data.
IsCoCtx(t, g) ==
    LET Ancestor[n \in 0 .. Cardinality(Inner)] ==
            IF n = 0 THEN Top(t) ELSE parent[Ancestor[n - 1]]
    IN  /\ g \in Coroutines
        /\ \E n \in DOMAIN Ancestor :
              Ancestor[n] = g /\ \A m \in 0 .. n - 1 : Ancestor[m] \in Inner

\* The running context leaves for good: _ref keeps what resume made of it.
Leave(t, g) == SwitchFrom(t, g) /\ UNCHANGED <<f, ref, held>>

\* co_yield_with: yields the coroutine from wherever its code is, or panics with
\* Cancel, which ends the generator that runs there.
CoYield(t, g) ==
    /\ IsCoCtx(t, g)
    /\ Runs(t, Top(t))
    /\ IF ref[g] = 1
       THEN /\ ref' = [ref EXCEPT ![g] = 0]
            /\ SwitchFrom(t, g)
            /\ UNCHANGED <<f, held>>
       ELSE Leave(t, Top(t))
    /\ UNCHANGED <<err, unwinding>>

\* gen_init_impl after the function has returned, or was stopped by a Done or
\* Cancel panic; a plain generator that was cancelled can do nothing else.
Return(t, g) ==
    /\ Top(t) = g /\ t \notin unwinding
    /\ Leave(t, g)
    /\ UNCHANGED <<err, unwinding>>

\* Any other panic is kept in the context; resume_gen goes on with it in the
\* parent, unless the generator is a coroutine.
Panic(t, g) ==
    /\ Runs(t, g) \/ (Top(t) = g /\ t \in unwinding)
    /\ Leave(t, g)
    /\ IF g \in Coroutines
       THEN err' = err \cup {g} /\ unwinding' = unwinding \ {t}
       ELSE unwinding' = unwinding \cup {t} /\ UNCHANGED err

\* A thread outside any generator handles the panic.
Caught(t) ==
    /\ Top(t) = t
    /\ t \in unwinding
    /\ unwinding' = unwinding \ {t}
    /\ UNCHANGED <<parent, f, ref, err, held, calls, kept>>

Next ==
    \E t \in Threads :
       \/ Caught(t)
       \/ \E g \in Gens : \/ Resume(t, g) \/ Cancel(t, g) \/ Reinit(t, g) \/ Yield(t, g)
                          \/ CoYield(t, g) \/ Return(t, g) \/ Panic(t, g)

Spec == Init /\ [][Next]_vars

-----------------------------------------------------------------------------
Linked(s) == \A i \in 2 .. Len(s) : parent[s[i]] = s[i - 1]

\* rt.rs:230-262.  The parent pointers are the calls: on each thread they lead from
\* the running context down to the root, and a suspended generator keeps the place
\* inside it where it will go on, whichever of its contexts yielded, panicked or
\* was cancelled and whichever thread resumes it.
LinksMatchCalls ==
    /\ \A t \in Threads : Top(t) = Last(calls[t]) /\ Linked(calls[t])
    /\ \A g \in Gens : ref[g] = 0 => parent[g] = Last(kept[g]) /\ Linked(kept[g])
=============================================================================
