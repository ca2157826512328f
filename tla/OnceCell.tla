------------------------------ MODULE OnceCell ------------------------------
(***************************************************************************)
(* std/lazy: sync::OnceCell and sync::Lazy on imp_std.rs.  A process is    *)
(* one call on one shared cell.  state_and_queue is a state and the head   *)
(* of a list of waiter nodes; a node lives on the stack of the call that   *)
(* waits, so that the call names it.                                       *)
(***************************************************************************)
EXTENDS Integers, FiniteSets

CONSTANTS Calls,
          CanPanic,   \* calls whose init function may panic
          Cancelable, \* calls of coroutines that may be cancelled
          Null        \* the null pointer, no value

VARIABLES
    lazy,       \* the cell is the cell of a Lazy
    init,       \* Lazy::init holds the function
    kind,       \* the operation of each call
    state, queue,           \* state_and_queue
    value,      \* the call that wrote the value
    next, signaled, token,  \* Waiter: next, signaled, the token of p
    cur,        \* the state_and_queue a call has read: <<state, queue>>
    walk,       \* WaiterQueue::drop: the node in hand
    after,      \* WaiterQueue::drop: its next node
    outcome,    \* what the init function of a call did
    pc

nodeVars == <<next, signaled, token>>
vars == <<lazy, init, kind, state, queue, value, nodeVars, cur, walk, after, outcome, pc>>

Kinds == {"get", "try_insert", "get_or_init", "get_or_try_init"}
Ended == {"some", "none", "err", "panicked", "canceled", "wild"}
Waiting == {"wait_check", "wait_park"}

TypeOK ==
    /\ lazy \in BOOLEAN /\ init \in BOOLEAN
    /\ kind \in [Calls -> Kinds \cup {"force"}]
    /\ state \in {"INCOMPLETE", "RUNNING", "COMPLETE"}
    /\ \A p \in {queue, value} : p \in Calls \cup {Null}
    /\ \A f \in {next, walk, after} : f \in [Calls -> Calls \cup {Null}]
    /\ signaled \in [Calls -> BOOLEAN] /\ token \in [Calls -> BOOLEAN]
    /\ outcome \in [Calls -> {"value", "err", "panic", "not_run"}]
    /\ pc \in [Calls -> Ended \cup Waiting \cup {"start", "load", "match", "cas", "run",
                   "swap", "unpark", "next", "signal", "dropped", "wait", "wait_cas"}]

\* Lazy::new, or OnceCell::new.
Init ==
    /\ lazy \in BOOLEAN
    /\ init = lazy
    /\ kind \in [Calls -> IF lazy THEN {"force"} ELSE Kinds]
    /\ state = "INCOMPLETE" /\ queue = Null
    /\ value = Null
    /\ next = [c \in Calls |-> Null]
    /\ signaled = [c \in Calls |-> FALSE] /\ token = [c \in Calls |-> FALSE]
    /\ cur = [c \in Calls |-> <<"INCOMPLETE", Null>>]
    /\ walk = [c \in Calls |-> Null] /\ after = [c \in Calls |-> Null]
    /\ outcome = [c \in Calls |-> "not_run"]
    /\ pc = [c \in Calls |-> "start"]

Goto(c, l) == pc' = [pc EXCEPT ![c] = l]

-----------------------------------------------------------------------------
(* get, and get_or_try_init, which all other operations call.              *)

Get(c) ==
    /\ pc[c] = "start"
    /\ Goto(c, IF state = "COMPLETE" THEN "some"
               ELSE IF kind[c] = "get" THEN "none" ELSE "load")
    /\ UNCHANGED <<lazy, init, kind, state, queue, value, nodeVars, cur, walk, after, outcome>>

\* initialize_inner: the state is read here, after a failed exchange and
\* after every wait.
Load(c) ==
    /\ pc[c] = "load"
    /\ cur' = [cur EXCEPT ![c] = <<state, queue>>]
    /\ Goto(c, "match")
    /\ UNCHANGED <<lazy, init, kind, state, queue, value, nodeVars, walk, after, outcome>>

Match(c) ==
    /\ pc[c] = "match"
    /\ Goto(c, CASE cur[c][1] = "COMPLETE" -> "dropped"
                 [] cur[c][1] = "INCOMPLETE" -> "cas"
                 [] OTHER -> "wait")
    /\ UNCHANGED <<lazy, init, kind, state, queue, value, nodeVars, cur, walk, after, outcome>>

\* Mutant: the exchange is a store.
CasUnchecked(c) ==
    /\ pc[c] = "cas"
    /\ state' = "RUNNING" /\ queue' = Null /\ cur' = cur /\ Goto(c, "run")
    /\ UNCHANGED <<lazy, init, kind, value, nodeVars, walk, after, outcome>>

Cas(c) ==
    /\ pc[c] = "cas"
    /\ IF state = "INCOMPLETE"
       THEN state' = "RUNNING" /\ queue' = Null /\ cur' = cur /\ Goto(c, "run")
       ELSE /\ cur' = [cur EXCEPT ![c] = <<state, queue>>]
            /\ Goto(c, "match")
            /\ UNCHANGED <<state, queue>>
    /\ UNCHANGED <<lazy, init, kind, value, nodeVars, walk, after, outcome>>

\* What the closure a call hands to initialize may do.
TryInsert(c) == {"value"}
GetOrInit(c) == {"value"} \cup (IF c \in CanPanic THEN {"panic"} ELSE {})
GetOrTryInit(c) == GetOrInit(c) \cup {"err"}
\* force takes the function out of the Lazy, and panics when it is gone.
Force(c) == IF init THEN GetOrInit(c) ELSE {"panic"}

Outcomes(c) ==
    CASE kind[c] = "try_insert" -> TryInsert(c)
      [] kind[c] = "get_or_init" -> GetOrInit(c)
      [] kind[c] = "get_or_try_init" -> GetOrTryInit(c)
      [] kind[c] = "force" -> Force(c)

\* The closure of initialize.
Run(c) ==
    /\ pc[c] = "run"
    /\ \E o \in Outcomes(c) :
          /\ outcome' = [outcome EXCEPT ![c] = o]
          /\ value' = IF o = "value" THEN c ELSE value
    /\ init' = FALSE
    /\ Goto(c, "swap")
    /\ UNCHANGED <<lazy, kind, state, queue, nodeVars, cur, walk, after>>

-----------------------------------------------------------------------------
(* Drop of WaiterQueue, also when the function panics.                     *)

Swap(c) ==
    /\ pc[c] = "swap"
    /\ state' = IF outcome[c] = "value" THEN "COMPLETE" ELSE "INCOMPLETE"
    /\ queue' = Null
    /\ walk' = [walk EXCEPT ![c] = queue]
    /\ Goto(c, IF queue = Null THEN "dropped" ELSE "unpark")
    /\ UNCHANGED <<lazy, init, kind, value, nodeVars, cur, after, outcome>>

\* The node in hand went with its call, which was cancelled.
NodeGone(c) == pc[walk[c]] = "canceled"

\* The walk reads freed memory: what follows is undefined, and not followed here.
WalkFreed(c) ==
    /\ pc[c] \in {"unpark", "next", "signal"}
    /\ NodeGone(c)
    /\ Goto(c, "wild")
    /\ UNCHANGED <<lazy, init, kind, state, queue, value, nodeVars, cur, walk, after, outcome>>

UnparkNode(c) ==
    /\ pc[c] = "unpark" /\ ~NodeGone(c)
    /\ token' = [token EXCEPT ![walk[c]] = TRUE]
    /\ Goto(c, "next")
    /\ UNCHANGED <<lazy, init, kind, state, queue, value, next, signaled, cur, walk, after, outcome>>

ReadNext(c) ==
    /\ pc[c] = "next" /\ ~NodeGone(c)
    /\ after' = [after EXCEPT ![c] = next[walk[c]]]
    /\ Goto(c, "signal")
    /\ UNCHANGED <<lazy, init, kind, state, queue, value, nodeVars, cur, walk, outcome>>

Advance(c) ==
    /\ walk' = [walk EXCEPT ![c] = after[c]]
    /\ Goto(c, IF after[c] = Null THEN "dropped" ELSE "unpark")

\* Mutant: the node is used once more after it was given back to its waiter.
SignalThenUnpark(c) ==
    /\ pc[c] = "signal" /\ ~NodeGone(c)
    /\ signaled' = [signaled EXCEPT ![walk[c]] = TRUE]
    /\ IF signaled[walk[c]] THEN Advance(c) ELSE Goto(c, "unpark") /\ UNCHANGED walk
    /\ UNCHANGED <<lazy, init, kind, state, queue, value, next, token, cur, after, outcome>>

\* After the store the waiter may return, and its node with it.
Signal(c) ==
    /\ pc[c] = "signal" /\ ~NodeGone(c)
    /\ signaled' = [signaled EXCEPT ![walk[c]] = TRUE]
    /\ Advance(c)
    /\ UNCHANGED <<lazy, init, kind, state, queue, value, next, token, cur, after, outcome>>

\* get_or_try_init returns and reads the value without a check; try_insert, and
\* set, fail when their value was not used.
Dropped(c) ==
    /\ pc[c] = "dropped"
    /\ Goto(c, CASE outcome[c] = "panic" -> "panicked"
                 [] outcome[c] = "err" -> "err"
                 [] kind[c] = "try_insert" /\ outcome[c] = "not_run" -> "err"
                 [] OTHER -> "some")
    /\ UNCHANGED <<lazy, init, kind, state, queue, value, nodeVars, cur, walk, after, outcome>>

-----------------------------------------------------------------------------
(* wait.                                                                   *)

\* A new node on top of the queue that was read; wait returns at once when
\* the function has ended meanwhile.
WaitNode(c) ==
    /\ pc[c] = "wait"
    /\ IF cur[c][1] = "RUNNING"
       THEN /\ next' = [next EXCEPT ![c] = cur[c][2]]
            /\ signaled' = [signaled EXCEPT ![c] = FALSE]
            /\ token' = [token EXCEPT ![c] = FALSE]
            /\ Goto(c, "wait_cas")
       ELSE Goto(c, "load") /\ UNCHANGED nodeVars
    /\ UNCHANGED <<lazy, init, kind, state, queue, value, cur, walk, after, outcome>>

WaitCas(c) ==
    /\ pc[c] = "wait_cas"
    /\ IF <<state, queue>> = cur[c]
       THEN queue' = c /\ cur' = cur /\ Goto(c, "wait_check")
       ELSE /\ cur' = [cur EXCEPT ![c] = <<state, queue>>]
            /\ Goto(c, "wait")
            /\ UNCHANGED queue
    /\ UNCHANGED <<lazy, init, kind, state, value, nodeVars, walk, after, outcome>>

WaitCheck(c) ==
    /\ pc[c] = "wait_check"
    /\ Goto(c, IF signaled[c] THEN "load" ELSE "wait_park")
    /\ UNCHANGED <<lazy, init, kind, state, queue, value, nodeVars, cur, walk, after, outcome>>

WaitPark(c) ==
    /\ pc[c] = "wait_park"
    /\ token[c]
    /\ token' = [token EXCEPT ![c] = FALSE]
    /\ Goto(c, "wait_check")
    /\ UNCHANGED <<lazy, init, kind, state, queue, value, next, signaled, cur, walk, after, outcome>>

\* A cancelled coroutine panics out of park; its node stays in the queue.
WaitCanceled(c) ==
    /\ pc[c] = "wait_park"
    /\ c \in Cancelable /\ ~token[c]
    /\ Goto(c, "canceled")
    /\ UNCHANGED <<lazy, init, kind, state, queue, value, nodeVars, cur, walk, after, outcome>>

-----------------------------------------------------------------------------
Step(c) ==
    \/ Get(c) \/ Load(c) \/ Match(c) \/ Cas(c) \/ Run(c) \/ Swap(c)
    \/ UnparkNode(c) \/ ReadNext(c) \/ Signal(c) \/ WalkFreed(c) \/ Dropped(c)
    \/ WaitNode(c) \/ WaitCas(c) \/ WaitCheck(c) \/ WaitPark(c)

Next == \E c \in Calls : Step(c) \/ WaitCanceled(c)

\* Coroutines and threads that are ready run, the init functions end.
Fairness == \A c \in Calls : WF_vars(Step(c))

Spec == Init /\ [][Next]_vars /\ Fairness

-----------------------------------------------------------------------------
Running == {c \in Calls : pc[c] \in {"run", "swap"}}

\* imp_std.rs:84-86, 223-227.  One init function runs at a time and only while
\* the state says so (the assertion of the drop), none after one has succeeded,
\* and whoever is told of a value finds one.
InitializedOnce ==
    /\ Cardinality(Running) = IF state = "RUNNING" THEN 1 ELSE 0
    /\ \A c \in Calls : pc[c] = "some" => state = "COMPLETE" /\ value # Null
    /\ Cardinality({c \in Calls : outcome[c] = "value"}) = IF value = Null THEN 0 ELSE 1

\* imp_std.rs:57-59, 213-214, 229-241.  The walk over the waiters touches only
\* nodes whose owner is still in wait, or was cancelled out of it: nothing takes the
\* node of a cancelled waiter out of the queue, and the walk runs into it.
NodesAlive ==
    \A c \in Calls :
        pc[c] \in {"unpark", "next", "signal"} =>
            /\ walk[c] # Null
            /\ pc[walk[c]] = "canceled" \/ (pc[walk[c]] \in Waiting /\ ~signaled[walk[c]])

\* imp_std.rs:59.  "Will wake up the waiters when it gets dropped, i.e. also on
\* panic": a call that waits comes back.  Violated: the drop unparks a waiter before
\* it sets signaled, so that the waiter may look at the flag in between and park
\* again, for good.
WaitersWake == \A c \in Calls : pc[c] \in Waiting ~> pc[c] \notin Waiting
=============================================================================
