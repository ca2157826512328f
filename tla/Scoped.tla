------------------------------- MODULE Scoped -------------------------------
(***************************************************************************)
(* scoped.rs on join.rs and the part of coroutine_impl.rs that ends a      *)
(* coroutine: a scope spawns coroutines, joins some of them by their       *)
(* handles and the rest when it is left, also when the parent unwinds.     *)
(* The parent parks on a Blocker of its own for each wait: a token that    *)
(* unpark sets.  A result is a value, a panic or a cancellation.           *)
(***************************************************************************)
EXTENDS Sequences, FiniteSets, Functions

CONSTANTS Children, Null

VARIABLES
    child,      \* where each coroutine is
    join,       \* Join of each: state, to_wake; with packet and panic
    dtors,      \* Scope.dtors, the last one first
    joined,     \* children whose JoinState is Joined
    pc, cur,    \* where the parent is, and which child it waits for
    token,      \* the Blocker of the current wait has been unparked
    panicking,  \* the parent unwinds
    canceled    \* the cancel bit of the parent

vars == <<child, join, dtors, joined, pc, cur, token, panicking, canceled>>

NewJoin == [state |-> TRUE, to_wake |-> FALSE, packet |-> FALSE, panic |-> FALSE]

TypeOK ==
    /\ child \in [Children -> {"new", "running", "store", "wake", "done"}]
    /\ join \in [Children -> [state : BOOLEAN, to_wake : BOOLEAN,
                              packet : BOOLEAN, panic : BOOLEAN]]
    /\ dtors \in Seq(Children)
    /\ joined \subseteq Children
    /\ pc \in {"body", "drop_all", "load", "register", "recheck", "park", "result",
               "left", "aborted"}
    /\ cur \in Children \cup {Null}
    /\ token \in BOOLEAN /\ panicking \in BOOLEAN /\ canceled \in BOOLEAN

Init ==
    /\ child = [c \in Children |-> "new"]
    /\ join = [c \in Children |-> NewJoin]
    /\ dtors = <<>>
    /\ joined = {}
    /\ pc = "body" /\ cur = Null
    /\ token = FALSE /\ panicking = FALSE /\ canceled = FALSE

-----------------------------------------------------------------------------
(* The coroutine.                                                          *)

\* f returns and its value is stored, or it unwinds and run_coroutine stores
\* the panic, which the generator keeps unless it is a cancellation.
Finish(c) ==
    /\ child[c] = "running"
    /\ child' = [child EXCEPT ![c] = "store"]
    /\ \E r \in {"value", "panic", "cancel"} :
          join' = [join EXCEPT ![c].packet = (r = "value"), ![c].panic = (r = "panic")]
    /\ UNCHANGED <<dtors, joined, pc, cur, token, panicking, canceled>>

\* Join::trigger
TriggerStore(c) ==
    /\ child[c] = "store"
    /\ child' = [child EXCEPT ![c] = "wake"]
    /\ join' = [join EXCEPT ![c].state = FALSE]
    /\ UNCHANGED <<dtors, joined, pc, cur, token, panicking, canceled>>

\* The Blocker of a wait that was given up is nobody's.
TriggerWake(c) ==
    /\ child[c] = "wake"
    /\ child' = [child EXCEPT ![c] = "done"]
    /\ join' = [join EXCEPT ![c].to_wake = FALSE]
    /\ token' = (token \/ (join[c].to_wake /\ c = cur))
    /\ UNCHANGED <<dtors, joined, pc, cur, panicking, canceled>>

-----------------------------------------------------------------------------
(* The body of the scope.                                                  *)

\* Scope::spawn_impl: the coroutine is scheduled, its join is deferred.
Spawn(c) ==
    /\ pc = "body"
    /\ child[c] = "new"
    /\ child' = [child EXCEPT ![c] = "running"]
    /\ dtors' = <<c>> \o dtors
    /\ UNCHANGED <<join, joined, pc, cur, token, panicking, canceled>>

\* JoinState::join marks the child as joined before it waits.
BeginJoin(c) ==
    /\ joined' = joined \cup {c}
    /\ cur' = c
    /\ token' = FALSE

\* ScopedJoinHandle::join
HandleJoin(c) ==
    /\ pc = "body"
    /\ child[c] # "new" /\ c \notin joined
    /\ BeginJoin(c)
    /\ pc' = "load"
    /\ UNCHANGED <<child, join, dtors, panicking, canceled>>

\* scope calls drop_all when the body returns; Drop does when it panics.
LeaveBody ==
    /\ pc = "body"
    /\ pc' = "drop_all"
    /\ panicking' \in BOOLEAN
    /\ UNCHANGED <<child, join, dtors, joined, cur, token, canceled>>

\* Mutant: a scope left by a panic runs no destructors.
DropAllUnlessPanicking ==
    /\ pc = "drop_all"
    /\ pc' = "left"
    /\ dtors' = <<>>
    /\ UNCHANGED <<child, join, joined, cur, token, panicking, canceled>>

DropAll ==
    /\ pc = "drop_all"
    /\ IF dtors = <<>>
       THEN pc' = "left" /\ UNCHANGED <<dtors, joined, cur, token>>
       ELSE /\ dtors' = Tail(dtors)
            /\ IF Head(dtors) \in joined
               THEN UNCHANGED <<joined, cur, token, pc>>
               ELSE BeginJoin(Head(dtors)) /\ pc' = "load"
    /\ UNCHANGED <<child, join, panicking, canceled>>

-----------------------------------------------------------------------------
(* JoinHandle::join                                                        *)

WaitLoad ==
    /\ pc = "load"
    /\ pc' = IF join[cur].state THEN "register" ELSE "result"
    /\ UNCHANGED <<child, join, dtors, joined, cur, token, panicking, canceled>>

WaitRegister ==
    /\ pc = "register"
    /\ join' = [join EXCEPT ![cur].to_wake = TRUE]
    /\ pc' = "recheck"
    /\ UNCHANGED <<child, dtors, joined, cur, token, panicking, canceled>>

\* Mutant: the state is not looked at again after the registration.
WaitRecheckNever ==
    /\ pc = "recheck"
    /\ pc' = "park"
    /\ UNCHANGED <<child, join, dtors, joined, cur, token, panicking, canceled>>

\* Either the coroutine or the waiter itself takes the registered Blocker.
WaitRecheck ==
    /\ pc = "recheck"
    /\ pc' = "park"
    /\ IF join[cur].state
       THEN UNCHANGED <<join, token>>
       ELSE /\ join' = [join EXCEPT ![cur].to_wake = FALSE]
            /\ token' = (token \/ join[cur].to_wake)
    /\ UNCHANGED <<child, dtors, joined, cur, panicking, canceled>>

WaitPark ==
    /\ pc = "park"
    /\ token
    /\ pc' = "result"
    /\ UNCHANGED <<child, join, dtors, joined, cur, token, panicking, canceled>>

\* A panic of the child goes on in the parent, unless that unwinds already;
\* in the body the handle's join takes the value.
Result ==
    /\ pc = "result"
    /\ cur' = Null
    /\ panicking' = (panicking \/ ~join[cur].packet)
    /\ join' = [join EXCEPT ![cur].packet = FALSE, ![cur].panic = FALSE]
    /\ pc' = IF dtors # <<>> /\ cur \in Range(dtors) /\ ~panicking' THEN "body" ELSE "drop_all"
    /\ UNCHANGED <<child, dtors, joined, token, canceled>>

\* Another coroutine cancels the parent; its park panics, and a panic in a drop
\* during unwinding ends the process.
CancelParent ==
    /\ pc \notin {"left", "aborted"}
    /\ ~canceled
    /\ canceled' = TRUE
    /\ UNCHANGED <<child, join, dtors, joined, pc, cur, token, panicking>>

ParkPanics ==
    /\ pc = "park"
    /\ canceled
    /\ pc' = IF panicking THEN "aborted" ELSE "drop_all"
    /\ panicking' = TRUE
    /\ cur' = Null
    /\ UNCHANGED <<child, join, dtors, joined, token, canceled>>

-----------------------------------------------------------------------------
Child(c) == Finish(c) \/ TriggerStore(c) \/ TriggerWake(c)

Parent ==
    \/ LeaveBody \/ DropAll \/ WaitLoad \/ WaitRegister \/ WaitRecheck \/ WaitPark
    \/ Result \/ ParkPanics

Next ==
    \/ Parent \/ CancelParent
    \/ \E c \in Children : Child(c) \/ Spawn(c) \/ HandleJoin(c)

\* Coroutines come to an end, and the parent leaves the body.
Fairness == WF_vars(Parent) /\ \A c \in Children : WF_vars(Child(c))

Spec == Init /\ [][Next]_vars /\ Fairness

-----------------------------------------------------------------------------
\* scoped.rs:130-133.  When the scope is left none of its coroutines runs, also
\* when the body or a child panicked; a parent that was cancelled leaves at most
\* the one behind that it was joining and had marked as joined.
ScopeEncloses ==
    pc = "left" =>
        Cardinality({c \in Children : child[c] = "running"}) <= IF canceled THEN 1 ELSE 0

\* Where every behaviour comes to.
ScopeLeft == pc \in {"left", "aborted"}
=============================================================================
