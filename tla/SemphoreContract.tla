-------------------------- MODULE SemphoreContract --------------------------
(***************************************************************************)
(* What a client of std/sync/semphore.rs may rely on, in the client's own  *)
(* steps: the counter that get_value shows, who is registered, and how     *)
(* many wake-ups are owed.  A wait that gave up leaves its blocker in the  *)
(* queue (a ghost): the wake-up that reaches it is posted again.  Module   *)
(* Semphore is checked to implement this contract; module Channel is built *)
(* on two instances of it.                                                 *)
(***************************************************************************)
EXTENDS Integers

CONSTANTS Waiters,   \* the calls that may wait
          InitVal    \* the argument of new

VARIABLE sem

TypeOK ==
    sem \in [cnt : Int, waiting : SUBSET Waiters, ghosts : Nat, owed : Nat]

New == [cnt |-> InitVal, waiting |-> {}, ghosts |-> 0, owed |-> 0]

Value == IF sem.cnt > 0 THEN sem.cnt ELSE 0

\* try_wait returns true.
TryWait ==
    /\ sem.cnt > 0
    /\ sem' = [sem EXCEPT !.cnt = @ - 1]

\* wait counts itself and passes on a unit that was posted in the meantime.
Register(c) ==
    /\ c \notin sem.waiting
    /\ sem' = [sem EXCEPT !.cnt = @ - 1,
                          !.waiting = @ \cup {c},
                          !.owed = IF sem.cnt > 0 THEN @ + 1 ELSE @]

\* A registered wait returns true.
Return(c) ==
    /\ c \in sem.waiting
    /\ sem.owed > 0
    /\ sem' = [sem EXCEPT !.waiting = @ \ {c}, !.owed = @ - 1]

\* A registered wait times out or is cancelled.
GiveUp(c) ==
    /\ c \in sem.waiting
    /\ sem' = [sem EXCEPT !.waiting = @ \ {c}, !.ghosts = @ + 1]

Post ==
    sem' = [sem EXCEPT !.cnt = @ + 1,
                       !.owed = IF sem.cnt < 0 THEN @ + 1 ELSE @]

\* A wake-up has met a wait that gave up: the unit is posted again.
Repost ==
    /\ sem.ghosts > 0
    /\ sem.owed > 0
    /\ sem' = [sem EXCEPT !.cnt = @ + 1,
                          !.ghosts = @ - 1,
                          !.owed = IF sem.cnt < 0 THEN @ ELSE @ - 1]

Next ==
    \/ TryWait \/ Post \/ Repost
    \/ \E c \in Waiters : Register(c) \/ Return(c) \/ GiveUp(c)

Spec == sem = New /\ [][Next]_sem
=============================================================================
