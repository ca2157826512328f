-------------------------------- MODULE Pool --------------------------------
(***************************************************************************)
(* std/pool/mod.rs: tasks are put into the channel idle; run takes them,   *)
(* enters each into the channel current, whose limit is the number of      *)
(* workers, and spawns a coroutine for it that leaves current at its end.  *)
(* A channel is the sequence of its messages, or their number: module      *)
(* Channel has the waiting.  Every run has a current of its own.  The drop *)
(* of the pool closes once more, when no run is left to notice.            *)
(***************************************************************************)
EXTENDS Integers, Sequences, FiniteSets

CONSTANTS Tasks, Runs,
          worker_num,
          waiter_num,   \* the limit of idle in new_bounded
          Null          \* None, that ends a run

VARIABLES
    idle,      \* the messages of the channel idle
    closed,
    task,      \* where each task is
    closer,    \* where the call of close or close_finish is
    run,       \* where each run is
    got,       \* the task that a run has received
    current,   \* messages in current of each run
    home       \* the run that spawned a task

vars == <<idle, closed, task, closer, run, got, current, home>>

TypeOK ==
    /\ idle \in Seq(Tasks \cup {Null})
    /\ closed \in BOOLEAN
    /\ task \in [Tasks -> {"new", "put", "idle", "got", "running", "done", "dropped"}]
    /\ closer \in {"open", "remain", "try", "finish", "send", "returned"}
    /\ run \in [Runs -> {"recv", "send", "spawn", "exit", "exited"}]
    /\ got \in [Runs -> Tasks \cup {Null}]
    /\ current \in [Runs -> Nat]
    /\ home \in [Tasks -> Runs \cup {Null}]

Init ==
    /\ idle = <<>>
    /\ closed = FALSE
    /\ task = [t \in Tasks |-> "new"]
    /\ closer = "open"
    /\ run = [r \in Runs |-> "recv"]
    /\ got = [r \in Runs |-> Null]
    /\ current = [r \in Runs |-> 0]
    /\ home = [t \in Tasks |-> Null]

\* put: send looks at the length before it pushes.
Put(t) ==
    /\ \/ task[t] = "new" /\ Len(idle) < waiter_num
          /\ task' = [task EXCEPT ![t] = "put"] /\ idle' = idle
       \/ task[t] = "put"
          /\ task' = [task EXCEPT ![t] = "idle"] /\ idle' = Append(idle, t)
    /\ UNCHANGED <<closed, closer, run, got, current, home>>

\* close empties idle first, close_finish does not; both send None.
Close ==
    /\ closer = "open"
    /\ closer' \in {"remain", "finish"}
    /\ UNCHANGED <<idle, closed, task, run, got, current, home>>

Remain ==
    /\ closer = "remain"
    /\ closer' = IF idle # <<>> THEN "try" ELSE "finish"
    /\ UNCHANGED <<idle, closed, task, run, got, current, home>>

\* try_recv finds no unit when the sender has not posted yet or a run has taken it.
Discard ==
    /\ closer = "try"
    /\ closer' = "remain"
    /\ \/ /\ idle # <<>>
          /\ idle' = Tail(idle)
          /\ task' = [task EXCEPT ![Head(idle)] = "dropped"]
       \/ UNCHANGED <<idle, task>>
    /\ UNCHANGED <<closed, run, got, current, home>>

SendNone ==
    /\ \/ closer = "finish" /\ Len(idle) < waiter_num /\ closer' = "send" /\ idle' = idle
       \/ closer = "send" /\ closer' = "returned" /\ idle' = Append(idle, Null)
    /\ UNCHANGED <<closed, task, run, got, current, home>>

Recv(r) ==
    /\ run[r] = "recv" /\ idle # <<>>
    /\ idle' = Tail(idle)
    /\ got' = [got EXCEPT ![r] = Head(idle)]
    /\ IF Head(idle) = Null
       THEN run' = [run EXCEPT ![r] = "exit"] /\ task' = task
       ELSE /\ run' = [run EXCEPT ![r] = "send"]
            /\ task' = [task EXCEPT ![Head(idle)] = "got"]
    /\ UNCHANGED <<closed, closer, current, home>>

\* Mutant: nobody waits for a worker.
SendCurrentAtOnce(r) ==
    /\ run[r] = "send"
    /\ current' = [current EXCEPT ![r] = @ + 1]
    /\ run' = [run EXCEPT ![r] = "spawn"]
    /\ UNCHANGED <<idle, closed, task, closer, got, home>>

\* run is the only sender of its current, so that the limit is exact.
SendCurrent(r) ==
    /\ run[r] = "send"
    /\ current[r] < worker_num
    /\ current' = [current EXCEPT ![r] = @ + 1]
    /\ run' = [run EXCEPT ![r] = "spawn"]
    /\ UNCHANGED <<idle, closed, task, closer, got, home>>

SpawnTask(r) ==
    /\ run[r] = "spawn"
    /\ task' = [task EXCEPT ![got[r]] = "running"]
    /\ home' = [home EXCEPT ![got[r]] = r]
    /\ run' = [run EXCEPT ![r] = "recv"]
    /\ UNCHANGED <<idle, closed, closer, got, current>>

\* The task returns, fails or panics: the deferred try_recv leaves current.
TaskEnds(t) ==
    /\ task[t] = "running"
    /\ task' = [task EXCEPT ![t] = "done"]
    /\ current' = [current EXCEPT ![home[t]] = @ - 1]
    /\ UNCHANGED <<idle, closed, closer, run, got, home>>

Exit(r) ==
    /\ run[r] = "exit"
    /\ closed' = TRUE
    /\ run' = [run EXCEPT ![r] = "exited"]
    /\ UNCHANGED <<idle, task, closer, got, current, home>>

Next ==
    \/ \E t \in Tasks : Put(t) \/ TaskEnds(t)
    \/ Close \/ Remain \/ Discard \/ SendNone
    \/ \E r \in Runs : Recv(r) \/ SendCurrent(r) \/ SpawnTask(r) \/ Exit(r)

Spec == Init /\ [][Next]_vars

-----------------------------------------------------------------------------
\* The messages in current are the tasks of its run, with the one about to be spawned:
\* the try_recv at the end of a task finds one, whatever the order in which tasks end,
\* and at most worker_num tasks of a run are running.
WorkersBounded ==
    \A r \in Runs :
       LET running == {t \in Tasks : task[t] = "running" /\ home[t] = r}
       IN  /\ Cardinality(running) <= worker_num
           /\ current[r] = Cardinality(running) + (IF run[r] = "spawn" THEN 1 ELSE 0)
=============================================================================
