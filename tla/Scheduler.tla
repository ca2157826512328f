----------------------------- MODULE Scheduler ------------------------------
(***************************************************************************)
(* scheduler.rs, io/event_loop.rs and the loop of Selector::select: the    *)
(* worker threads with their local queues, the global queue, the parked    *)
(* mask, the eventfd of each worker, and the timer thread.  A coroutine    *)
(* runs on a worker until it yields, sleeps, blocks or ends; what it       *)
(* blocks on is left to the other modules.  A coroutine is spawned and,    *)
(* by a thread that is no worker, unparked through schedule_global; a      *)
(* coroutine unparks another one through the local queue of its worker.    *)
(*                                                                         *)
(* A thread that is no worker may run a coroutine itself (spawn_local, the *)
(* bottom half of a Cqueue event).  It is then in the map of stacks, and   *)
(* spawn_impl, which takes the first thread of that map, may pin new       *)
(* coroutines to it.  No worker takes those out of the global queue.       *)
(*                                                                         *)
(* A local queue is a crossbeam Worker, made for one pushing thread: push  *)
(* reads the end of the queue, writes the slot there and moves the end.    *)
(* The timer thread pushes into the same queue without synchronisation.    *)
(***************************************************************************)
EXTENDS Integers, Sequences, SequencesExt, FiniteSetsExt

CONSTANTS N,            \* the number of workers
          Coroutines,
          Sleepers,     \* coroutines that may sleep
          Null

VARIABLES
    local,    \* local_queues
    global,   \* global_queue
    parked,   \* the bits of ParkStatus.parked
    evfd,     \* workers with a wake-up pending in their eventfd
    wpc,      \* where each worker is
    cur,      \* the coroutine a worker runs
    pin,      \* worker_thread_id of each coroutine; before the spawn, what it will be
    st,       \* the state of each coroutine
    pend,     \* a push that has read the end of its queue, per pushing thread
    waker,    \* a schedule_global that has yet to call wake_one
    found,    \* the index in the global queue a worker has found
    raced     \* two threads were pushing into one local queue

vars == <<local, global, parked, evfd, wpc, cur, pin, st, pend, waker, found, raced>>

Workers == 0 .. N - 1
Timer == N              \* the timer thread as a pusher
Pushers == 0 .. N
Foreign == N + 1        \* a thread that is no worker
Threads == Workers \cup {Foreign}

States == {"new", "ready", "running", "asleep", "blocked", "done", "lost"}

TypeOK ==
    /\ local \in [Workers -> Seq(Coroutines)]
    /\ global \in Seq(Coroutines)
    /\ parked \subseteq 0 .. 7
    /\ evfd \subseteq Workers
    /\ wpc \in [Workers -> {"start", "wait", "events", "run", "take", "timers"}]
    /\ cur \in [Workers -> Coroutines \cup {Null}]
    /\ pin \in [Coroutines -> Threads \cup {Null}]
    /\ st \in [Coroutines -> States]
    /\ pend \in [Pushers -> {Null} \cup [co : Coroutines, q : Workers, end : Int]]
    /\ waker \in BOOLEAN
    /\ found \in [Workers -> Nat]
    /\ raced \in BOOLEAN

\* spawn_impl pins a coroutine to the first thread of the map of stacks, where the
\* workers are from the start.
Init ==
    /\ local = [w \in Workers |-> <<>>]
    /\ global = <<>>
    /\ parked = {}
    /\ evfd = {}
    /\ wpc = [w \in Workers |-> "start"]
    /\ cur = [w \in Workers |-> Null]
    /\ \E w \in Workers : pin = [c \in Coroutines |-> w]
    /\ st = [c \in Coroutines |-> "new"]
    /\ pend = [p \in Pushers |-> Null]
    /\ waker = FALSE
    /\ found = [w \in Workers |-> 0]
    /\ raced = FALSE

Bits(n) == {i \in 0 .. 7 : (n \div 2 ^ i) % 2 = 1}

-----------------------------------------------------------------------------
(* The queues.                                                             *)

PushGlobal(c) ==
    /\ ~waker
    /\ st' = [st EXCEPT ![c] = "ready"]
    /\ global' = Append(global, c)
    /\ waker' = TRUE

\* A coroutine is spawned, or unparked by a thread that is no worker.
ScheduleGlobal(c) ==
    /\ st[c] \in {"new", "blocked"}
    /\ PushGlobal(c)
    /\ UNCHANGED <<local, parked, evfd, wpc, cur, pin, pend, found, raced>>

\* The mask of worker w is N + w, not 2 ^ w.
WakeOne ==
    /\ waker
    /\ waker' = FALSE
    /\ IF parked # {} /\ Min(parked) < N
       THEN /\ parked' = parked \ Bits(N + Min(parked))
            /\ evfd' = evfd \cup {Min(parked)}
       ELSE UNCHANGED <<parked, evfd>>
    /\ UNCHANGED <<local, global, wpc, cur, pin, st, pend, found, raced>>

\* push, its first half: thread p reads the end of queue q.
PushRead(p, q, c) ==
    /\ pend[p] = Null
    /\ pend' = [pend EXCEPT ![p] = [co |-> c, q |-> q, end |-> Len(local[q])]]
    /\ st' = [st EXCEPT ![c] = "ready"]
    /\ raced' = (raced \/ \E o \in Pushers : pend[o] # Null /\ pend[o].q = q)

\* The second half.  A slot written meanwhile by another thread is overwritten;
\* behind the front the element is out of reach.
Pushed(s, e, c) == IF e >= 0 THEN Append(SubSeq(s, 1, Min({e, Len(s)})), c) ELSE <<>>

PushWrite(w) ==
    /\ pend[w] # Null
    /\ local' = [local EXCEPT ![w] = Pushed(@, pend[w].end, pend[w].co)]
    /\ pend' = [pend EXCEPT ![w] = Null]
    /\ UNCHANGED <<global, parked, evfd, wpc, cur, pin, st, waker, found, raced>>

-----------------------------------------------------------------------------
(* A worker: EventLoop::run, Selector::select and run_queued_tasks.        *)

Park(w) ==
    /\ wpc[w] \in {"start", "timers"}
    /\ cur[w] = Null /\ pend[w] = Null
    /\ parked' = parked \cup Bits(N + w)
    /\ wpc' = [wpc EXCEPT ![w] = "wait"]
    /\ UNCHANGED <<local, global, evfd, cur, pin, st, pend, waker, found, raced>>

\* epoll_wait has returned, which nobody else sees.  fetch_and(w): what remains of
\* the mask are the bits of the number w.
Unpark(w) ==
    /\ wpc[w] = "wait"
    /\ parked' = parked \cap Bits(w)
    /\ evfd' = evfd \ {w}
    /\ wpc' = [wpc EXCEPT ![w] = "events"]
    /\ UNCHANGED <<local, global, cur, pin, st, pend, waker, found, raced>>

EpollWake(w) == w \in evfd /\ Unpark(w)

\* Mutant: epoll_wait without a timeout.
EpollTimeoutNever(w) == FALSE /\ UNCHANGED vars

\* At the latest after one second, or when the next timer expires.
EpollTimeout(w) == Unpark(w)

\* An error of epoll_wait: select is called again.
EpollError(w) ==
    /\ wpc[w] = "wait"
    /\ parked' = parked \cup Bits(N + w)
    /\ UNCHANGED <<local, global, evfd, wpc, cur, pin, st, pend, waker, found, raced>>

Run(w, c) ==
    /\ cur' = [cur EXCEPT ![w] = c]
    /\ pin' = [pin EXCEPT ![c] = w]
    /\ st' = [st EXCEPT ![c] = "running"]

Idle(w) == wpc[w] = "run" /\ cur[w] = Null /\ pend[w] = Null

\* Popping moves the front towards the end a pending push has read.
PopLocal(w) ==
    /\ Idle(w)
    /\ local[w] # <<>>
    /\ Run(w, Head(local[w]))
    /\ local' = [local EXCEPT ![w] = Tail(@)]
    /\ pend' = IF pend[Timer] # Null /\ pend[Timer].q = w
               THEN [pend EXCEPT ![Timer].end = Max({@ - 1, -1})] ELSE pend
    /\ UNCHANGED <<global, parked, evfd, wpc, waker, found, raced>>

\* steal_global: the index of the first coroutine pinned to this worker.
Mine(w) == {i \in DOMAIN global : pin[global[i]] = w}

FindGlobal(w) ==
    /\ Idle(w)
    /\ local[w] = <<>>
    /\ Mine(w) # {}
    /\ found' = [found EXCEPT ![w] = Min(Mine(w))]
    /\ wpc' = [wpc EXCEPT ![w] = "take"]
    /\ UNCHANGED <<local, global, parked, evfd, cur, pin, st, pend, waker, raced>>

\* Mutant: what another worker owns is not put back.
TakeGlobalForgets(w) ==
    /\ wpc[w] = "take"
    /\ wpc' = [wpc EXCEPT ![w] = "run"]
    /\ found' = [found EXCEPT ![w] = 0]
    /\ IF found[w] > Len(global)
       THEN UNCHANGED <<global, cur, pin, st>>
       ELSE /\ global' = RemoveAt(global, found[w])
            /\ IF pin[global[found[w]]] = w
               THEN Run(w, global[found[w]])
               ELSE UNCHANGED <<cur, pin, st>>
    /\ UNCHANGED <<local, parked, evfd, pend, waker, raced>>

\* It removes by that index, although the queue may have changed: nothing, a
\* coroutine of its own, or one of another worker that it puts back at the end.
TakeGlobal(w) ==
    /\ wpc[w] = "take"
    /\ wpc' = [wpc EXCEPT ![w] = "run"]
    /\ found' = [found EXCEPT ![w] = 0]
    /\ IF found[w] > Len(global)
       THEN UNCHANGED <<global, cur, pin, st>>
       ELSE LET c == global[found[w]]
                rest == RemoveAt(global, found[w])
            IN IF pin[c] = w
               THEN Run(w, c) /\ global' = rest
               ELSE global' = Append(rest, c) /\ UNCHANGED <<cur, pin, st>>
    /\ UNCHANGED <<local, parked, evfd, pend, waker, raced>>

\* The re-check: the worker spins while the global queue is not empty.
RunQueuedTasksEnds(w) ==
    /\ Idle(w)
    /\ local[w] = <<>> /\ global = <<>>
    /\ wpc' = [wpc EXCEPT ![w] = "timers"]
    /\ UNCHANGED <<local, global, parked, evfd, cur, pin, st, pend, waker, found, raced>>

\* An event or an io timer of this selector: the coroutine that waits for it is
\* resumed here, and stays pinned where it was.
EventRuns(w, c) ==
    /\ wpc[w] \in {"events", "timers"}
    /\ cur[w] = Null /\ pend[w] = Null
    /\ st[c] = "blocked"
    /\ cur' = [cur EXCEPT ![w] = c]
    /\ st' = [st EXCEPT ![c] = "running"]
    /\ UNCHANGED <<local, global, parked, evfd, wpc, pin, pend, waker, found, raced>>

EventsDone(w) ==
    /\ wpc[w] = "events"
    /\ cur[w] = Null /\ pend[w] = Null
    /\ wpc' = [wpc EXCEPT ![w] = "run"]
    /\ UNCHANGED <<local, global, parked, evfd, cur, pin, st, pend, waker, found, raced>>

\* The coroutine that w runs unparks another one.
ScheduleLocal(w, c) ==
    /\ cur[w] # Null
    /\ st[c] = "blocked"
    /\ PushRead(w, w, c)
    /\ UNCHANGED <<local, global, parked, evfd, wpc, cur, pin, waker, found>>

Ends(c) == st' = [st EXCEPT ![c] = "done"] /\ pin' = [pin EXCEPT ![c] = Null]

\* run_coroutine returns: the coroutine has yielded, is blocked or has ended.
Yields(w) ==
    /\ cur[w] # Null /\ pend[w] = Null
    /\ cur' = [cur EXCEPT ![w] = Null]
    /\ \/ PushRead(w, w, cur[w]) /\ UNCHANGED pin
       \/ st' = [st EXCEPT ![cur[w]] = "blocked"] /\ UNCHANGED <<pin, pend, raced>>
       \/ Ends(cur[w]) /\ UNCHANGED <<pend, raced>>
    /\ UNCHANGED <<local, global, parked, evfd, wpc, waker, found>>

-----------------------------------------------------------------------------
(* A thread that is no worker runs a coroutine.                            *)

\* The run meets the workers where it ends: the coroutine is scheduled, sleeps, is
\* blocked or has ended.  get_stack has entered the thread into the map of stacks,
\* and any thread may now be the first for the coroutines still to be spawned.
ForeignRuns(c) ==
    /\ st[c] \in {"new", "blocked"}
    /\ \/ PushGlobal(c)
       \/ /\ st' \in {[st EXCEPT ![c] = s] : s \in {"blocked", "asleep", "done"}}
          /\ st'[c] = "asleep" => c \in Sleepers
          /\ UNCHANGED <<global, waker>>
    /\ pin' \in {[d \in Coroutines |-> IF st'[d] = "new" THEN t
                                       ELSE IF st'[d] = "done" THEN Null ELSE pin[d]] : t \in Threads}
    /\ UNCHANGED <<local, parked, evfd, wpc, cur, pend, found, raced>>

-----------------------------------------------------------------------------
(* Sleep::subscribe and the timer thread: timer_event_handler.             *)

Sleeps(w) ==
    /\ cur[w] \in Sleepers /\ pend[w] = Null
    /\ cur' = [cur EXCEPT ![w] = Null]
    /\ st' = [st EXCEPT ![cur[w]] = "asleep"]
    /\ UNCHANGED <<local, global, parked, evfd, wpc, pin, pend, waker, found, raced>>

\* A coroutine that is not pinned to a worker is dropped.
TimerExpires(c) ==
    /\ st[c] = "asleep"
    /\ IF pin[c] \in Workers
       THEN PushRead(Timer, pin[c], c)
       ELSE st' = [st EXCEPT ![c] = "lost"] /\ UNCHANGED <<pend, raced>>
    /\ UNCHANGED <<local, global, parked, evfd, wpc, cur, pin, waker, found>>

TimerPushes ==
    /\ pend[Timer] # Null
    /\ LET p == pend[Timer] IN
          /\ local' = [local EXCEPT ![p.q] = Pushed(@, p.end, p.co)]
          /\ evfd' = evfd \cup {p.q}
    /\ pend' = [pend EXCEPT ![Timer] = Null]
    /\ UNCHANGED <<global, parked, wpc, cur, pin, st, waker, found, raced>>

-----------------------------------------------------------------------------
Worker(w) ==
    \/ Park(w) \/ EpollWake(w) \/ EpollTimeout(w) \/ EventsDone(w)
    \/ PopLocal(w) \/ FindGlobal(w) \/ TakeGlobal(w) \/ RunQueuedTasksEnds(w)
    \/ PushWrite(w) \/ Yields(w) \/ Sleeps(w)

TimerThread == TimerPushes \/ \E c \in Coroutines : TimerExpires(c)

Next ==
    \/ \E w \in Workers : Worker(w) \/ EpollError(w)
    \/ \E w \in Workers, c \in Coroutines : EventRuns(w, c) \/ ScheduleLocal(w, c)
    \/ \E c \in Coroutines : ScheduleGlobal(c) \/ ForeignRuns(c)
    \/ TimerThread \/ WakeOne

\* The threads run, a coroutine gives its worker back, and epoll_wait, whose
\* failure is no step of Worker, does not fail for ever.
Fairness ==
    /\ \A w \in Workers : WF_vars(Worker(w))
    /\ WF_vars(TimerThread)
    /\ WF_vars(WakeOne)

Spec == Init /\ [][Next]_vars /\ Fairness

-----------------------------------------------------------------------------
\* In the global queue, and for no worker.
Stranded(c) == pin[c] = Foreign /\ \E i \in DOMAIN global : global[i] = c

\* What holds again and again: no coroutine is ready, or a worker runs one.  (Which
\* one is not promised: a worker prefers its local queue, so that a coroutine that
\* keeps yielding there keeps the global queue waiting.)  There are two exceptions:
\* a coroutine in the global queue that is pinned to no worker, and a push of the
\* timer thread into a local queue together with one of its owner, which may lose a
\* coroutine.
SomeRuns ==
    (\E c \in Coroutines : st[c] = "ready" /\ ~Stranded(c)) =>
        raced \/ \E w \in Workers : cur[w] # Null
=============================================================================
