----------------------------- MODULE TimerList ------------------------------
(***************************************************************************)
(* timeout_list.rs with std/queue/mpsc_list_v1.rs: timers of one duration  *)
(* (interval) share a queue, a heap holds one entry per queue in use, and  *)
(* the timer thread sleeps until the first entry expires.  A process is    *)
(* one call of add_timer, followed by del_timer if its owner deletes it.   *)
(* The memory of the nodes is not modelled.                                *)
(***************************************************************************)
EXTENDS Integers, Sequences, SequencesExt, FiniteSetsExt

CONSTANTS Timers,         \* the calls of add_timer; each makes one node
          Interval(_),    \* the duration of a timer
          Deleted,        \* timers that are deleted when add_timer has returned
          Lists,          \* the queue objects, enough of them
          MaxTime,        \* the clock stops here
          HashCap,        \* HASH_CAP
          Null

VARIABLES
    clock,
    map,       \* interval_map: from an interval to its queue
    wlock,     \* who holds the write lock of interval_map
    list,      \* the queues: nodes from the front, tail (the node taken last), in_use
    linked,    \* nodes whose predecessor's next points to them
    heap,      \* timer_bh
    wakeup,    \* the cell holds the handle of the timer thread
    token,     \* the timer thread has been unparked
    remove_list,
    pc, time, my, prev,         \* a call: its deadline, its queue, its predecessor
    tpc, now, entry, until,     \* the timer thread; until: when its park times out
    fired

callVars == <<pc, time, my, prev>>
threadVars == <<tpc, now, entry, until>>
vars == <<clock, map, wlock, list, linked, heap, wakeup, token, remove_list,
          callVars, threadVars, fired>>

Forever == MaxTime + 1
Intervals == {Interval(t) : t \in Timers}
Entries == [time : Int, list : Lists, interval : Intervals]

TypeOK ==
    /\ clock \in 0 .. MaxTime /\ now \in 0 .. MaxTime /\ until \in 0 .. Forever
    /\ map \in [Intervals -> Lists \cup {Null}]
    /\ list \in [Lists -> [q : Seq(Timers), tail : Timers \cup {Null}, in_use : Nat]]
    /\ linked \subseteq Timers /\ fired \subseteq Timers /\ remove_list \subseteq Timers
    /\ heap \subseteq Entries
    /\ entry \in Entries \cup {Null}
    /\ wakeup \in BOOLEAN /\ token \in BOOLEAN

Init ==
    /\ clock = 0 /\ now = 0
    /\ map = [i \in Intervals |-> Null]
    /\ wlock = Null
    /\ list = [l \in Lists |-> [q |-> <<>>, tail |-> Null, in_use |-> 0]]
    /\ linked = {} /\ fired = {} /\ remove_list = {}
    /\ heap = {}
    /\ wakeup = FALSE /\ token = FALSE
    /\ pc = [t \in Timers |-> "new"]
    /\ time = [t \in Timers |-> 0]
    /\ my = [t \in Timers |-> Null]
    /\ prev = [t \in Timers |-> Null]
    /\ tpc = "remove" /\ entry = Null /\ until = Forever

Goto(t, l) == pc' = [pc EXCEPT ![t] = l]

Tick ==
    /\ clock < MaxTime
    /\ clock' = clock + 1
    /\ UNCHANGED <<map, wlock, list, linked, heap, wakeup, token, remove_list,
                   callVars, threadVars, fired>>

-----------------------------------------------------------------------------
(* TimeOutList::add_timer.                                                 *)

\* The deadline is fixed before the queue is found: it must be in reach.
Now(t) ==
    /\ pc[t] = "new"
    /\ clock + Interval(t) <= MaxTime
    /\ time' = [time EXCEPT ![t] = clock + Interval(t)]
    /\ Goto(t, "lookup")
    /\ UNCHANGED <<clock, map, wlock, list, linked, heap, wakeup, token, remove_list,
                   my, prev, threadVars, fired>>

\* Under the read lock.
Lookup(t) ==
    /\ pc[t] = "lookup"
    /\ wlock = Null
    /\ my' = [my EXCEPT ![t] = map[Interval(t)]]
    /\ Goto(t, IF map[Interval(t)] = Null THEN "write" ELSE "swap")
    /\ UNCHANGED <<clock, map, wlock, list, linked, heap, wakeup, token, remove_list,
                   time, prev, threadVars, fired>>

\* Under the write lock, held to the end when the queue has appeared meanwhile.
Relookup(t) ==
    /\ pc[t] = "write"
    /\ wlock = Null
    /\ map[Interval(t)] # Null
    /\ wlock' = t
    /\ my' = [my EXCEPT ![t] = map[Interval(t)]]
    /\ Goto(t, "swap")
    /\ UNCHANGED <<clock, map, list, linked, heap, wakeup, token, remove_list,
                   time, prev, threadVars, fired>>

\* A queue that was never in the map.
Fresh == CHOOSE l \in Lists : \A u \in Timers : my[u] # l

\* A new queue is filled before it is in the map; its timer is always the head.
NewQueue(t) ==
    /\ pc[t] = "write"
    /\ wlock = Null
    /\ map[Interval(t)] = Null
    /\ my' = [my EXCEPT ![t] = Fresh]
    /\ list' = [list EXCEPT ![Fresh].q = <<t>>]
    /\ map' = [map EXCEPT ![Interval(t)] = Fresh]
    /\ linked' = linked \cup {t}
    /\ Goto(t, "install")
    /\ UNCHANGED <<clock, wlock, heap, wakeup, token, remove_list, time, prev,
                   threadVars, fired>>

Unlocked(t) == wlock' = IF wlock = t THEN Null ELSE wlock

(* Queue::push: swap of head, the link, and the look at tail.              *)

Swap(t) ==
    /\ pc[t] = "swap"
    /\ LET l == list[my[t]] IN
          prev' = [prev EXCEPT ![t] = IF l.q = <<>> THEN l.tail ELSE Last(l.q)]
    /\ list' = [list EXCEPT ![my[t]].q = Append(@, t)]
    /\ Goto(t, "link")
    /\ UNCHANGED <<clock, map, wlock, linked, heap, wakeup, token, remove_list,
                   time, my, threadVars, fired>>

Link(t) ==
    /\ pc[t] = "link"
    /\ linked' = linked \cup {t}
    /\ Goto(t, "is_head")
    /\ UNCHANGED <<clock, map, wlock, list, heap, wakeup, token, remove_list,
                   time, my, prev, threadVars, fired>>

\* Mutant: nobody finds that the queue was empty.
IsHeadNever(t) ==
    /\ pc[t] = "is_head"
    /\ prev' = [prev EXCEPT ![t] = Null]
    /\ Goto(t, "returned")
    /\ Unlocked(t)
    /\ UNCHANGED <<clock, map, list, linked, heap, wakeup, token, remove_list,
                   time, my, threadVars, fired>>

IsHead(t) ==
    /\ pc[t] = "is_head"
    /\ LET is_head == list[my[t]].tail = prev[t] IN
          /\ Goto(t, IF is_head THEN "install" ELSE "returned")
          /\ IF is_head THEN UNCHANGED wlock ELSE Unlocked(t)
    /\ prev' = [prev EXCEPT ![t] = Null]
    /\ UNCHANGED <<clock, map, list, linked, heap, wakeup, token, remove_list,
                   time, my, threadVars, fired>>

\* install_timer_bh: whoever raises in_use from zero puts the queue on the heap.
Install(t) ==
    /\ pc[t] = "install"
    /\ list' = [list EXCEPT ![my[t]].in_use = @ + 1]
    /\ Goto(t, IF list[my[t]].in_use = 0 THEN "heap" ELSE "wake")
    /\ IF list[my[t]].in_use = 0 THEN UNCHANGED wlock ELSE Unlocked(t)
    /\ UNCHANGED <<clock, map, linked, heap, wakeup, token, remove_list,
                   time, my, prev, threadVars, fired>>

InstallHeap(t) ==
    /\ pc[t] = "heap" /\ tpc # "store"
    /\ heap' = heap \cup {[time |-> time[t], list |-> my[t], interval |-> Interval(t)]}
    /\ Goto(t, "wake")
    /\ Unlocked(t)
    /\ UNCHANGED <<clock, map, list, linked, wakeup, token, remove_list,
                   time, my, prev, threadVars, fired>>

\* TimerThread::add_timer and del_timer: take the handle and unpark.
UnparkTimerThread == wakeup' = FALSE /\ token' = (token \/ wakeup)

Wake(t) ==
    /\ pc[t] = "wake"
    /\ UnparkTimerThread
    /\ Goto(t, "returned")
    /\ UNCHANGED <<clock, map, wlock, list, linked, heap, remove_list,
                   time, my, prev, threadVars, fired>>

DelTimer(t) ==
    /\ pc[t] = "returned" /\ t \in Deleted
    /\ remove_list' = remove_list \cup {t}
    /\ Goto(t, "del_wake")
    /\ UNCHANGED <<clock, map, wlock, list, linked, heap, wakeup, token,
                   time, my, prev, threadVars, fired>>

DelWake(t) ==
    /\ pc[t] = "del_wake"
    /\ UnparkTimerThread
    /\ Goto(t, "deleted")
    /\ UNCHANGED <<clock, map, wlock, list, linked, heap, remove_list,
                   time, my, prev, threadVars, fired>>

-----------------------------------------------------------------------------
(* The timer thread: TimerThread::run and schedule_timer.                  *)

\* Entry::remove: the last node stays, it would be unsafe to unlink it.
Removed(q, t) ==
    IF \E i \in 1 .. Len(q) - 1 : q[i] = t /\ q[i + 1] \in linked
    THEN SelectSeq(q, LAMBDA u : u # t) ELSE q

RemoveDeleted ==
    /\ tpc = "remove"
    /\ \E t \in remove_list :
          /\ remove_list' = remove_list \ {t}
          /\ list' = [list EXCEPT ![my[t]].q = Removed(@, t)]
    /\ UNCHANGED <<clock, map, wlock, linked, heap, wakeup, token, callVars,
                   threadVars, fired>>

Register ==
    /\ tpc = "remove" /\ remove_list = {}
    /\ wakeup' = TRUE
    /\ tpc' = "recheck"
    /\ UNCHANGED <<clock, map, wlock, list, linked, heap, token, remove_list,
                   callVars, now, entry, until, fired>>

Recheck ==
    /\ tpc = "recheck"
    /\ IF remove_list # {} THEN UnparkTimerThread ELSE UNCHANGED <<wakeup, token>>
    /\ now' = clock
    /\ tpc' = "peek"
    /\ UNCHANGED <<clock, map, wlock, list, linked, heap, remove_list, callVars,
                   entry, until, fired>>

FirstEntry == CHOOSE e \in heap : \A f \in heap : e.time <= f.time

\* The heap is locked until StoreInUse.  Without an entry that has expired now and
\* entry go out of scope, and the park that follows lasts as long as the first entry
\* had to go at now, within what is left of the clock.
PopHeap ==
    /\ tpc = "peek"
    /\ IF heap # {} /\ FirstEntry.time <= now
       THEN /\ entry' = FirstEntry /\ heap' = heap \ {FirstEntry}
            /\ tpc' = "store" /\ UNCHANGED <<now, until>>
       ELSE /\ until' = IF heap = {} THEN Forever
                        ELSE Min({MaxTime, clock + FirstEntry.time - now})
            /\ now' = 0 /\ entry' = Null
            /\ tpc' = "park" /\ UNCHANGED heap
    /\ UNCHANGED <<clock, map, wlock, list, linked, wakeup, token, remove_list,
                   callVars, fired>>

StoreInUse ==
    /\ tpc = "store"
    /\ list' = [list EXCEPT ![entry.list].in_use = 0]
    /\ tpc' = "pop"
    /\ UNCHANGED <<clock, map, wlock, linked, heap, wakeup, token, remove_list,
                   callVars, now, entry, until, fired>>

Queue == list[entry.list]

\* Queue::pop_if spins until the first node is linked.
PopIf ==
    /\ tpc = "pop"
    /\ Queue.q # <<>> /\ Head(Queue.q) \in linked
    /\ LET t == Head(Queue.q) IN
          IF time[t] <= now
          THEN /\ list' = [list EXCEPT ![entry.list].q = Tail(@), ![entry.list].tail = t]
               /\ fired' = fired \cup {t}
               /\ UNCHANGED tpc
          ELSE tpc' = "peek_list" /\ UNCHANGED <<list, fired>>
    /\ UNCHANGED <<clock, map, wlock, linked, heap, wakeup, token, remove_list,
                   callVars, now, entry, until>>

PopIfEmpty ==
    /\ tpc = "pop"
    /\ Queue.q = <<>>
    /\ tpc' = "peek_list"
    /\ UNCHANGED <<clock, map, wlock, list, linked, heap, wakeup, token, remove_list,
                   callVars, now, entry, until, fired>>

Peek ==
    /\ tpc = "peek_list"
    /\ IF Queue.q = <<>> THEN tpc' = "empty"
       ELSE Head(Queue.q) \in linked /\ tpc' = "reinstall"
    /\ UNCHANGED <<clock, map, wlock, list, linked, heap, wakeup, token, remove_list,
                   callVars, now, entry, until, fired>>

\* Mutant: the queue is left off the heap although it is not empty.
ReinstallNever ==
    /\ tpc = "reinstall"
    /\ tpc' = "peek"
    /\ UNCHANGED <<clock, map, wlock, list, linked, heap, wakeup, token, remove_list,
                   callVars, now, entry, until, fired>>

Reinstall ==
    /\ tpc = "reinstall"
    /\ list' = [list EXCEPT ![entry.list].in_use = @ + 1]
    /\ tpc' = IF Queue.in_use = 0 THEN "repush" ELSE "peek"
    /\ UNCHANGED <<clock, map, wlock, linked, heap, wakeup, token, remove_list,
                   callVars, now, entry, until, fired>>

Repush ==
    /\ tpc = "repush"
    /\ Head(Queue.q) \in linked
    /\ heap' = heap \cup {[entry EXCEPT !.time = time[Head(Queue.q)]]}
    /\ tpc' = "peek"
    /\ UNCHANGED <<clock, map, wlock, list, linked, wakeup, token, remove_list,
                   callVars, now, entry, until, fired>>

\* Under the write lock, the queue is empty or has been filled meanwhile.
EmptyQueue ==
    /\ tpc = "empty"
    /\ wlock = Null
    /\ IF Queue.q = <<>>
       THEN wlock' = "timer" /\ tpc' = "unmap" /\ UNCHANGED list
       ELSE /\ list' = [list EXCEPT ![entry.list].in_use = @ + 1]
            /\ tpc' = IF Queue.in_use = 0 THEN "repush" ELSE "peek"
            /\ UNCHANGED wlock
    /\ UNCHANGED <<clock, map, linked, heap, wakeup, token, remove_list, callVars,
                   now, entry, until, fired>>

\* A call that found the queue before may yet push to it.
Unmap ==
    /\ tpc = "unmap"
    /\ map' = IF Cardinality({i \in Intervals : map[i] # Null}) > HashCap
              THEN [map EXCEPT ![entry.interval] = Null] ELSE map
    /\ wlock' = Null
    /\ tpc' = "peek"
    /\ UNCHANGED <<clock, list, linked, heap, wakeup, token, remove_list, callVars,
                   now, entry, until, fired>>

\* park or park_timeout.
ParkReturns ==
    /\ tpc = "park"
    /\ token \/ until <= clock
    /\ token' = FALSE
    /\ until' = Forever
    /\ tpc' = "remove"
    /\ UNCHANGED <<clock, map, wlock, list, linked, heap, wakeup, remove_list,
                   callVars, now, entry, fired>>

-----------------------------------------------------------------------------
Call(t) ==
    \/ Now(t) \/ Lookup(t) \/ Relookup(t) \/ NewQueue(t) \/ Swap(t) \/ Link(t) \/ IsHead(t)
    \/ Install(t) \/ InstallHeap(t) \/ Wake(t) \/ DelTimer(t) \/ DelWake(t)

Thread ==
    \/ RemoveDeleted \/ Register \/ Recheck \/ PopHeap \/ StoreInUse \/ PopIf
    \/ PopIfEmpty \/ Peek \/ Reinstall \/ Repush \/ EmptyQueue \/ Unmap \/ ParkReturns

Next == Tick \/ Thread \/ \E t \in Timers : Call(t)

\* Time passes, and the threads run.
Fairness == WF_vars(Tick) /\ WF_vars(Thread) /\ \A t \in Timers : WF_vars(Call(t))

Spec == Init /\ [][Next]_vars /\ Fairness

-----------------------------------------------------------------------------
\* Where every behaviour comes to: the timers that were added have fired.
AllFired == \A t \in Timers \ Deleted : pc[t] # "new" => t \in fired
=============================================================================
