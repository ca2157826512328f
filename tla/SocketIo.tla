------------------------------ MODULE SocketIo ------------------------------
(***************************************************************************)
(* The unix I/O of coroutines (io/sys/unix, net, os/unix/net.rs): one file *)
(* descriptor with its EventData, the selector thread the descriptor       *)
(* belongs to (descriptor modulo selectors), other worker threads, and the *)
(* coroutines that use the descriptor one after the other, each of which   *)
(* may be cancelled.  A worker thread runs the coroutine and, when the     *)
(* coroutine yields, the subscribe of its event source; the coroutine may  *)
(* be resumed by another thread before subscribe has returned.  The        *)
(* selector thread is a worker that also handles epoll events and expired  *)
(* timers.                                                                 *)
(***************************************************************************)
EXTENDS Integers

CONSTANTS Sel,         \* the selector thread of the descriptor
          Workers,     \* the other worker threads
          Canceller,   \* the thread that calls Coroutine::cancel
          System,      \* "epoll" or "kqueue"
          MaxAvail,    \* bound on what the kernel has ready
          Timers,      \* bound: the timer entries that are in use at one time
          Null

VARIABLES
    ev,       \* EventData: io_flag, co (is the coroutine in it), timer (Null: None)
    armed,    \* entries of the timer list whose event_data is not null
    alive,    \* "open", "closed" (in free_ev) or "freed"
    cancel,   \* Cancel of the coroutine: state (the cancel bit) and io
    para,     \* the result a waker has set for the coroutine
    kernel,   \* what the kernel has: avail, and an edge epoll has not reported
    op,       \* its operation, or NoOp: is it wait_io, timed, can it be cancelled
    pc,       \* where the coroutine is
    batch,    \* events of the descriptor the selector has yet to handle
    th,       \* where each thread is, with the timer it deals with
    dangling  \* the close left an entry armed whose handle was not in timer any more

vars == <<ev, armed, alive, cancel, para, kernel, op, pc, batch, th, dangling>>

Hosts == Workers \cup {Sel}
Threads == Hosts \cup {Canceller}

-----------------------------------------------------------------------------
(* The event sources.  first: what happens before the first yield; timed:  *)
(* whether a timer may be set; cancel: whether subscribe registers the     *)
(* EventData with the Cancel of the coroutine.                             *)

Source(timed, cancels) == [first |-> "yield", timed |-> timed, cancel |-> cancels]

SocketRead == Source(BOOLEAN, TRUE)
SocketWrite == Source(BOOLEAN, FALSE)
SocketWriteVectored == Source(BOOLEAN, FALSE)
TcpListenerAccept == Source({FALSE}, TRUE)
UdpSendTo == Source(BOOLEAN, FALSE)
UdpRecvFrom == Source(BOOLEAN, TRUE)
UnixSendTo == Source(BOOLEAN, FALSE)
UnixRecvFrom == Source(BOOLEAN, TRUE)
UnixListenerAccept == Source({FALSE}, TRUE)
TcpStreamConnect == Source(BOOLEAN, TRUE)
UnixStreamConnect == Source({TRUE}, TRUE)
RawIoBlock == Source({FALSE}, TRUE)

(* The calls of the API: most reset the flag and try the system call       *)
(* before they yield, connect issues its request, wait_io looks at the     *)
(* flag.                                                                   *)

Trying(s) == [s EXCEPT !.first = "try"]
Connecting(s) == [s EXCEPT !.first = "connect"]

TcpRead == Trying(SocketRead)
TcpWrite == Trying(SocketWrite)
TcpWriteVectored == Trying(SocketWriteVectored)
TcpAccept == Trying(TcpListenerAccept)
TcpConnect == [Connecting(TcpStreamConnect) EXCEPT !.timed = {FALSE}]
TcpConnectTimeout == [Connecting(TcpStreamConnect) EXCEPT !.timed = {TRUE}]
UdpSocketSendTo == Trying(UdpSendTo)
UdpSocketRecvFrom == Trying(UdpRecvFrom)
UdpSocketSend == Trying(SocketWrite)
UdpSocketRecv == Trying(SocketRead)
CoIoRead == Trying(SocketRead)
CoIoWrite == Trying(SocketWrite)
UnixConnect == Connecting(UnixStreamConnect)
UnixAccept == Trying(UnixListenerAccept)
UnixDatagramRecvFrom == Trying(UnixRecvFrom)
UnixDatagramRecv == Trying(SocketRead)
UnixDatagramSendTo == Trying(UnixSendTo)
UnixDatagramSend == Trying(SocketWrite)
WaitIo == [RawIoBlock EXCEPT !.first = "wait"]

Calls ==
    {TcpRead, TcpWrite, TcpWriteVectored, TcpAccept, TcpConnect, TcpConnectTimeout,
     UdpSocketSendTo, UdpSocketRecvFrom, UdpSocketSend, UdpSocketRecv, CoIoRead,
     CoIoWrite, UnixConnect, UnixAccept, UnixDatagramRecvFrom, UnixDatagramRecv,
     UnixDatagramSendTo, UnixDatagramSend, WaitIo}

-----------------------------------------------------------------------------
At(l) == [at |-> l, id |-> Null]
Goto(t, l) == th' = [th EXCEPT ![t] = At(l)]

ThreadLabels ==
    {"free", "co", "timer", "store", "swap", "check", "check_write", "schedule",
     "set_io", "recheck", "cancel", "cancel_io", "cancel_co", "event", "take", "fire",
     "panicked"}

TypeOK ==
    /\ ev \in [io_flag : BOOLEAN, co : BOOLEAN, timer : Timers \cup {Null}]
    /\ armed \subseteq Timers
    /\ alive \in {"open", "closed", "freed"}
    /\ cancel \in [state : BOOLEAN, io : BOOLEAN]
    /\ para \in {"none", "timeout", "canceled"}
    /\ kernel \in [avail : 0 .. MaxAvail, edge : BOOLEAN]
    /\ op \in [wait : BOOLEAN, timed : BOOLEAN, cancel : BOOLEAN]
    /\ pc \in {"idle", "first", "look", "yield", "suspended", "ready", "clear",
               "result", "call", "again", "panicked", "gone", "aborted"}
    /\ batch \in 0 .. 1
    /\ th \in [Threads -> [at : ThreadLabels, id : Timers \cup {Null}]]
    /\ dangling \in BOOLEAN

NoOp == [wait |-> FALSE, timed |-> FALSE, cancel |-> FALSE]

\* EventData::new
NewEventData == [io_flag |-> FALSE, co |-> FALSE, timer |-> Null]

Init ==
    /\ ev = NewEventData
    /\ armed = {}
    /\ alive = "open"
    /\ cancel = [state |-> FALSE, io |-> FALSE]
    /\ para = "none"
    /\ kernel = [avail |-> 0, edge |-> FALSE]
    /\ op = NoOp
    /\ pc = "idle"
    /\ batch = 0
    /\ \E h \in Hosts : th = [t \in Threads |-> At(IF t = h THEN "co" ELSE "free")]
    /\ dangling = FALSE

\* The thread that runs the coroutine.
host == CHOOSE t \in Hosts : th[t].at = "co"

\* A thread takes work from its queues; the selector, between two batches.
Free(t) == th[t].at = "free" /\ (t = Sel => batch = 0)

\* The operation goes on unless the step has ended it.
KeepsOp == op' = IF pc' \in {"idle", "panicked"} THEN NoOp ELSE op

\* yield_back: check_cancel, or clear_cancel_bit for wait_io.
YieldBack(p, next) ==
    IF op.wait
    THEN /\ cancel' = [cancel EXCEPT !.state = FALSE]
         /\ para' = p
         /\ pc' = next
    ELSE /\ UNCHANGED cancel
         /\ IF cancel.state
            THEN para' = "none" /\ pc' = "panicked"
            ELSE para' = p /\ pc' = next

\* Thread t continues the coroutine, p in its para, which first calls yield_back.
RunCoroutine(t, p) ==
    /\ YieldBack(p, "clear")
    /\ KeepsOp
    /\ Goto(t, "co")

\* Entry::with_mut_data panics when the entry has been popped.
Popped == ev.timer \notin armed \cup {Null}

\* Thread t has taken the coroutine: it also takes the timer and makes its entry
\* void, then continues the coroutine, which is lost if the thread panics.
TakeCo(t) ==
    /\ ev' = [ev EXCEPT !.co = FALSE, !.timer = Null]
    /\ armed' = armed \ {ev.timer}
    /\ IF Popped
       THEN Goto(t, "panicked") /\ pc' = "gone" /\ UNCHANGED <<cancel, para, op>>
       ELSE RunCoroutine(t, para)

-----------------------------------------------------------------------------
(* The coroutine: the call, yield_with and the loop of done.               *)

\* A connect has a descriptor of its own, so that nothing old refers to it.
Fresh == ev = [NewEventData EXCEPT !.io_flag = ev.io_flag] /\ armed = {} /\ th[Sel].at # "fire"

\* What the coroutine does in call c.
Ops(c) == [wait : {c.first = "wait"}, timed : c.timed, cancel : {c.cancel}]

\* The readiness in question is the one of the direction this call needs.  The
\* user of wait_io calls reset_io and makes the system call first.
Begin ==
    /\ pc = "idle" /\ alive = "open"
    /\ op' \in UNION {Ops(c) : c \in {c \in Calls : c.first = "connect" => Fresh}}
    /\ ev' = [ev EXCEPT !.io_flag = FALSE]
    /\ kernel' \in [avail : 0 .. MaxAvail, edge : {kernel.edge}]
    /\ pc' = "first"
    /\ UNCHANGED <<armed, alive, cancel, para, th, batch>>

\* The system call succeeds, fails for good, or would block.
SystemCall(wouldBlock) ==
    \/ /\ kernel.avail > 0
       /\ pc' = "idle"
       /\ kernel' = [kernel EXCEPT !.avail = @ - 1]
    \/ /\ kernel.avail = 0
       /\ pc' \in {wouldBlock, "idle"}
       /\ UNCHANGED kernel

First ==
    /\ pc = "first"
    /\ SystemCall(IF op.wait THEN "look" ELSE "yield")
    /\ KeepsOp
    /\ UNCHANGED <<ev, armed, alive, cancel, para, th, batch>>

Look ==
    /\ pc = "look"
    /\ pc' = IF ev.io_flag THEN "idle" ELSE "yield"
    /\ KeepsOp
    /\ UNCHANGED <<ev, armed, alive, cancel, para, kernel, th, batch>>

Yield ==
    /\ pc = "yield"
    /\ IF cancel.state
       THEN /\ YieldBack("canceled", IF op.wait THEN "idle" ELSE "result")
            /\ UNCHANGED th
       ELSE /\ pc' = "suspended"
            /\ Goto(host, IF op.timed THEN "timer" ELSE "swap")
            /\ UNCHANGED <<cancel, para>>
    /\ KeepsOp
    /\ UNCHANGED <<ev, armed, alive, kernel, batch>>

Clear ==
    /\ pc = "clear"
    /\ cancel' = [cancel EXCEPT !.io = FALSE]
    /\ pc' = IF op.wait THEN "idle" ELSE "result"
    /\ KeepsOp
    /\ UNCHANGED <<ev, armed, alive, para, kernel, th, batch>>

\* co_io_result, then the flag is cleared for the next try.
Result ==
    /\ pc = "result"
    /\ para' = "none"
    /\ IF para # "none"
       THEN pc' = "idle" /\ UNCHANGED ev
       ELSE pc' = "call" /\ ev' = [ev EXCEPT !.io_flag = FALSE]
    /\ KeepsOp
    /\ UNCHANGED <<armed, alive, cancel, kernel, th, batch>>

Call ==
    /\ pc = "call"
    /\ SystemCall("again")
    /\ KeepsOp
    /\ UNCHANGED <<ev, armed, alive, cancel, para, th, batch>>

Again ==
    /\ pc = "again"
    /\ pc' = IF ev.io_flag THEN "result" ELSE "yield"
    /\ ev' = [ev EXCEPT !.io_flag = FALSE]
    /\ UNCHANGED <<armed, alive, cancel, para, kernel, op, th, batch>>

\* Between two calls the coroutine may yield to another thread (yield_now).
YieldNow ==
    /\ pc = "idle"
    /\ pc' = IF cancel.state THEN "panicked" ELSE "idle"
    /\ \E t \in Hosts :
          /\ Free(t)
          /\ th' = [th EXCEPT ![host] = At("free"), ![t] = At("co")]
    /\ UNCHANGED <<ev, armed, alive, cancel, para, kernel, op, batch>>

\* A cancelled coroutine ends; another one goes on with the descriptor.
Handover ==
    /\ pc = "panicked"
    /\ th[Canceller].at = "free"
    /\ pc' = "idle"
    /\ cancel' = [state |-> FALSE, io |-> FALSE]
    /\ para' = "none"
    /\ UNCHANGED <<ev, armed, alive, kernel, op, th, batch>>

\* Selector::del_fd: the kernel forgets the descriptor.  Events the selector has
\* already got are still handled.
EpollDelFd == [kernel EXCEPT !.edge = FALSE]
KqueueDelFd == [kernel EXCEPT !.edge = FALSE]
Deregistered == IF System = "epoll" THEN EpollDelFd ELSE KqueueDelFd

\* Mutant: the EventData is freed as soon as it is deregistered.
DelFdFrees ==
    /\ pc \in {"idle", "panicked"} /\ alive = "open"
    /\ ev' = [ev EXCEPT !.timer = Null]
    /\ armed' = armed \ {ev.timer}
    /\ dangling' = (armed \ {ev.timer} # {})
    /\ kernel' = Deregistered
    /\ alive' = "freed"
    /\ pc' = "gone"
    /\ Goto(host, "free")
    /\ UNCHANGED <<cancel, para, op, batch>>

\* IoData::drop; if it panics the EventData is dropped with it.
DelFd ==
    /\ pc \in {"idle", "panicked"} /\ alive = "open"
    /\ ev' = [ev EXCEPT !.timer = Null]
    /\ armed' = armed \ {ev.timer}
    /\ dangling' = (armed \ {ev.timer} # {})
    /\ kernel' = Deregistered
    /\ IF Popped THEN alive' = "freed" /\ pc' = "aborted"
       ELSE alive' = "closed" /\ pc' = "gone"
    /\ Goto(host, "free")
    /\ UNCHANGED <<cancel, para, op, batch>>

-----------------------------------------------------------------------------
(* subscribe, on the thread that ran the coroutine.                        *)

\* Something still refers to timer i.
InUse(i) == i \in armed \cup {ev.timer} \cup {th[t].id : t \in Threads}

\* add_io_timer: the entry is in the list before its handle is stored.
AddIoTimer(t) ==
    /\ th[t].at = "timer"
    /\ \E i \in Timers :
          /\ ~InUse(i)
          /\ armed' = armed \cup {i}
          /\ th' = [th EXCEPT ![t] = [at |-> "store", id |-> i]]
    /\ UNCHANGED <<ev, alive, cancel, para, kernel, op, pc, batch>>

StoreTimer(t) ==
    /\ th[t].at = "store"
    /\ ev' = [ev EXCEPT !.timer = th[t].id]
    /\ Goto(t, "swap")
    /\ UNCHANGED <<armed, alive, cancel, para, kernel, op, pc, batch>>

SwapCo(t) ==
    /\ th[t].at = "swap"
    /\ ev' = [ev EXCEPT !.co = TRUE]
    /\ Goto(t, IF op.cancel THEN "check" ELSE "check_write")
    /\ UNCHANGED <<armed, alive, cancel, para, kernel, op, pc, batch>>

\* Mutant: subscribe does not look at the flag again.
CheckFlagNever(t) ==
    /\ th[t].at \in {"check", "check_write"}
    /\ Goto(t, IF th[t].at = "check" THEN "set_io" ELSE "free")
    /\ UNCHANGED <<ev, armed, alive, cancel, para, kernel, op, pc, batch>>

CheckFlag(t) ==
    /\ th[t].at \in {"check", "check_write"}
    /\ Goto(t, IF ev.io_flag THEN "schedule"
               ELSE IF th[t].at = "check" THEN "set_io" ELSE "free")
    /\ UNCHANGED <<ev, armed, alive, cancel, para, kernel, op, pc, batch>>

\* EventData::schedule
Schedule(t) ==
    /\ th[t].at = "schedule"
    /\ IF ev.co
       THEN TakeCo(t)
       ELSE Goto(t, "free") /\ UNCHANGED <<ev, armed, cancel, para, op, pc>>
    /\ UNCHANGED <<alive, kernel, batch>>

SetIo(t) ==
    /\ th[t].at = "set_io"
    /\ cancel' = [cancel EXCEPT !.io = TRUE]
    /\ Goto(t, "recheck")
    /\ UNCHANGED <<ev, armed, alive, para, kernel, op, pc, batch>>

\* Mutant: subscribe does not look at the cancel bit again.
RecheckNever(t) ==
    /\ th[t].at = "recheck"
    /\ Goto(t, "free")
    /\ UNCHANGED <<ev, armed, alive, cancel, para, kernel, op, pc, batch>>

Recheck(t) ==
    /\ th[t].at = "recheck"
    /\ Goto(t, IF cancel.state THEN "cancel" ELSE "free")
    /\ UNCHANGED <<ev, armed, alive, cancel, para, kernel, op, pc, batch>>

Subscribe(t) ==
    \/ AddIoTimer(t) \/ StoreTimer(t) \/ SwapCo(t) \/ CheckFlag(t) \/ Schedule(t)
    \/ SetIo(t) \/ Recheck(t)

-----------------------------------------------------------------------------
(* Cancel::cancel, and CancelIoImpl::cancel.                               *)

CallCancel ==
    /\ th[Canceller].at = "free"
    /\ ~cancel.state /\ pc \notin {"panicked", "gone", "aborted"}
    /\ cancel' = [cancel EXCEPT !.state = TRUE]
    /\ Goto(Canceller, "cancel_io")
    /\ UNCHANGED <<ev, armed, alive, para, kernel, op, pc, batch>>

\* The call in subscribe, which has seen the bit set.
SetCancelBit(t) ==
    /\ th[t].at = "cancel"
    /\ cancel' = [cancel EXCEPT !.state = TRUE]
    /\ Goto(t, "cancel_io")
    /\ UNCHANGED <<ev, armed, alive, para, kernel, op, pc, batch>>

TakeIo(t) ==
    /\ th[t].at = "cancel_io"
    /\ cancel' = [cancel EXCEPT !.io = FALSE]
    /\ Goto(t, IF cancel.io THEN "cancel_co" ELSE "free")
    /\ UNCHANGED <<ev, armed, alive, para, kernel, op, pc, batch>>

\* The coroutine is queued; its timer stays armed.
CancelCo(t) ==
    /\ th[t].at = "cancel_co"
    /\ pc' = IF ev.co THEN "ready" ELSE pc
    /\ ev' = [ev EXCEPT !.co = FALSE]
    /\ Goto(t, "free")
    /\ UNCHANGED <<armed, alive, cancel, para, kernel, op, batch>>

Cancel(t) == SetCancelBit(t) \/ TakeIo(t) \/ CancelCo(t)

RunReady(t) ==
    /\ Free(t)
    /\ pc = "ready"
    /\ RunCoroutine(t, para)
    /\ UNCHANGED <<ev, armed, alive, kernel, batch>>

-----------------------------------------------------------------------------
(* Selector::select, and the kernel.                                       *)

\* What arrives between two operations is what Begin finds.
Arrive ==
    /\ alive = "open" /\ pc \notin {"idle", "panicked"}
    /\ kernel.avail < MaxAvail
    /\ kernel' = [avail |-> kernel.avail + 1, edge |-> TRUE]
    /\ UNCHANGED <<ev, armed, alive, cancel, para, op, pc, th, batch>>

\* The events a registered descriptor may have in one batch: one for epoll, one for
\* each filter of kqueue.
EpollAddFd == 1
KqueueAddFd == 2
Events == IF System = "epoll" THEN EpollAddFd ELSE KqueueAddFd

\* While the descriptor is open an edge of the other direction may come at any time.
Wait ==
    /\ Free(Sel)
    /\ kernel.edge \/ alive = "open"
    /\ kernel' = [kernel EXCEPT !.edge = FALSE]
    /\ batch' \in 0 .. Events - 1
    /\ Goto(Sel, "event")
    /\ UNCHANGED <<ev, armed, alive, cancel, para, op, pc>>

\* The next event of the batch, after the coroutine of the last one has run.
NextEvent ==
    /\ th[Sel].at = "free"
    /\ batch > 0
    /\ batch' = batch - 1
    /\ Goto(Sel, "event")
    /\ UNCHANGED <<ev, armed, alive, cancel, para, kernel, op, pc>>

StoreFlag ==
    /\ th[Sel].at = "event"
    /\ ev' = [ev EXCEPT !.io_flag = TRUE]
    /\ Goto(Sel, "take")
    /\ UNCHANGED <<armed, alive, cancel, para, kernel, op, pc, batch>>

TakeEventCo ==
    /\ th[Sel].at = "take"
    /\ IF ev.co
       THEN TakeCo(Sel)
       ELSE Goto(Sel, "free") /\ UNCHANGED <<ev, armed, cancel, para, op, pc>>
    /\ UNCHANGED <<alive, kernel, batch>>

FreeUnusedEventData ==
    /\ Free(Sel)
    /\ alive = "closed"
    /\ alive' = "freed"
    /\ UNCHANGED <<ev, armed, cancel, para, kernel, op, pc, th, batch>>

\* schedule_timer finds an expired entry.
PopTimeout ==
    /\ Free(Sel)
    /\ \E i \in armed :
          /\ armed' = armed \ {i}
          /\ th' = [th EXCEPT ![Sel] = [at |-> "fire", id |-> i]]
    /\ UNCHANGED <<ev, alive, cancel, para, kernel, op, pc, batch>>

\* What it does with an EventData that is gone is undefined.
TimeoutHandler ==
    /\ th[Sel].at = "fire" /\ alive # "freed"
    /\ ev' = [ev EXCEPT !.timer = Null, !.co = FALSE]
    /\ IF ev.co
       THEN RunCoroutine(Sel, "timeout")
       ELSE Goto(Sel, "free") /\ UNCHANGED <<cancel, para, op, pc>>
    /\ UNCHANGED <<armed, alive, kernel, batch>>

Select ==
    \/ Wait \/ NextEvent \/ StoreFlag \/ TakeEventCo
    \/ FreeUnusedEventData \/ PopTimeout \/ TimeoutHandler

Coroutine ==
    \/ Begin \/ First \/ Look \/ Yield \/ Clear \/ Result \/ Call \/ Again
    \/ YieldNow \/ Handover

Next ==
    \/ DelFd
    \/ /\ \/ Coroutine \/ Select \/ Arrive \/ CallCancel
          \/ \E t \in Hosts : Subscribe(t) \/ RunReady(t)
          \/ \E t \in Threads : Cancel(t)
       /\ UNCHANGED dangling

Spec == Init /\ [][Next]_vars

-----------------------------------------------------------------------------
Quiet == \A t \in Threads : th[t].at = "free"

\* socket_read.rs:27-85, epoll.rs:121-143.  A suspended coroutine that nobody is
\* about to wake has nothing to do: its descriptor is not ready, and it is not
\* cancelled, unless its event source does not register for cancellation.  The
\* edge of a readiness may come at any point of reset, system call and subscribe.
NoLostWakeup ==
    Quiet /\ batch = 0 /\ ~kernel.edge /\ ev.co =>
        /\ kernel.avail = 0
        /\ op.cancel => ~cancel.state

\* epoll.rs:188-236, mod.rs:62-82.  The pointer of an event or of an expired timer is
\* valid while it is handled: the EventData of a closed descriptor is freed by the
\* selector thread between two calls of epoll_wait, never by the thread that closes it,
\* and the close takes back the timer whose handle the EventData holds.  Two cases are
\* left: a close that panics itself, and a timer whose handle was no longer held,
\* because the operation it belonged to was cancelled and a later one set its own.
EventDataAlive ==
    th[Sel].at \in {"event", "take", "fire"} =>
        alive # "freed" \/ pc = "aborted" \/ (th[Sel].at = "fire" /\ dangling)
=============================================================================
