-------------------------------- MODULE Iocp --------------------------------
(***************************************************************************)
(* The Windows I/O of coroutines (io/sys/windows).  An operation is an     *)
(* EventData on the stack of the coroutine; the kernel, the timer list and *)
(* the Cancel of the coroutine hold raw pointers to it.  The worker thread *)
(* that ran the coroutine issues the overlapped call in subscribe; the     *)
(* thread of the completion port resumes the coroutine, perhaps before     *)
(* subscribe has returned, which the DelayDrop of the operation waits for. *)
(* One coroutine makes MaxOps operations on one handle.                    *)
(***************************************************************************)
EXTENDS Integers

CONSTANTS N,          \* worker threads, completion ports and timer lists
          Handle,     \* the handle, a multiple of 4
          Canceller,  \* the thread that calls Coroutine::cancel
          MaxOps      \* bound on the operations of the coroutine

VARIABLES
    ev,       \* EventData of the current operation: are co and timer Some
    ov,       \* its OVERLAPPED: "none", "pending" or a posted result
    guard,    \* can_drop of its DelayDrop is 2
    armed,    \* operations with an entry in the timer list that is not null
    cancel,   \* Cancel of the coroutine: the cancel bit and io (0: None)
    para,     \* the error a waker has set for the coroutine
    op,       \* the current operation: its number and kind
    pc,       \* where the coroutine is
    host,     \* the thread that runs the coroutine
    th,       \* where each thread is, with the operation it deals with
    wild      \* a pointer to an operation that is gone has been used

vars == <<ev, ov, guard, armed, cancel, para, op, pc, host, th, wild>>

Workers == 0 .. N - 1
Threads == Workers \cup {Canceller}
Ids == 1 .. MaxOps

\* Selector::add_socket and Selector::add_io_timer choose by different formulas.
PortOf(h) == (h \div 4) % N
ListOf(h) == (h % N) \div 4

-----------------------------------------------------------------------------
(* The event sources: whether a timer may be set, and whether subscribe    *)
(* registers for cancellation, under a DelayDrop.                          *)

Source(timed, cancels) == [timed |-> timed, cancel |-> cancels]

SocketRead == Source(BOOLEAN, TRUE)
SocketWrite == Source(BOOLEAN, FALSE)
TcpListenerAccept == Source({FALSE}, TRUE)
TcpStreamConnect == Source(BOOLEAN, TRUE)
UdpSendTo == Source(BOOLEAN, FALSE)
UdpRecvFrom == Source(BOOLEAN, TRUE)
PipeRead == Source(BOOLEAN, TRUE)
PipeWrite == Source(BOOLEAN, FALSE)

Sources ==
    {SocketRead, SocketWrite, TcpListenerAccept, TcpStreamConnect, UdpSendTo,
     UdpRecvFrom, PipeRead, PipeWrite}

-----------------------------------------------------------------------------
At(l, i) == [at |-> l, id |-> i]
Free == At("free", 0)
Goto(t, l) == th' = [th EXCEPT ![t].at = l]
Freed(t) == th' = [th EXCEPT ![t] = Free]

TypeOK ==
    /\ ev \in [co : BOOLEAN, timer : BOOLEAN]
    /\ ov \in {"none", "pending", "ok", "error", "aborted"}
    /\ guard \in BOOLEAN
    /\ armed \subseteq Ids
    /\ cancel \in [state : BOOLEAN, io : 0 .. MaxOps]
    /\ para \in {"none", "error", "timeout", "canceled"}
    /\ op \in [id : 0 .. MaxOps, timed : BOOLEAN, cancel : BOOLEAN]
    /\ pc \in {"idle", "yield", "suspended", "ready", "back", "clear", "result",
               "drop", "waiting", "panicking", "panicked", "aborted", "gone"}
    /\ host \in Workers
    /\ th \in [Threads -> [at : {"free", "co", "timer", "store", "put", "call", "set_io",
                                 "recheck", "leave", "cancel", "cancel_io", "event",
                                 "fire", "panicked"},
                           id : 0 .. MaxOps]]
    /\ wild \in BOOLEAN

\* EventData::new
NewEventData == [co |-> FALSE, timer |-> FALSE]

Init ==
    /\ ev = NewEventData
    /\ ov = "none"
    /\ guard = FALSE
    /\ armed = {}
    /\ cancel = [state |-> FALSE, io |-> 0]
    /\ para = "none"
    /\ op = [id |-> 0, timed |-> FALSE, cancel |-> FALSE]
    /\ pc = "idle"
    /\ host \in Workers
    /\ th = [t \in Threads |-> IF t = host THEN At("co", 0) ELSE Free]
    /\ wild = FALSE

\* Operation i is still on the stack of the coroutine.
Alive(i) == i = op.id /\ pc \notin {"idle", "panicked"}

\* CancelIoEx on operation i fails when the request is not pending.
CancelIoEx(i) ==
    /\ wild' = ~Alive(i)
    /\ ov' = IF Alive(i) /\ ov = "pending" THEN "aborted" ELSE ov

-----------------------------------------------------------------------------
(* The coroutine: a call, yield_with, done, and the drop of the operation. *)

Begin ==
    /\ pc = "idle" /\ op.id < MaxOps
    /\ \E s \in Sources : \E b \in s.timed :
          op' = [id |-> op.id + 1, timed |-> b, cancel |-> s.cancel]
    /\ ev' = NewEventData
    /\ ov' = "none"
    /\ pc' = "yield"
    /\ UNCHANGED <<guard, armed, cancel, para, host, th, wild>>

\* check_cancel takes the parameter before it panics.
YieldBack(p, next) ==
    IF cancel.state
    THEN para' = "none" /\ pc' = "panicking"
    ELSE para' = p /\ pc' = next

Yield ==
    /\ pc = "yield"
    /\ IF cancel.state
       THEN YieldBack("canceled", "result") /\ UNCHANGED <<guard, th>>
       ELSE /\ pc' = "suspended"
            /\ guard' = op.cancel
            /\ th' = [th EXCEPT ![host] = At(IF op.timed THEN "timer" ELSE "put", op.id)]
            /\ UNCHANGED para
    /\ UNCHANGED <<ev, ov, armed, cancel, op, host, wild>>

Back ==
    /\ pc = "back"
    /\ YieldBack(para, "clear")
    /\ UNCHANGED <<ev, ov, guard, armed, cancel, op, host, th, wild>>

Clear ==
    /\ pc = "clear"
    /\ cancel' = [cancel EXCEPT !.io = 0]
    /\ pc' = "result"
    /\ UNCHANGED <<ev, ov, guard, armed, para, op, host, th, wild>>

\* co_io_result
Result ==
    /\ pc = "result"
    /\ para' = "none"
    /\ pc' = "drop"
    /\ UNCHANGED <<ev, ov, guard, armed, cancel, op, host, th, wild>>

\* yield_now in the drop below: another coroutine may run meanwhile.  In a cancelled
\* coroutine yield_now panics, and the operation goes with the frame, whatever
\* subscribe still does with it; a second panic aborts the process.
DelayDropYields ==
    /\ pc \in {"drop", "panicking"}
    /\ guard
    /\ IF cancel.state
       THEN pc' = (IF pc = "drop" THEN "panicked" ELSE "aborted") /\ UNCHANGED th
       ELSE pc' = "waiting" /\ Freed(host)
    /\ UNCHANGED <<ev, ov, guard, armed, cancel, para, op, host, wild>>

\* yield_with checks the cancel bit after the yield and clears the Cancel.
DelayDropBack(t) ==
    /\ th[t].at = "free"
    /\ pc = "waiting"
    /\ IF cancel.state
       THEN pc' = "panicked" /\ UNCHANGED cancel
       ELSE pc' = "drop" /\ cancel' = [cancel EXCEPT !.io = 0]
    /\ host' = t
    /\ th' = [th EXCEPT ![t] = At("co", 0)]
    /\ UNCHANGED <<ev, ov, guard, armed, para, op, wild>>

\* Mutant: the operation goes out of scope while subscribe still uses it.
DelayDropNone ==
    /\ pc \in {"drop", "panicking"}
    /\ pc' = IF pc = "drop" THEN "idle" ELSE "panicked"
    /\ UNCHANGED <<ev, ov, guard, armed, cancel, para, op, host, th, wild>>

\* DelayDrop::drop waits until subscribe has dropped its guard.
DelayDrop ==
    /\ pc \in {"drop", "panicking"}
    /\ ~guard
    /\ pc' = IF pc = "drop" THEN "idle" ELSE "panicked"
    /\ UNCHANGED <<ev, ov, guard, armed, cancel, para, op, host, th, wild>>

Coroutine ==
    Begin \/ Yield \/ Back \/ Clear \/ Result \/ DelayDropYields \/ DelayDrop

-----------------------------------------------------------------------------
(* subscribe, on the thread that ran the coroutine.                        *)

\* add_io_timer: the entry is in the list before its handle is stored.
AddIoTimer(t) ==
    /\ th[t].at = "timer"
    /\ armed' = armed \cup {th[t].id}
    /\ Goto(t, "store")
    /\ UNCHANGED <<ev, ov, guard, cancel, para, op, pc, host, wild>>

StoreTimer(t) ==
    /\ th[t].at = "store"
    /\ ev' = [ev EXCEPT !.timer = TRUE]
    /\ Goto(t, "put")
    /\ UNCHANGED <<ov, guard, armed, cancel, para, op, pc, host, wild>>

PutCo(t) ==
    /\ th[t].at = "put"
    /\ ev' = [ev EXCEPT !.co = TRUE]
    /\ Goto(t, "call")
    /\ UNCHANGED <<ov, guard, armed, cancel, para, op, pc, host, wild>>

\* co_try! around the overlapped call: the request is issued, or the call fails
\* and the coroutine is scheduled with the error.
CoTry(t) ==
    /\ th[t].at = "call"
    /\ \/ /\ ov' = "pending"
          /\ Goto(t, IF op.cancel THEN "set_io" ELSE "leave")
          /\ UNCHANGED <<ev, para, pc>>
       \/ /\ ev' = [ev EXCEPT !.co = FALSE]
          /\ para' = "error"
          /\ pc' = "ready"
          /\ Goto(t, "leave")
          /\ UNCHANGED ov
    /\ UNCHANGED <<guard, armed, cancel, op, host, wild>>

SetIo(t) ==
    /\ th[t].at = "set_io"
    /\ cancel' = [cancel EXCEPT !.io = th[t].id]
    /\ Goto(t, "recheck")
    /\ UNCHANGED <<ev, ov, guard, armed, para, op, pc, host, wild>>

\* Mutant: subscribe does not look at the cancel bit again.
RecheckNever(t) ==
    /\ th[t].at = "recheck"
    /\ Goto(t, "leave")
    /\ UNCHANGED <<ev, ov, guard, armed, cancel, para, op, pc, host, wild>>

Recheck(t) ==
    /\ th[t].at = "recheck"
    /\ Goto(t, IF cancel.state THEN "cancel" ELSE "leave")
    /\ UNCHANGED <<ev, ov, guard, armed, cancel, para, op, pc, host, wild>>

\* The drop of the guard, if there is one: subscribe returns.
DropGuard(t) ==
    /\ th[t].at = "leave"
    /\ guard' = IF Alive(th[t].id) /\ op.cancel THEN FALSE ELSE guard
    /\ Freed(t)
    /\ UNCHANGED <<ev, ov, armed, cancel, para, op, pc, host, wild>>

Subscribe(t) ==
    \/ AddIoTimer(t) \/ StoreTimer(t) \/ PutCo(t) \/ CoTry(t) \/ SetIo(t) \/ Recheck(t)
    \/ DropGuard(t)

RunCoroutine(t) ==
    /\ pc' = "back"
    /\ host' = t
    /\ th' = [th EXCEPT ![t] = At("co", 0)]

RunReady(t) ==
    /\ th[t].at = "free"
    /\ pc = "ready"
    /\ RunCoroutine(t)
    /\ UNCHANGED <<ev, ov, guard, armed, cancel, para, op, wild>>

-----------------------------------------------------------------------------
(* CancelImpl::cancel and CancelIoImpl::cancel, which holds a Mutex.       *)

CallCancel ==
    /\ th[Canceller].at = "free"
    /\ ~cancel.state /\ pc \notin {"panicked", "gone"}
    /\ th' = [th EXCEPT ![Canceller] = At("cancel", 0)]
    /\ UNCHANGED <<ev, ov, guard, armed, cancel, para, op, pc, host, wild>>

SetCancelBit(t) ==
    /\ th[t].at = "cancel"
    /\ cancel' = [cancel EXCEPT !.state = TRUE]
    /\ Goto(t, "cancel_io")
    /\ UNCHANGED <<ev, ov, guard, armed, para, op, pc, host, wild>>

TakeIo(t) ==
    /\ th[t].at = "cancel_io"
    /\ cancel' = [cancel EXCEPT !.io = 0]
    /\ IF cancel.io # 0 THEN CancelIoEx(cancel.io) ELSE UNCHANGED <<ov, wild>>
    /\ IF t = Canceller THEN Freed(t) ELSE Goto(t, "leave")
    /\ UNCHANGED <<ev, guard, armed, para, op, pc, host>>

Cancel(t) == SetCancelBit(t) \/ TakeIo(t)

-----------------------------------------------------------------------------
(* Selector::select, and the kernel.                                       *)

Complete ==
    /\ ov = "pending"
    /\ ov' \in {"ok", "error"}
    /\ UNCHANGED <<ev, guard, armed, cancel, para, op, pc, host, th, wild>>

GetMany(t) ==
    /\ t = PortOf(Handle)
    /\ th[t].at = "free"
    /\ ov \in {"ok", "error", "aborted"}
    /\ th' = [th EXCEPT ![t] = At("event", op.id)]
    /\ UNCHANGED <<ev, ov, guard, armed, cancel, para, op, pc, host, wild>>

\* The coroutine and its timer are taken; with_mut_data panics when the entry has
\* been popped by the thread of the timer list, and the coroutine is lost.
HandleStatus(t) ==
    /\ th[t].at = "event"
    /\ ov' = "none"
    /\ ev' = NewEventData
    /\ armed' = IF ev.timer THEN armed \ {op.id} ELSE armed
    /\ para' = CASE ov = "ok" -> para [] ov = "error" -> "error" [] OTHER -> "timeout"
    /\ IF ~ev.co \/ (ev.timer /\ op.id \notin armed)
       THEN Goto(t, "panicked") /\ pc' = "gone" /\ UNCHANGED host
       ELSE RunCoroutine(t)
    /\ UNCHANGED <<guard, cancel, op, wild>>

\* schedule_timer finds an expired entry.
PopTimeout(t) ==
    /\ t = ListOf(Handle)
    /\ th[t].at = "free"
    /\ \E i \in armed :
          /\ armed' = armed \ {i}
          /\ th' = [th EXCEPT ![t] = At("fire", i)]
    /\ UNCHANGED <<ev, ov, guard, cancel, para, op, pc, host, wild>>

TimeoutHandler(t) ==
    /\ th[t].at = "fire"
    /\ CancelIoEx(th[t].id)
    /\ ev' = IF Alive(th[t].id) THEN [ev EXCEPT !.timer = FALSE] ELSE ev
    /\ Freed(t)
    /\ UNCHANGED <<guard, armed, cancel, para, op, pc, host>>

Select(t) == GetMany(t) \/ HandleStatus(t) \/ PopTimeout(t) \/ TimeoutHandler(t)

Next ==
    /\ ~wild /\ pc # "aborted"
    /\ \/ Coroutine \/ Complete \/ CallCancel
       \/ \E t \in Workers : 
             Subscribe(t) \/ RunReady(t) \/ DelayDropBack(t) \/ Select(t)
       \/ \E t \in Threads : Cancel(t)

Spec == Init /\ [][Next]_vars

-----------------------------------------------------------------------------
Quiet == \A t \in Threads : th[t].at = "free"

\* socket_read.rs:37-68, iocp.rs:122-189.  A suspended coroutine that no thread is
\* about to resume waits for the kernel; while its request is pending it has not
\* been cancelled, unless its event source does not register for cancellation:
\* whichever of cancel, the completion and the end of subscribe comes first.
NoLostCompletion ==
    Quiet /\ pc = "suspended" /\ ~wild =>
        /\ ov # "none"
        /\ ov = "pending" /\ op.cancel => ~cancel.state

\* delay_drop.rs:19-50, socket_read.rs:41.  What subscribe uses of the operation
\* after the overlapped call is still there: the coroutine, which may have been
\* resumed at once, does not leave before subscribe has dropped its guard, unless
\* it is cancelled while it waits for that.
SubscribeInScope ==
    \A t \in Workers : th[t].at \in {"set_io", "recheck", "cancel", "cancel_io"} =>
        Alive(th[t].id) \/ (pc = "panicked" /\ cancel.state)
=============================================================================
