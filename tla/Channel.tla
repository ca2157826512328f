------------------------------ MODULE Channel ------------------------------
(***************************************************************************)
(* std/sync/channel.rs: the mpmc channel.  Every Sender and Receiver is a  *)
(* process that makes calls, may be cloned and is dropped.  The messages   *)
(* are told apart by nothing but their number, so that the SegQueue is its *)
(* length; wake_recv and wake_sender are semaphores, seen through the      *)
(* contract that module Semphore implements.                               *)
(***************************************************************************)
EXTENDS Integers, FiniteSets

CONSTANTS Senders, Receivers,   \* the handles that may ever exist
          FirstSender,          \* the two handles bounded() returns
          FirstReceiver,
          BufferLimit,          \* buffer_limit
          CanFail,              \* handles used with timeouts or cancelled
          MaxCalls              \* bound: calls of all the handles

VARIABLES
    len,            \* length of buffer: SegQueue
    wake_recv,      \* Semphore: one unit for each message
    wake_sender,    \* Semphore: one unit for each message taken
    sender_num, receiver_num,
    pc,             \* where each handle is
    calls           \* calls that the handles have made

vars == <<len, wake_recv, wake_sender, sender_num, receiver_num, pc, calls>>

Handles == Senders \cup Receivers

WakeRecv == INSTANCE SemphoreContract WITH sem <- wake_recv, Waiters <- Receivers, InitVal <- 0
WakeSender == INSTANCE SemphoreContract WITH sem <- wake_sender, Waiters <- Senders, InitVal <- 0

\* Handles that run no call.
Resting == {"unborn", "idle", "gone"}

Labels == Resting \cup
    {"check", "wait", "register", "parked", "push", "post", "load_senders",
     "pop", "wake", "found_none", "unreachable", "drop_check", "drop_post", "clear"}

TypeOK ==
    /\ len \in Nat
    /\ WakeRecv!TypeOK /\ WakeSender!TypeOK
    /\ sender_num \in Nat /\ receiver_num \in Nat
    /\ pc \in [Handles -> Labels]
    /\ calls \in 0 .. MaxCalls

Init ==
    /\ len = 0
    /\ wake_recv = WakeRecv!New
    /\ wake_sender = WakeSender!New
    /\ sender_num = 1 /\ receiver_num = 1
    /\ pc = [h \in Handles |-> IF h \in {FirstSender, FirstReceiver} THEN "idle" ELSE "unborn"]
    /\ calls = 0

sems == <<wake_recv, wake_sender>>
nums == <<sender_num, receiver_num>>

Goto(h, l) == pc' = [pc EXCEPT ![h] = l]

StartCall(h) ==
    /\ pc[h] = "idle"
    /\ calls < MaxCalls
    /\ calls' = calls + 1

-----------------------------------------------------------------------------
(* Sending.                                                                *)

\* send and try_send return the message when there is no receiver.
Send(h) ==
    /\ h \in Senders
    /\ StartCall(h)
    /\ Goto(h, IF receiver_num = 0 THEN "idle" ELSE "check")
    /\ UNCHANGED <<len, sems, nums>>

\* Mutant: the sender waits before it looks at the length, and only once.
CheckLenOnce(h) ==
    /\ pc[h] = "check"
    /\ Goto(h, "push")
    /\ UNCHANGED <<len, sems, nums, calls>>

\* A full buffer makes send wait and try_send fail.
CheckLen(h) ==
    /\ pc[h] = "check"
    /\ IF len >= BufferLimit
       THEN \E l \in {"wait", "idle"} : Goto(h, l)
       ELSE Goto(h, "push")
    /\ UNCHANGED <<len, sems, nums, calls>>

Push(h) ==
    /\ pc[h] = "push"
    /\ len' = len + 1
    /\ Goto(h, "post")
    /\ UNCHANGED <<sems, nums, calls>>

PostRecv(h) ==
    /\ pc[h] = "post"
    /\ WakeRecv!Post
    /\ Goto(h, "idle")
    /\ UNCHANGED <<len, wake_sender, nums, calls>>

-----------------------------------------------------------------------------
(* Waiting on a semaphore, for a sender and for a receiver.  A sender that *)
(* is woken looks at the length again; a receiver takes its message.       *)

WaitTry(h) ==
    /\ pc[h] = "wait"
    /\ \/ /\ h \in Senders
          /\ WakeSender!TryWait /\ UNCHANGED wake_recv
          /\ Goto(h, "check")
       \/ /\ h \in Receivers
          /\ WakeRecv!TryWait /\ UNCHANGED wake_sender
          /\ Goto(h, "pop")
       \/ /\ (IF h \in Senders THEN WakeSender!Value ELSE WakeRecv!Value) = 0
          /\ Goto(h, "register")
          /\ UNCHANGED sems
    /\ UNCHANGED <<len, nums, calls>>

WaitRegister(h) ==
    /\ pc[h] = "register"
    /\ \/ h \in Senders /\ WakeSender!Register(h) /\ UNCHANGED wake_recv
       \/ h \in Receivers /\ WakeRecv!Register(h) /\ UNCHANGED wake_sender
    /\ Goto(h, "parked")
    /\ UNCHANGED <<len, nums, calls>>

WaitReturn(h) ==
    /\ pc[h] = "parked"
    /\ \/ /\ WakeSender!Return(h) /\ UNCHANGED wake_recv
          /\ Goto(h, "check")
       \/ /\ WakeRecv!Return(h) /\ UNCHANGED wake_sender
          /\ Goto(h, "pop")
    /\ UNCHANGED <<len, nums, calls>>

\* A receive times out, or the waiting coroutine is cancelled.
WaitGiveUp(h) ==
    /\ pc[h] = "parked"
    /\ h \in CanFail
    /\ \/ WakeSender!GiveUp(h) /\ UNCHANGED wake_recv
       \/ WakeRecv!GiveUp(h) /\ UNCHANGED wake_sender
    /\ Goto(h, "idle")
    /\ UNCHANGED <<len, nums, calls>>

\* The waker of a wait that gave up posts its unit again.
Repost ==
    /\ \/ WakeSender!Repost /\ UNCHANGED wake_recv
       \/ WakeRecv!Repost /\ UNCHANGED wake_sender
    /\ UNCHANGED <<len, nums, pc, calls>>

-----------------------------------------------------------------------------
(* Receiving.                                                              *)

\* try_recv, and recv as its first step, take a unit or find none.
TryRecv(h) ==
    /\ h \in Receivers
    /\ StartCall(h)
    /\ \/ WakeRecv!TryWait /\ Goto(h, "pop")
       \/ WakeRecv!Value = 0 /\ Goto(h, "load_senders") /\ UNCHANGED wake_recv
    /\ UNCHANGED <<len, wake_sender, nums>>

\* No unit: Disconnected, or Empty; then try_recv returns and recv waits.
LoadSenders(h) ==
    /\ pc[h] = "load_senders"
    /\ IF sender_num = 0
       THEN Goto(h, "idle")
       ELSE \E l \in {"idle", "wait"} : Goto(h, l)
    /\ UNCHANGED <<len, sems, nums, calls>>

Pop(h) ==
    /\ pc[h] = "pop"
    /\ IF len > 0
       THEN len' = len - 1 /\ Goto(h, "wake")
       ELSE len' = len /\ Goto(h, "found_none")
    /\ UNCHANGED <<sems, nums, calls>>

\* Mutant: only a receiver that leaves the buffer below its limit posts.
WakeAtLimit(h) ==
    /\ pc[h] = "wake"
    /\ IF len < BufferLimit /\ len > 0
       THEN WakeSender!Post
       ELSE UNCHANGED wake_sender
    /\ Goto(h, "idle")
    /\ UNCHANGED <<len, wake_recv, nums, calls>>

\* wake_sender() after the message has been taken.
Wake(h) ==
    /\ pc[h] = "wake"
    /\ WakeSender!Post
    /\ Goto(h, "idle")
    /\ UNCHANGED <<len, wake_recv, nums, calls>>

\* A unit without a message is legal only after the last sender has gone.
FoundNone(h) ==
    /\ pc[h] = "found_none"
    /\ Goto(h, IF sender_num = 0 THEN "idle" ELSE "unreachable")
    /\ UNCHANGED <<len, sems, nums, calls>>

-----------------------------------------------------------------------------
(* Handles.                                                                *)

CloneSend(h, g) ==
    /\ h \in Senders /\ g \in Senders
    /\ pc[h] = "idle" /\ pc[g] = "unborn"
    /\ sender_num' = sender_num + 1
    /\ Goto(g, "idle")
    /\ UNCHANGED <<len, sems, receiver_num, calls>>

\* Mutant: every sender that goes posts, not only the last one.
DropSendAlways(h) ==
    /\ h \in Senders
    /\ pc[h] = "idle"
    /\ sender_num' = sender_num - 1
    /\ Goto(h, "drop_check")
    /\ UNCHANGED <<len, sems, receiver_num, calls>>

DropSend(h) ==
    /\ h \in Senders
    /\ pc[h] = "idle"
    /\ sender_num' = sender_num - 1
    /\ Goto(h, IF sender_num = 1 THEN "drop_check" ELSE "gone")
    /\ UNCHANGED <<len, sems, receiver_num, calls>>

\* The last sender posts until the value is not zero.
DropCheck(h) ==
    /\ pc[h] = "drop_check"
    /\ Goto(h, IF WakeRecv!Value = 0 THEN "drop_post" ELSE "gone")
    /\ UNCHANGED <<len, sems, nums, calls>>

DropPost(h) ==
    /\ pc[h] = "drop_post"
    /\ WakeRecv!Post
    /\ Goto(h, "drop_check")
    /\ UNCHANGED <<len, wake_sender, nums, calls>>

CloneRecv(h, g) ==
    /\ h \in Receivers /\ g \in Receivers
    /\ pc[h] = "idle" /\ pc[g] = "unborn"
    /\ receiver_num' = receiver_num + 1
    /\ Goto(g, "idle")
    /\ UNCHANGED <<len, sems, sender_num, calls>>

DropRecv(h) ==
    /\ h \in Receivers
    /\ pc[h] = "idle"
    /\ receiver_num' = receiver_num - 1
    /\ Goto(h, IF receiver_num = 1 THEN "clear" ELSE "gone")
    /\ UNCHANGED <<len, sems, sender_num, calls>>

\* The last receiver pops until the buffer is empty.
ClearBuffer(h) ==
    /\ pc[h] = "clear"
    /\ IF len > 0
       THEN len' = len - 1 /\ UNCHANGED pc
       ELSE len' = len /\ Goto(h, "gone")
    /\ UNCHANGED <<sems, nums, calls>>

-----------------------------------------------------------------------------
Step(h) ==
    \/ Send(h) \/ CheckLen(h) \/ Push(h) \/ PostRecv(h)
    \/ WaitTry(h) \/ WaitRegister(h) \/ WaitReturn(h) \/ WaitGiveUp(h)
    \/ TryRecv(h) \/ LoadSenders(h) \/ Pop(h) \/ Wake(h) \/ FoundNone(h)
    \/ DropSend(h) \/ DropCheck(h) \/ DropPost(h)
    \/ DropRecv(h) \/ ClearBuffer(h)

\* Every handle rests, or waits for a unit that nobody will post.
Quiet ==
    /\ \A h \in Handles : pc[h] \in Resting \cup {"parked"}
    /\ \A s \in {wake_recv, wake_sender} : s.owed = 0 \/ (s.waiting = {} /\ s.ghosts = 0)

Next ==
    \/ \E h \in Handles : Step(h)
    \/ \E h, g \in Handles : CloneSend(h, g) \/ CloneRecv(h, g)
    \/ Repost
    \/ Quiet /\ UNCHANGED vars

Spec == Init /\ [][Next]_vars

-----------------------------------------------------------------------------
Parked(S) == {h \in S : pc[h] = "parked"}

\* A receiver with a unit finds its message, or the last sender has gone: the
\* unreachable! of recv and try_recv is not reached.
UnitHasMessage == \A h \in Handles : pc[h] # "unreachable"

\* Senders look at the length before they push: each of them can exceed the limit
\* by one message, all but the last.
LimitBound == len <= BufferLimit + Cardinality(Senders) - 1

\* When nothing is left to run, a sender is parked only while the buffer is full, or
\* because the last receiver has gone, and no message waits beside a parked receiver.
NobodyStuck ==
    Quiet =>
        /\ Parked(Senders) # {} => len >= BufferLimit \/ receiver_num = 0
        /\ Parked(Receivers) # {} => len = 0

\* channel.rs:188-189.  "there is no send_ports any more, should tell all the
\* waited recv to come back": after the last sender nobody stays parked.
DisconnectWakesAll ==
    Quiet /\ sender_num = 0 => Parked(Receivers) = {}
=============================================================================
