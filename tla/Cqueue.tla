------------------------------- MODULE Cqueue -------------------------------
(***************************************************************************)
(* cqueue.rs: the owner of a queue adds select coroutines, polls for their *)
(* events and drops the queue; a select coroutine sends at most one event. *)
(* Join is what Scoped shows of it: join returns when the coroutine has    *)
(* ended.  A coroutine that is resumed may yield at once for another       *)
(* reason and go on in a worker, so continue_bottom only makes it run.     *)
(* The owner may be a coroutine and be cancelled: a wait of it then ends   *)
(* in a panic, wherever it waits.                                          *)
(***************************************************************************)
EXTENDS Integers, Sequences

CONSTANTS Selectors,
          CanPanic      \* select coroutines that may panic

VARIABLES
    ev_queue,      \* sequence of [id, kind]
    to_wake,       \* a Blocker is registered; Blockers are new for each wait
    cnt,           \* usize that may wrap below zero and back
    sel,           \* where each select coroutine is
    note,          \* subscribe has pushed the event and not yet woken
    sent,          \* running coroutines that used their event
    canceled,      \* coroutines whose cancel bit is set
    panicked,      \* coroutines that end with a panic nobody has taken yet
    handle,        \* selectors: coroutines whose JoinHandle is there
    is_panicking,
    pc, ev,        \* where the owner is, the event it has taken
    token,         \* the Blocker of the current wait has been unparked
    timed,         \* the current poll has a timeout
    in_drop, unwinding,
    owner_canceled \* the cancel bit of the owner

vars == <<ev_queue, to_wake, cnt, sel, note, sent, canceled, panicked, handle,
          is_panicking, pc, ev, token, timed, in_drop, unwinding, owner_canceled>>

selVars == <<sel, note, sent, canceled, panicked>>
ownerVars == <<handle, is_panicking, pc, ev, timed, in_drop, unwinding, owner_canceled>>

NoEvent == [id |-> "none", kind |-> "none"]
Event == [id : Selectors, kind : {"normal", "done"}]

TypeOK ==
    /\ ev_queue \in Seq(Event)
    /\ to_wake \in BOOLEAN /\ token \in BOOLEAN /\ timed \in BOOLEAN
    /\ in_drop \in BOOLEAN /\ unwinding \in BOOLEAN /\ is_panicking \in BOOLEAN
    /\ owner_canceled \in BOOLEAN
    /\ cnt \in Int
    /\ sel \in [Selectors -> {"new", "running", "sent", "drop", "count", "wake",
                              "ending", "done"}]
    /\ note \subseteq Selectors /\ sent \subseteq Selectors
    /\ canceled \subseteq Selectors /\ panicked \subseteq Selectors
    /\ handle \subseteq Selectors
    /\ pc \in {"body", "add", "pop", "count", "register", "repop", "park",
               "check_panic", "finished", "escaped", "aborted"}
    /\ ev \in Event \cup {NoEvent}

Init ==
    /\ ev_queue = <<>> /\ to_wake = FALSE /\ cnt = 0
    /\ sel = [c \in Selectors |-> "new"]
    /\ note = {} /\ sent = {} /\ canceled = {} /\ panicked = {} /\ handle = {}
    /\ is_panicking = FALSE
    /\ pc = "body" /\ ev = NoEvent
    /\ token = FALSE /\ timed = FALSE /\ in_drop = FALSE /\ unwinding = FALSE
    /\ owner_canceled = FALSE

\* to_wake.take() and the unpark of what it returns: after a wait that timed out
\* that is a Blocker nobody waits on any more.
WakeOwner ==
    /\ to_wake' = FALSE
    /\ token' = (token \/ (to_wake /\ pc \in {"repop", "park"}))

-----------------------------------------------------------------------------
(* The select coroutines.                                                  *)

Goto(c, l) == sel' = [sel EXCEPT ![c] = l]

\* send checks the cancel bit; subscribe pushes the event with the coroutine.
Send(c) ==
    /\ sel[c] = "running"
    /\ c \notin sent
    /\ IF c \in canceled
       THEN Goto(c, "drop") /\ UNCHANGED <<ev_queue, note, sent>>
       ELSE /\ ev_queue' = Append(ev_queue, [id |-> c, kind |-> "normal"])
            /\ Goto(c, "sent")
            /\ note' = note \cup {c}
            /\ sent' = sent \cup {c}
    /\ UNCHANGED <<to_wake, cnt, canceled, panicked, token, ownerVars>>

\* The rest of subscribe, on the thread the coroutine yielded on.
Subscribed(c) ==
    /\ c \in note
    /\ note' = note \ {c}
    /\ WakeOwner
    /\ UNCHANGED <<ev_queue, cnt, sel, sent, canceled, panicked, ownerVars>>

\* f ends by itself, with a panic or with its cancellation.
EndOfClosure(c) ==
    /\ sel[c] = "running"
    /\ Goto(c, "drop")
    /\ panicked' \in {panicked, panicked \cup ({c} \cap CanPanic)}
    /\ UNCHANGED <<ev_queue, to_wake, cnt, note, sent, canceled, token, ownerVars>>

\* EventSender::drop
SenderPush(c) ==
    /\ sel[c] = "drop"
    /\ ev_queue' = Append(ev_queue, [id |-> c, kind |-> "done"])
    /\ Goto(c, "count")
    /\ UNCHANGED <<to_wake, cnt, note, sent, canceled, panicked, token, ownerVars>>

SenderCount(c) ==
    /\ sel[c] = "count"
    /\ cnt' = cnt - 1
    /\ Goto(c, "wake")
    /\ UNCHANGED <<ev_queue, to_wake, note, sent, canceled, panicked, token, ownerVars>>

\* Mutant: the drop of a sender wakes nobody.
SenderWakeNot(c) ==
    /\ sel[c] = "wake"
    /\ Goto(c, "ending")
    /\ UNCHANGED <<to_wake, token, ev_queue, cnt, note, sent, canceled, panicked, ownerVars>>

SenderWake(c) ==
    /\ sel[c] = "wake"
    /\ WakeOwner
    /\ Goto(c, "ending")
    /\ UNCHANGED <<ev_queue, cnt, note, sent, canceled, panicked, ownerVars>>

\* Join::trigger; the coroutine ends, and its Cancel means nothing any more.
Ending(c) ==
    /\ sel[c] = "ending"
    /\ Goto(c, "done")
    /\ sent' = sent \ {c}
    /\ canceled' = canceled \ {c}
    /\ UNCHANGED <<ev_queue, to_wake, cnt, note, panicked, token, ownerVars>>

-----------------------------------------------------------------------------
(* The owner.                                                              *)

\* add_impl: the coroutine runs before it is counted.
AddSpawn(c) ==
    /\ pc = "body"
    /\ sel[c] = "new"
    /\ Goto(c, "running")
    /\ ev' = [id |-> c, kind |-> "normal"]
    /\ pc' = "add"
    /\ UNCHANGED <<ev_queue, to_wake, cnt, note, sent, canceled, panicked, handle,
                   is_panicking, token, timed, in_drop, unwinding, owner_canceled>>

AddCount ==
    /\ pc = "add"
    /\ cnt' = cnt + 1
    /\ handle' = handle \cup {ev.id}
    /\ ev' = NoEvent
    /\ pc' = "body"
    /\ UNCHANGED <<ev_queue, to_wake, selVars, is_panicking, token, timed, in_drop, unwinding, owner_canceled>>

\* Selector::remove
Remove(c) ==
    /\ pc = "body"
    /\ c \in handle
    /\ c \notin canceled /\ sel[c] # "done"
    /\ canceled' = canceled \cup {c}
    /\ UNCHANGED <<ev_queue, to_wake, cnt, sel, note, sent, panicked, token, ownerVars>>

StartPoll ==
    /\ pc = "body"
    /\ pc' = "pop"
    /\ timed' \in BOOLEAN
    /\ UNCHANGED <<ev_queue, to_wake, cnt, selVars, handle, is_panicking, ev, token,
                   in_drop, unwinding, owner_canceled>>

\* Cqueue::drop cancels the coroutines whose handle is there and not done, and
\* polls.  The body of the scope may have panicked.
StartDrop(panics) ==
    /\ pc = "body"
    /\ canceled' = canceled \cup {c \in handle : sel[c] # "done"}
    /\ in_drop' = TRUE
    /\ timed' = FALSE
    /\ unwinding' = panics
    /\ pc' = "pop"
    /\ UNCHANGED <<ev_queue, to_wake, cnt, sel, note, sent, panicked, handle,
                   is_panicking, ev, token, owner_canceled>>

\* poll returns to the body, or to the loop of drop.
Return == timed' = FALSE /\ pc' = IF in_drop THEN "pop" ELSE "body"

\* run_ev!
RunEvent(e) ==
    IF e.kind = "done"
    THEN /\ pc' = "check_panic" /\ ev' = e
         /\ UNCHANGED <<sel, timed>>
    ELSE /\ Goto(e.id, "running")
         /\ Return
         /\ ev' = NoEvent

Pop ==
    /\ pc = "pop"
    /\ IF ev_queue = <<>>
       THEN pc' = "count" /\ UNCHANGED <<ev_queue, ev, sel, timed>>
       ELSE ev_queue' = Tail(ev_queue) /\ RunEvent(Head(ev_queue))
    /\ UNCHANGED <<to_wake, cnt, note, sent, canceled, panicked, handle, is_panicking,
                   token, in_drop, unwinding, owner_canceled>>

\* Mutant: poll is finished when the queue of events is empty.
CheckCountNot ==
    /\ pc = "count"
    /\ pc' = IF in_drop THEN "finished" ELSE "body"
    /\ timed' = FALSE
    /\ UNCHANGED <<ev_queue, to_wake, cnt, selVars, handle, is_panicking, ev, token,
                   in_drop, unwinding, owner_canceled>>

CheckCount ==
    /\ pc = "count"
    /\ pc' = IF cnt # 0 THEN "register" ELSE IF in_drop THEN "finished" ELSE "body"
    /\ timed' = (timed /\ cnt # 0)
    /\ UNCHANGED <<ev_queue, to_wake, cnt, selVars, handle, is_panicking, ev, token,
                   in_drop, unwinding, owner_canceled>>

Register ==
    /\ pc = "register"
    /\ to_wake' = TRUE
    /\ token' = FALSE
    /\ pc' = "repop"
    /\ UNCHANGED <<ev_queue, cnt, selVars, handle, is_panicking, ev, timed, in_drop, unwinding, owner_canceled>>

Repop ==
    /\ pc = "repop"
    /\ pc' = "park"
    /\ IF ev_queue = <<>>
       THEN UNCHANGED <<ev_queue, ev, to_wake, token>>
       ELSE ev_queue' = Tail(ev_queue) /\ ev' = Head(ev_queue) /\ WakeOwner
    /\ UNCHANGED <<cnt, selVars, handle, is_panicking, timed, in_drop, unwinding, owner_canceled>>

\* The Blocker is dropped; without an event poll looks at its deadline.
Park ==
    /\ pc = "park"
    /\ token \/ (timed /\ ~owner_canceled)
    /\ token' = FALSE
    /\ \/ ev # NoEvent /\ RunEvent(ev)
       \/ ev = NoEvent /\ timed /\ Return /\ UNCHANGED <<sel, ev>>
       \/ ev = NoEvent /\ pc' = "pop" /\ UNCHANGED <<sel, ev, timed>>
    /\ UNCHANGED <<ev_queue, to_wake, cnt, note, sent, canceled, panicked, handle,
                   is_panicking, in_drop, unwinding, owner_canceled>>

\* A panic of the owner: out of poll into drop, which panics at once when the Mutex
\* of the selectors is poisoned, or out of drop; a panic while the owner unwinds
\* ends the process.
Unwind(poisons) ==
    /\ ev' = NoEvent
    /\ unwinding' = TRUE /\ in_drop' = TRUE /\ timed' = FALSE
    /\ pc' = CASE in_drop /\ unwinding -> "aborted"
               [] in_drop /\ ~unwinding -> "escaped"
               [] ~in_drop -> IF poisons THEN "aborted" ELSE "pop"
    /\ canceled' = IF in_drop \/ poisons THEN canceled
                   ELSE canceled \cup {c \in handle' : sel[c] # "done"}

\* check_panic joins the coroutine and goes on with its panic, under the lock of the
\* selectors: that poisons the Mutex, unless the owner is cancelled.
CheckPanic ==
    /\ pc = "check_panic"
    /\ \/ /\ is_panicking
          /\ pc' = "pop" /\ ev' = NoEvent
          /\ UNCHANGED <<handle, is_panicking, unwinding, canceled, in_drop, timed, owner_canceled>>
       \/ /\ ~is_panicking /\ sel[ev.id] = "done"
          /\ handle' = handle \ {ev.id}
          /\ IF ev.id \notin panicked
             THEN /\ pc' = "pop" /\ ev' = NoEvent
                  /\ UNCHANGED <<is_panicking, unwinding, canceled, in_drop, timed, owner_canceled>>
             ELSE /\ is_panicking' = TRUE
                  /\ owner_canceled' \in {owner_canceled, TRUE}
                  /\ Unwind(~owner_canceled')
    /\ panicked' = panicked \ {ev.id}
    /\ UNCHANGED <<ev_queue, to_wake, cnt, sel, note, sent, token>>

\* A cancelled owner panics in poll or in the join of check_panic instead of waiting.
\* An event it holds goes with the coroutine in it, which is never resumed.
WaitCanceled ==
    /\ \/ pc = "park" /\ ~token /\ UNCHANGED handle
       \/ /\ pc = "check_panic" /\ ~is_panicking /\ sel[ev.id] # "done"
          /\ handle' = handle \ {ev.id}
    /\ Unwind(FALSE)
    /\ UNCHANGED <<ev_queue, to_wake, cnt, sel, note, sent, panicked, is_panicking, token>>

\* Coroutine::cancel of the owner: only its waits, and the Mutex, look at the bit.
CancelOwner == ~owner_canceled /\ owner_canceled' = TRUE /\ WaitCanceled

OwnerCanceled == owner_canceled /\ WaitCanceled /\ UNCHANGED owner_canceled

-----------------------------------------------------------------------------
Select(c) ==
    /\ pc # "aborted"
    /\ \/ Send(c) \/ Subscribed(c) \/ EndOfClosure(c) \/ SenderPush(c) \/ SenderCount(c)
       \/ SenderWake(c) \/ Ending(c)

\* The steps of a call of the owner; which calls it makes is not required.
Owner ==
    \/ AddCount \/ Pop \/ CheckCount \/ Register \/ Repop \/ Park
    \/ CheckPanic \/ OwnerCanceled

Next ==
    \/ Owner \/ StartPoll \/ CancelOwner
    \/ \E panics \in BOOLEAN : StartDrop(panics)
    \/ \E c \in Selectors : Select(c) \/ AddSpawn(c) \/ Remove(c)

Fairness == WF_vars(Owner) /\ \A c \in Selectors : WF_vars(Select(c))

Spec == Init /\ [][Next]_vars /\ Fairness

-----------------------------------------------------------------------------
\* Where every behaviour comes to once the drop of the queue has begun.
DropOver == in_drop => pc \in {"finished", "escaped", "aborted"}

\* When drop comes to its end the closures of the queue have ended.  A drop that a
\* closure's panic or the cancellation of the owner ends promises nothing.
ClosuresOver ==
    pc = "finished" =>
        \A c \in Selectors : sel[c] \notin {"running", "sent", "drop", "count"}

\* The last line of Cqueue::drop, cqueue.rs:307: "we are sure that all the
\* coroutines are finished".  Violated: the drop of an EventSender counts itself down
\* before it looks at to_wake, and the owner may leave in between.
AllFinished == pc = "finished" => \A c \in Selectors : sel[c] \in {"new", "ending", "done"}
=============================================================================
