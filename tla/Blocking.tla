------------------------------ MODULE Blocking ------------------------------
(***************************************************************************)
(* std/blocking/mod.rs: spawn_blocking runs a function on a thread of its  *)
(* own and receives the result from a channel.  A panic reaches the caller *)
(* through the panic hook, which is one for the whole process: the thread  *)
(* sets it to a function that sends an error to the caller.                *)
(***************************************************************************)
EXTENDS Integers, Sequences

CONSTANTS Calls, Null,
          MaxPanics   \* bound: messages that wait for a call

VARIABLES
    hook,       \* the call that the panic hook answers
    chan,       \* the messages in the channel of each call
    thread,     \* where the thread of each call is
    outcome,    \* what the function of each call came to
    result,     \* what each call returned
    disturbed   \* calls that the panic of another thread answered

vars == <<hook, chan, thread, outcome, result, disturbed>>

Outcomes == {"ok", "err"}

TypeOK ==
    /\ hook \in Calls \cup {Null}
    /\ chan \in [Calls -> Seq(Outcomes)]
    /\ thread \in [Calls -> {"new", "hook", "run", "panic", "send", "gone"}]
    /\ outcome \in [Calls -> Outcomes \cup {Null}]
    /\ result \in [Calls -> Outcomes \cup {Null}]
    /\ disturbed \subseteq Calls

Init ==
    /\ hook = Null
    /\ chan = [c \in Calls |-> <<>>]
    /\ thread = [c \in Calls |-> "new"]
    /\ outcome = [c \in Calls |-> Null]
    /\ result = [c \in Calls |-> Null]
    /\ disturbed = {}

Goto(c, l) == thread' = [thread EXCEPT ![c] = l]

\* Calls that have not returned.
Pending == {c \in Calls : thread[c] # "new" /\ result[c] = Null}

\* The system may refuse the thread.
Spawn(c) ==
    /\ thread[c] = "new"
    /\ \/ Goto(c, "hook") /\ UNCHANGED <<outcome, result>>
       \/ /\ Goto(c, "gone")
          /\ outcome' = [outcome EXCEPT ![c] = "err"]
          /\ result' = [result EXCEPT ![c] = "err"]
    /\ UNCHANGED <<hook, chan, disturbed>>

SetHook(c) ==
    /\ thread[c] = "hook"
    /\ hook' = c
    /\ Goto(c, "run")
    /\ UNCHANGED <<chan, outcome, result, disturbed>>

RunTask(c) ==
    /\ thread[c] = "run"
    /\ \E o \in Outcomes :
          /\ outcome' = [outcome EXCEPT ![c] = o]
          /\ Goto(c, IF o = "ok" THEN "send" ELSE "panic")
    /\ UNCHANGED <<hook, chan, result, disturbed>>

SendOk(c) ==
    /\ thread[c] = "send"
    /\ chan' = [chan EXCEPT ![c] = Append(@, "ok")]
    /\ Goto(c, "gone")
    /\ UNCHANGED <<hook, outcome, result, disturbed>>

\* Mutant: the hook is taken for its own, but answers with success.
PanicHookForgets(c) ==
    /\ thread[c] = "panic"
    /\ chan' = [chan EXCEPT ![hook] = Append(@, "ok")]
    /\ disturbed' = disturbed \cup ({hook} \ {c})
    /\ Goto(c, "gone")
    /\ UNCHANGED <<hook, outcome, result>>

\* The hook answers the call that set it last, whoever panics.
PanicHook(c) ==
    /\ thread[c] = "panic"
    /\ chan' = [chan EXCEPT ![hook] = Append(@, "err")]
    /\ disturbed' = disturbed \cup ({hook} \ {c})
    /\ Goto(c, "gone")
    /\ UNCHANGED <<hook, outcome, result>>

\* Any other thread or coroutine panics.
OtherPanics ==
    /\ hook \in Pending
    /\ Len(chan[hook]) < MaxPanics
    /\ chan' = [chan EXCEPT ![hook] = Append(@, "err")]
    /\ disturbed' = disturbed \cup {hook}
    /\ UNCHANGED <<hook, thread, outcome, result>>

\* recv takes the first message; the error of a call whose senders are gone, the
\* thread's own and the one in a hook that was replaced, says Disconnected.
Recv(c) ==
    /\ c \in Pending
    /\ \/ chan[c] # <<>> /\ result' = [result EXCEPT ![c] = Head(chan[c])]
       \/ chan[c] = <<>> /\ thread[c] = "gone" /\ hook # c /\ result' = [result EXCEPT ![c] = "err"]
    /\ UNCHANGED <<hook, chan, thread, outcome, disturbed>>

Next ==
    \/ OtherPanics
    \/ \E c \in Calls : Spawn(c) \/ SetHook(c) \/ RunTask(c) \/ SendOk(c) \/ PanicHook(c) \/ Recv(c)

Spec == Init /\ [][Next]_vars

-----------------------------------------------------------------------------
\* blocking/mod.rs:41-55.  A call returns what its own function came to, also when others
\* replace the hook meanwhile, unless the panic of another thread has been sent to it.
AnswersItself == \A c \in Calls \ disturbed : result[c] # Null => result[c] = outcome[c]
=============================================================================
