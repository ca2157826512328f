---------------------------- MODULE CondvarProofs ----------------------------
(***************************************************************************)
(* The condition variable loses no notify_one on a wait that times out or  *)
(* is cancelled and passes none on twice, and the wait group built on it   *)
(* releases its waits only when all references are gone; for any number of *)
(* calls.                                                                  *)
(***************************************************************************)
EXTENDS WaitGroup, CollectionLemmas

-----------------------------------------------------------------------------
(* The inductive invariant of the condition variable and its plain client. *)

Queued == Range(to_wake)

BeforeWait == {"idle", "first_reg", "first_park", "push"}
GaveUp == {"timed_out", "gave_up", "cancel_unlock", "canceled"}
ClientLabels ==
    BeforeWait \cup WaitLabels \cup NotifyLabels \cup GaveUp \cup {"returned", "woken", "notified"}

\* Where a wait may be whose blocker is still queued.
QueuedLabels == (WaitLabels \ {"push", "retake"}) \cup GaveUp

\* n has popped the blocker of c, with notify_one and not yet published it, or
\* with either notify.
Notifying(n, c) == target[n] = c /\ pc[n] \in {"unpark", "store_unparked"}
ServingLabels ==
    {"unpark", "store_unparked", "take_release", "unpark_all", "store_unparked_all"}
Serving(n, c) == target[n] = c /\ pc[n] \in ServingLabels

ClientTypeOK ==
    /\ to_wake \in Seq(Calls)
    /\ pc \in [Calls -> ClientLabels]
    /\ target \in [Calls -> Calls]
    /\ result \in [Calls -> {"ok", "timed_out", "canceled"}]
    /\ ret \in [Calls -> {"notified", "returned", "timed_out", "cancel_unlock"}]
    /\ note \in [Calls -> {"none", "one", "passed", "twice"}]
    /\ BlockerTypeOK

\* A blocker is pushed once and popped once, and untouched until it is popped.
QueueInv(c) ==
    /\ pc[c] \in BeforeWait => /\ c \notin Queued /\ note[c] = "none"
                              /\ ~token[c] /\ ~unparked[c] /\ ~release[c]
    /\ c \in Queued => /\ pc[c] \in QueuedLabels /\ note[c] = "none"
                       /\ ~token[c] /\ ~unparked[c]
                       /\ pc[c] \in {"recheck"} \cup GaveUp => release[c]
                       /\ pc[c] \in {"lock", "lock_reg", "lock_park", "is_unparked", "set_release",
                                     "recheck"} => result[c] # "ok"
    /\ \A n \in Calls : Serving(n, c) => c \notin Queued /\ pc[c] \notin BeforeWait

\* A notification is passed on by whoever takes the release flag, or by the wait
\* that found itself notified and has not set it.
PassInv(c) ==
    /\ note[c] # "twice"
    /\ pc[c] \in {"unlock", "park", "lock", "lock_reg", "lock_park", "is_unparked",
                  "set_release"} =>
          ~release[c] /\ note[c] # "passed"
    /\ note[c] = "passed" => ~release[c]
    /\ pc[c] = "retake" => unparked[c]

\* As long as it is not passed on, somebody is about to: the wait, which is
\* awake or will be, or the notifier, which will find the release flag set.
NoteInv(c) ==
    note[c] = "one" =>
        /\ pc[c] \notin NotifyLabels \cup {"notified"}
        /\ ~unparked[c] => \E n \in Calls : Notifying(n, c)
        /\ pc[c] \in {"unlock", "park"} =>
              token[c] \/ \E n \in Calls : target[n] = c /\ pc[n] = "unpark"
        /\ pc[c] \in {"recheck", "retake"} \cup GaveUp => release[c]
        /\ pc[c] \in GaveUp =>
              \E n \in Calls : target[n] = c
                  /\ pc[n] \in {"unpark", "store_unparked", "take_release"}

ClientInv ==
    /\ IsInjective(to_wake)
    /\ \A c \in Calls : QueueInv(c) /\ PassInv(c) /\ NoteInv(c)

\* A call of notify_one or notify_all begins.
Starts(c) ==
    /\ c \in Notifiers /\ pc[c] = "idle"
    /\ \E l \in {"pop", "pop_all"} : Goto(c, l)
    /\ UNCHANGED <<mutex, to_wake, target, result, ret, note, blockerVars>>

-----------------------------------------------------------------------------
(* Types of the plain client.                                              *)

\* Every step keeps the variables to their types.
LEMMA ClientTypeNext ==
    ASSUME ClientTypeOK, [ClientNext]_vars
    PROVE  ClientTypeOK'
<1>. USE DEF ClientTypeOK, ClientLabels, BeforeWait, WaitLabels, NotifyLabels, GaveUp, Goto,
         BlockerTypeOK, blockerVars
<1>1. ASSUME NEW c \in Calls, LockTry(c, "idle", "push", "first_reg") PROVE ClientTypeOK'
    BY Zenon, <1>1 DEF LockTry
<1>2. ASSUME NEW c \in Calls, LockTry(c, "lock", Relocked(c), "lock_reg") PROVE ClientTypeOK'
    BY Zenon, <1>2 DEF LockTry, Relocked
<1>3. ASSUME NEW c \in Calls,
             LockRegister(c, "first_reg", "first_park") \/ LockRegister(c, "lock_reg", "lock_park")
      PROVE  ClientTypeOK'
    BY <1>3 DEF LockRegister
<1>4. ASSUME NEW c \in Calls,
             LockReturn(c, "first_park", "push") \/ LockReturn(c, "lock_park", Relocked(c))
      PROVE  ClientTypeOK'
    BY <1>4 DEF LockReturn, Relocked
<1>5. ASSUME NEW c \in Calls,
             \/ Unlock(c, "unlock", "park") \/ Unlock(c, "cancel_unlock", "canceled")
                                  \/ Unlock(c, "returned", "woken")
                                  \/ Unlock(c, "timed_out", "gave_up") PROVE ClientTypeOK'
    BY <1>5 DEF Unlock
<1>6. ASSUME NEW c \in Calls, Push(c) PROVE ClientTypeOK'
  <2>1. Append(to_wake, c) \in Seq(Calls)
      OBVIOUS
  <2>. QED BY Zenon, <1>6, <2>1 DEF Push
<1>7. ASSUME NEW c \in Calls, ParkReturns(c) PROVE ClientTypeOK'
    BY Zenon, <1>7 DEF ParkReturns, ParkOk
<1>8. ASSUME NEW c \in Calls, ClientFail(c) PROVE ClientTypeOK'
    BY <1>8 DEF ClientFail, ParkFails, ParkErr
<1>9. ASSUME NEW c \in Calls, IsUnparked(c) PROVE ClientTypeOK'
    BY Zenon, <1>9 DEF IsUnparked, PassOn, Passed, Settled
<1>10. ASSUME NEW c \in Calls, WaitSetRelease(c) PROVE ClientTypeOK'
    BY Zenon, <1>10 DEF WaitSetRelease, SetRelease
<1>11. ASSUME NEW c \in Calls, Recheck(c) PROVE ClientTypeOK'
    BY Zenon, <1>11 DEF Recheck, Settled
<1>12. ASSUME NEW c \in Calls, Retake(c) PROVE ClientTypeOK'
    BY Zenon, <1>12 DEF Retake, TakeRelease, PassOn, Passed, Settled
<1>13. ASSUME NEW c \in Calls, Starts(c) PROVE ClientTypeOK'
    BY <1>13 DEF Starts
<1>14. ASSUME NEW c \in Calls, PopOne(c) PROVE ClientTypeOK'
  <2>1. to_wake # <<>> => Head(to_wake) \in Calls /\ Tail(to_wake) \in Seq(Calls)
      OBVIOUS
  <2>2. CASE to_wake = <<>>
      BY <1>14, <2>2 DEF PopOne
  <2>3. CASE to_wake # <<>>
    <3>1. /\ target' \in [Calls -> Calls] /\ to_wake' \in Seq(Calls)
          /\ note' \in [Calls -> {"none", "one", "passed", "twice"}]
        BY ZenonT(40), <1>14, <2>1, <2>3 DEF PopOne
    <3>2. pc' = [pc EXCEPT ![c] = "unpark"] /\ UNCHANGED <<result, ret, blockerVars>>
        BY Zenon, <1>14, <2>3 DEF PopOne
    <3>. QED BY Zenon, <3>1, <3>2
  <2>. QED BY Zenon, <2>2, <2>3
<1>15. ASSUME NEW c \in Calls, PopAll(c, "notified") PROVE ClientTypeOK'
  <2>1. to_wake # <<>> => Head(to_wake) \in Calls /\ Tail(to_wake) \in Seq(Calls)
      OBVIOUS
  <2>. QED BY <1>15, <2>1 DEF PopAll
<1>16. ASSUME NEW c \in Calls, NotifyUnpark(c) PROVE ClientTypeOK'
    BY Zenon, <1>16 DEF NotifyUnpark, BlockerUnpark
<1>17. ASSUME NEW c \in Calls, NotifyStore(c) PROVE ClientTypeOK'
    BY Zenon, <1>17 DEF NotifyStore, StoreUnparked
<1>18. ASSUME NEW c \in Calls, NotifyTakeRelease(c) PROVE ClientTypeOK'
    BY Zenon, <1>18 DEF NotifyTakeRelease, TakeRelease, Passed
<1>19. CASE UNCHANGED vars
    BY Zenon, <1>19 DEF vars, cvVars
<1>. HIDE DEF ClientTypeOK, ClientLabels, BeforeWait, WaitLabels, NotifyLabels, GaveUp, Goto,
         BlockerTypeOK, blockerVars
<1>. QED
    BY Zenon, <1>1, <1>2, <1>3, <1>4, <1>5, <1>6, <1>7, <1>8, <1>9, <1>10, <1>11, <1>12, <1>13,
       <1>14,
       <1>15, <1>16, <1>17, <1>18, <1>19
    DEF ClientNext, ClientStep, WaitImpl, Notify, Starts

-----------------------------------------------------------------------------
(* The invariant of the client.                                            *)

\* The first states.
LEMMA ClientInitInv ==
    ASSUME ClientInit
    PROVE  ClientTypeOK /\ ClientInv
<1>. USE DEF ClientInit, CvInit, BlockerInit
<1>1. ClientTypeOK
    BY DEF ClientTypeOK, ClientLabels, BeforeWait, BlockerTypeOK
<1>2. Queued = {} /\ IsInjective(to_wake)
    BY DEF Queued, Range, IsInjective
<1>3. ASSUME NEW c \in Calls PROVE QueueInv(c) /\ PassInv(c) /\ NoteInv(c)
    BY Zenon, <1>2 DEF QueueInv, PassInv, NoteInv, BeforeWait, Serving, ServingLabels
<1>. QED BY Zenon, <1>1, <1>2, <1>3 DEF ClientInv

\* Nobody starts or ends serving the blocker of d, or gets on with it.
SameServers(d) ==
    \A n \in Calls : Serving(n, d) \/ Serving(n, d)' => target'[n] = target[n] /\ pc'[n] = pc[n]

\* Nothing that concerns d happens in this step.
Untouched(d) ==
    /\ pc'[d] = pc[d] /\ note'[d] = note[d] /\ token'[d] = token[d]
    /\ unparked'[d] = unparked[d] /\ release'[d] = release[d] /\ result'[d] = result[d]
    /\ d \in Queued' <=> d \in Queued

\* A step of a wait concerns that wait alone.
LEMMA OthersKept ==
    ASSUME ClientInv, NEW d \in Calls, SameServers(d), Untouched(d)
    PROVE  QueueInv(d)' /\ PassInv(d)' /\ NoteInv(d)'
<1>1. \A n \in Calls : Serving(n, d)' <=> Serving(n, d)
    BY Zenon DEF SameServers, Serving
<1>2. \A n \in Calls : Notifying(n, d)' <=> Notifying(n, d)
    BY Zenon DEF SameServers, Serving, Notifying, ServingLabels
<1>3. QueueInv(d)'
    BY Zenon, <1>1 DEF ClientInv, QueueInv, Untouched
<1>4. PassInv(d)'
    BY Zenon DEF ClientInv, PassInv, Untouched
<1>5. NoteInv(d)'
  <2>. SUFFICES ASSUME note[d] = "one" PROVE NoteInv(d)'
      BY Zenon DEF NoteInv, Untouched
  <2>1. ~unparked[d] => \E n \in Calls : Notifying(n, d)'
      BY Zenon, <1>2 DEF ClientInv, NoteInv
  <2>2. pc[d] \in {"unlock", "park"} =>
            token[d] \/ \E n \in Calls : target'[n] = d /\ pc'[n] = "unpark"
      BY DEF ClientInv, NoteInv, SameServers, Serving, ServingLabels
  <2>3. pc[d] \in GaveUp => \E n \in Calls :
            target'[n] = d /\ pc'[n] \in {"unpark", "store_unparked", "take_release"}
      BY DEF ClientInv, NoteInv, SameServers, Serving, ServingLabels
  <2>. QED BY Zenon, <2>1, <2>2, <2>3 DEF ClientInv, NoteInv, Untouched
<1>. QED BY Zenon, <1>3, <1>4, <1>5

\* The steps of a wait, and those of a notifier that has no blocker in hand.
LEMMA WaitInv ==
    ASSUME ClientTypeOK, ClientInv, NEW c \in Calls,
           \/ LockTry(c, "idle", "push", "first_reg")
           \/ LockTry(c, "lock", Relocked(c), "lock_reg")
           \/ LockRegister(c, "first_reg", "first_park")
           \/ LockRegister(c, "lock_reg", "lock_park")
           \/ LockReturn(c, "first_park", "push") \/ LockReturn(c, "lock_park", Relocked(c))
           \/ Unlock(c, "unlock", "park") \/ Unlock(c, "cancel_unlock", "canceled")
           \/ Unlock(c, "returned", "woken") \/ Unlock(c, "timed_out", "gave_up")
           \/ Push(c)
           \/ ParkReturns(c)
           \/ ClientFail(c)
           \/ IsUnparked(c)
           \/ WaitSetRelease(c)
           \/ Recheck(c)
           \/ Retake(c)
           \/ Starts(c)
    PROVE  ClientInv'
<1>. USE DEF ClientTypeOK, BlockerTypeOK, blockerVars, Goto, ClientLabels, BeforeWait, WaitLabels,
             NotifyLabels, GaveUp, QueuedLabels, ServingLabels
<1>1. CASE LockTry(c, "idle", "push", "first_reg")
  <2>1. \A d \in Calls : SameServers(d)
      BY <1>1 DEF SameServers, Serving, LockTry
  <2>2. Queued' = Queued /\ IsInjective(to_wake)'
      BY Zenon, <1>1 DEF LockTry, Queued, ClientInv
  <2>3. ASSUME NEW d \in Calls, d # c PROVE QueueInv(d)' /\ PassInv(d)' /\ NoteInv(d)'
    <3>1. Untouched(d)
        BY Zenon, <1>1, <2>2, <2>3 DEF Untouched, LockTry
    <3>. QED BY Zenon, <2>1, <3>1, OthersKept
  <2>4. QueueInv(c)'
      BY <1>1, <2>1, <2>2 DEF ClientInv, QueueInv, PassInv, SameServers, Serving, LockTry
  <2>5. PassInv(c)'
      BY Zenon, <1>1, <2>1, <2>2 DEF ClientInv, QueueInv, PassInv, LockTry
  <2>6. NoteInv(c)'
      BY Zenon, <1>1, <2>1, <2>2 DEF ClientInv, QueueInv, PassInv, NoteInv, SameServers, Serving,
         Notifying, LockTry
  <2>. QED BY Zenon, <2>2, <2>3, <2>4, <2>5, <2>6 DEF ClientInv
<1>2. CASE LockTry(c, "lock", Relocked(c), "lock_reg")
  <2>1. \A d \in Calls : SameServers(d)
      BY <1>2 DEF SameServers, Serving, LockTry, Relocked
  <2>2. Queued' = Queued /\ IsInjective(to_wake)'
      BY Zenon, <1>2 DEF LockTry, Relocked, Queued, ClientInv
  <2>3. ASSUME NEW d \in Calls, d # c PROVE QueueInv(d)' /\ PassInv(d)' /\ NoteInv(d)'
    <3>1. Untouched(d)
        BY Zenon, <1>2, <2>2, <2>3 DEF Untouched, LockTry, Relocked
    <3>. QED BY Zenon, <2>1, <3>1, OthersKept
  <2>4. QueueInv(c)'
      BY <1>2, <2>1, <2>2 DEF ClientInv, QueueInv, PassInv, SameServers, Serving, LockTry, Relocked
  <2>5. PassInv(c)'
      BY Zenon, <1>2, <2>1, <2>2 DEF ClientInv, QueueInv, PassInv, LockTry, Relocked
  <2>6. NoteInv(c)'
      BY <1>2, <2>1, <2>2 DEF ClientInv, QueueInv, PassInv, NoteInv, SameServers, Serving,
         Notifying, LockTry, Relocked
  <2>. QED BY Zenon, <2>2, <2>3, <2>4, <2>5, <2>6 DEF ClientInv
<1>3. CASE LockRegister(c, "first_reg", "first_park") \/ LockRegister(c, "lock_reg", "lock_park")
  <2>1. \A d \in Calls : SameServers(d)
      BY <1>3 DEF SameServers, Serving, LockRegister
  <2>2. Queued' = Queued /\ IsInjective(to_wake)'
      BY Zenon, <1>3 DEF LockRegister, Queued, ClientInv
  <2>3. ASSUME NEW d \in Calls, d # c PROVE QueueInv(d)' /\ PassInv(d)' /\ NoteInv(d)'
    <3>1. Untouched(d)
        BY Zenon, <1>3, <2>2, <2>3 DEF Untouched, LockRegister
    <3>. QED BY Zenon, <2>1, <3>1, OthersKept
  <2>4. QueueInv(c)'
      BY <1>3, <2>1, <2>2 DEF ClientInv, QueueInv, PassInv, SameServers, Serving, LockRegister
  <2>5. PassInv(c)'
      BY <1>3, <2>1, <2>2 DEF ClientInv, QueueInv, PassInv, LockRegister
  <2>6. NoteInv(c)'
      BY <1>3, <2>1, <2>2 DEF ClientInv, QueueInv, PassInv, NoteInv, SameServers, Serving,
         Notifying, LockRegister
  <2>. QED BY Zenon, <2>2, <2>3, <2>4, <2>5, <2>6 DEF ClientInv
<1>4. CASE LockReturn(c, "first_park", "push") \/ LockReturn(c, "lock_park", Relocked(c))
  <2>1. \A d \in Calls : SameServers(d)
      BY <1>4 DEF SameServers, Serving, LockReturn, Relocked
  <2>2. Queued' = Queued /\ IsInjective(to_wake)'
      BY Zenon, <1>4 DEF LockReturn, Relocked, Queued, ClientInv
  <2>3. ASSUME NEW d \in Calls, d # c PROVE QueueInv(d)' /\ PassInv(d)' /\ NoteInv(d)'
    <3>1. Untouched(d)
        BY Zenon, <1>4, <2>2, <2>3 DEF Untouched, LockReturn, Relocked
    <3>. QED BY Zenon, <2>1, <3>1, OthersKept
  <2>4. QueueInv(c)'
      BY <1>4, <2>1, <2>2 DEF ClientInv, QueueInv, PassInv, SameServers, Serving, LockReturn,
         Relocked
  <2>5. PassInv(c)'
      BY <1>4, <2>1, <2>2 DEF ClientInv, QueueInv, PassInv, LockReturn, Relocked
  <2>6. NoteInv(c)'
      BY <1>4, <2>1, <2>2 DEF ClientInv, QueueInv, PassInv, NoteInv, SameServers, Serving,
         Notifying, LockReturn, Relocked
  <2>. QED BY Zenon, <2>2, <2>3, <2>4, <2>5, <2>6 DEF ClientInv
<1>5. CASE \/ Unlock(c, "unlock", "park") \/ Unlock(c, "cancel_unlock", "canceled")
           \/ Unlock(c, "returned", "woken") \/ Unlock(c, "timed_out", "gave_up")
  <2>1. \A d \in Calls : SameServers(d)
      BY <1>5 DEF SameServers, Serving, Unlock
  <2>2. Queued' = Queued /\ IsInjective(to_wake)'
      BY Zenon, <1>5 DEF Unlock, Queued, ClientInv
  <2>3. ASSUME NEW d \in Calls, d # c PROVE QueueInv(d)' /\ PassInv(d)' /\ NoteInv(d)'
    <3>1. Untouched(d)
        BY Zenon, <1>5, <2>2, <2>3 DEF Untouched, Unlock
    <3>. QED BY Zenon, <2>1, <3>1, OthersKept
  <2>4. QueueInv(c)'
      BY <1>5, <2>1, <2>2 DEF ClientInv, QueueInv, PassInv, SameServers, Serving, Unlock
  <2>5. PassInv(c)'
      BY <1>5, <2>1, <2>2 DEF ClientInv, QueueInv, PassInv, Unlock
  <2>6. NoteInv(c)'
      BY <1>5, <2>1, <2>2 DEF ClientInv, QueueInv, PassInv, NoteInv, SameServers, Serving,
         Notifying, Unlock
  <2>. QED BY Zenon, <2>2, <2>3, <2>4, <2>5, <2>6 DEF ClientInv
<1>6. CASE Push(c)
  <2>1. \A d \in Calls : SameServers(d)
      BY Zenon, <1>6 DEF SameServers, Serving, Push
  <2>2. /\ Queued' = Queued \cup {c} /\ IsInjective(to_wake')
      BY <1>6, QueueAppend DEF Push, Queued, ClientInv, QueueInv
  <2>3. ASSUME NEW d \in Calls, d # c PROVE QueueInv(d)' /\ PassInv(d)' /\ NoteInv(d)'
    <3>1. Untouched(d)
        BY Zenon, <1>6, <2>2, <2>3 DEF Untouched, Push
    <3>. QED BY Zenon, <2>1, <3>1, OthersKept
  <2>4. QueueInv(c)'
      BY <1>6, <2>1, <2>2 DEF ClientInv, QueueInv, PassInv, SameServers, Serving, Push
  <2>5. PassInv(c)'
      BY Zenon, <1>6, <2>1, <2>2 DEF ClientInv, QueueInv, PassInv, Push
  <2>6. NoteInv(c)'
      BY Zenon, <1>6, <2>1, <2>2 DEF ClientInv, QueueInv, PassInv, NoteInv, SameServers, Serving,
         Notifying, Push
  <2>. QED BY Zenon, <2>2, <2>3, <2>4, <2>5, <2>6 DEF ClientInv
<1>7. CASE ParkReturns(c)
  <2>1. \A d \in Calls : SameServers(d)
      BY Zenon, <1>7 DEF SameServers, Serving, ParkReturns, ParkOk
  <2>2. Queued' = Queued /\ IsInjective(to_wake)'
      BY Zenon, <1>7 DEF ParkReturns, ParkOk, Queued, ClientInv
  <2>3. ASSUME NEW d \in Calls, d # c PROVE QueueInv(d)' /\ PassInv(d)' /\ NoteInv(d)'
    <3>1. Untouched(d)
        BY Zenon, <1>7, <2>2, <2>3 DEF Untouched, ParkReturns, ParkOk
    <3>. QED BY Zenon, <2>1, <3>1, OthersKept
  <2>4. QueueInv(c)'
      BY <1>7, <2>1, <2>2 DEF ClientInv, QueueInv, PassInv, SameServers, Serving, ParkReturns,
         ParkOk
  <2>5. PassInv(c)'
      BY Zenon, <1>7, <2>1, <2>2 DEF ClientInv, QueueInv, PassInv, ParkReturns, ParkOk
  <2>6. NoteInv(c)'
      BY <1>7, <2>1, <2>2 DEF ClientInv, QueueInv, PassInv, NoteInv, SameServers, Serving,
         Notifying, ParkReturns, ParkOk
  <2>. QED BY Zenon, <2>2, <2>3, <2>4, <2>5, <2>6 DEF ClientInv
<1>8. CASE ClientFail(c)
  <2>1. \A d \in Calls : SameServers(d)
      BY <1>8 DEF SameServers, Serving, ClientFail, ParkFails, ParkErr
  <2>2. Queued' = Queued /\ IsInjective(to_wake)'
      BY Zenon, <1>8 DEF ClientFail, ParkFails, ParkErr, Queued, ClientInv
  <2>3. ASSUME NEW d \in Calls, d # c PROVE QueueInv(d)' /\ PassInv(d)' /\ NoteInv(d)'
    <3>1. Untouched(d)
        BY <1>8, <2>2, <2>3 DEF Untouched, ClientFail, ParkFails, ParkErr
    <3>. QED BY Zenon, <2>1, <3>1, OthersKept
  <2>4. QueueInv(c)'
      BY <1>8, <2>1, <2>2 DEF ClientInv, QueueInv, PassInv, SameServers, Serving, ClientFail,
         ParkFails, ParkErr
  <2>5. PassInv(c)'
      BY <1>8, <2>1, <2>2 DEF ClientInv, QueueInv, PassInv, ClientFail, ParkFails, ParkErr
  <2>6. NoteInv(c)'
      BY <1>8, <2>1, <2>2 DEF ClientInv, QueueInv, PassInv, NoteInv, SameServers, Serving,
         Notifying, ClientFail, ParkFails, ParkErr
  <2>. QED BY Zenon, <2>2, <2>3, <2>4, <2>5, <2>6 DEF ClientInv
<1>9. CASE IsUnparked(c)
  <2>1. \A d \in Calls : SameServers(d)
      BY Zenon, <1>9 DEF SameServers, Serving, IsUnparked, PassOn, Passed, Settled
  <2>2. Queued' = Queued /\ IsInjective(to_wake)'
      BY Zenon, <1>9 DEF IsUnparked, PassOn, Passed, Settled, Queued, ClientInv
  <2>3. ASSUME NEW d \in Calls, d # c PROVE QueueInv(d)' /\ PassInv(d)' /\ NoteInv(d)'
    <3>1. Untouched(d)
        BY Zenon, <1>9, <2>2, <2>3 DEF Untouched, IsUnparked, PassOn, Passed, Settled
    <3>. QED BY Zenon, <2>1, <3>1, OthersKept
  <2>4. QueueInv(c)'
      BY <1>9, <2>1, <2>2 DEF ClientInv, QueueInv, PassInv, SameServers, Serving, IsUnparked,
         PassOn, Passed, Settled
  <2>5. PassInv(c)'
      BY Zenon, <1>9, <2>1, <2>2 DEF ClientInv, QueueInv, PassInv, IsUnparked, PassOn, Passed,
         Settled
  <2>6. NoteInv(c)'
      BY <1>9, <2>1, <2>2 DEF ClientInv, QueueInv, PassInv, NoteInv, SameServers, Serving,
         Notifying, IsUnparked, PassOn, Passed, Settled
  <2>. QED BY Zenon, <2>2, <2>3, <2>4, <2>5, <2>6 DEF ClientInv
<1>10. CASE WaitSetRelease(c)
  <2>1. \A d \in Calls : SameServers(d)
      BY Zenon, <1>10 DEF SameServers, Serving, WaitSetRelease, SetRelease
  <2>2. Queued' = Queued /\ IsInjective(to_wake)'
      BY Zenon, <1>10 DEF WaitSetRelease, SetRelease, Queued, ClientInv
  <2>3. ASSUME NEW d \in Calls, d # c PROVE QueueInv(d)' /\ PassInv(d)' /\ NoteInv(d)'
    <3>1. Untouched(d)
        BY Zenon, <1>10, <2>2, <2>3 DEF Untouched, WaitSetRelease, SetRelease
    <3>. QED BY Zenon, <2>1, <3>1, OthersKept
  <2>4. QueueInv(c)'
      BY <1>10, <2>1, <2>2 DEF ClientInv, QueueInv, PassInv, SameServers, Serving,
         WaitSetRelease, SetRelease
  <2>5. PassInv(c)'
      BY Zenon, <1>10, <2>1, <2>2 DEF ClientInv, QueueInv, PassInv, WaitSetRelease, SetRelease
  <2>6. NoteInv(c)'
      BY <1>10, <2>1, <2>2 DEF ClientInv, QueueInv, PassInv, NoteInv, SameServers, Serving,
         Notifying, WaitSetRelease, SetRelease
  <2>. QED BY Zenon, <2>2, <2>3, <2>4, <2>5, <2>6 DEF ClientInv
<1>11. CASE Recheck(c)
  <2>1. \A d \in Calls : SameServers(d)
      BY Zenon, <1>11 DEF SameServers, Serving, Recheck, Settled
  <2>2. Queued' = Queued /\ IsInjective(to_wake)'
      BY Zenon, <1>11 DEF Recheck, Settled, Queued, ClientInv
  <2>3. ASSUME NEW d \in Calls, d # c PROVE QueueInv(d)' /\ PassInv(d)' /\ NoteInv(d)'
    <3>1. Untouched(d)
        BY Zenon, <1>11, <2>2, <2>3 DEF Untouched, Recheck, Settled
    <3>. QED BY Zenon, <2>1, <3>1, OthersKept
  <2>4. QueueInv(c)'
      BY <1>11, <2>1, <2>2 DEF ClientInv, QueueInv, PassInv, SameServers, Serving, Recheck, Settled
  <2>5. PassInv(c)'
      BY Zenon, <1>11, <2>1, <2>2 DEF ClientInv, QueueInv, PassInv, Recheck, Settled
  <2>6. NoteInv(c)'
      BY <1>11, <2>1, <2>2 DEF ClientInv, QueueInv, PassInv, NoteInv, SameServers, Serving,
         Notifying, Recheck, Settled
  <2>. QED BY Zenon, <2>2, <2>3, <2>4, <2>5, <2>6 DEF ClientInv
<1>12. CASE Retake(c)
  <2>1. \A d \in Calls : SameServers(d)
      BY Zenon, <1>12 DEF SameServers, Serving, Retake, TakeRelease, PassOn, Passed, Settled
  <2>2. Queued' = Queued /\ IsInjective(to_wake)'
      BY Zenon, <1>12 DEF Retake, TakeRelease, PassOn, Passed, Settled, Queued, ClientInv
  <2>3. ASSUME NEW d \in Calls, d # c PROVE QueueInv(d)' /\ PassInv(d)' /\ NoteInv(d)'
    <3>1. Untouched(d)
        BY Zenon, <1>12, <2>2, <2>3 DEF Untouched, Retake, TakeRelease, PassOn, Passed, Settled
    <3>. QED BY Zenon, <2>1, <3>1, OthersKept
  <2>4. QueueInv(c)'
      BY <1>12, <2>1, <2>2 DEF ClientInv, QueueInv, PassInv, SameServers, Serving, Retake,
         TakeRelease, PassOn, Passed, Settled
  <2>5. PassInv(c)'
      BY <1>12, <2>1, <2>2 DEF ClientInv, QueueInv, PassInv, Retake, TakeRelease, PassOn,
         Passed, Settled
  <2>6. NoteInv(c)'
      BY <1>12, <2>1, <2>2 DEF ClientInv, QueueInv, PassInv, NoteInv, SameServers, Serving,
         Notifying, Retake, TakeRelease, PassOn, Passed, Settled
  <2>. QED BY Zenon, <2>2, <2>3, <2>4, <2>5, <2>6 DEF ClientInv
<1>13. CASE Starts(c)
  <2>1. \A d \in Calls : SameServers(d)
      BY Zenon, <1>13 DEF SameServers, Serving, Starts
  <2>2. Queued' = Queued /\ IsInjective(to_wake)'
      BY Zenon, <1>13 DEF Starts, Queued, ClientInv
  <2>3. ASSUME NEW d \in Calls, d # c PROVE QueueInv(d)' /\ PassInv(d)' /\ NoteInv(d)'
    <3>1. Untouched(d)
        BY Zenon, <1>13, <2>2, <2>3 DEF Untouched, Starts
    <3>. QED BY Zenon, <2>1, <3>1, OthersKept
  <2>4. QueueInv(c)'
      BY <1>13, <2>1, <2>2 DEF ClientInv, QueueInv, PassInv, SameServers, Serving, Starts
  <2>5. PassInv(c)'
      BY Zenon, <1>13, <2>1, <2>2 DEF ClientInv, QueueInv, PassInv, Starts
  <2>6. NoteInv(c)'
      BY Zenon, <1>13, <2>1, <2>2 DEF ClientInv, QueueInv, PassInv, NoteInv, SameServers, Serving,
         Notifying, Starts
  <2>. QED BY Zenon, <2>2, <2>3, <2>4, <2>5, <2>6 DEF ClientInv
<1>. HIDE DEF ClientTypeOK, BlockerTypeOK, blockerVars, Goto, ClientLabels, BeforeWait,
              WaitLabels, NotifyLabels, GaveUp, QueuedLabels, ServingLabels
<1>. QED BY Zenon, <1>1, <1>2, <1>3, <1>4, <1>5, <1>6, <1>7, <1>8, <1>9, <1>10, <1>11, <1>12, <1>13

\* notify_one and notify_all take the next blocker out of the queue.
LEMMA PopInv ==
    ASSUME ClientTypeOK, ClientInv, NEW c \in Calls, PopOne(c) \/ PopAll(c, "notified")
    PROVE  ClientInv'
<1>. USE DEF ClientTypeOK, BlockerTypeOK, blockerVars, Goto, ClientLabels, BeforeWait, WaitLabels,
             NotifyLabels, GaveUp, QueuedLabels, ServingLabels
<1>0. /\ c \notin Queued /\ note[c] # "one" /\ pc[c] \in {"pop", "pop_all"}
      /\ UNCHANGED <<token, unparked, release, result>>
    BY Zenon DEF ClientInv, QueueInv, NoteInv, PopOne, PopAll
<1>1. CASE to_wake = <<>>
  <2>1. /\ pc'[c] \in {"notified", "returned", "timed_out", "cancel_unlock"}
        /\ \A d \in Calls : d # c => pc'[d] = pc[d]
        /\ UNCHANGED <<to_wake, target, note>>
      BY Zenon, <1>1 DEF PopOne, PopAll
  <2>2. \A d \in Calls : SameServers(d)
      BY Zenon, <1>0, <2>1 DEF SameServers, Serving
  <2>3. ASSUME NEW d \in Calls, d # c PROVE QueueInv(d)' /\ PassInv(d)' /\ NoteInv(d)'
    <3>1. Untouched(d)
        BY Zenon, <1>0, <2>1, <2>3 DEF Untouched, Queued
    <3>. QED BY Zenon, <2>2, <3>1, OthersKept
  <2>4. QueueInv(c)' /\ PassInv(c)' /\ NoteInv(c)'
      BY Zenon, <1>0, <2>1, <2>2 DEF ClientInv, QueueInv, PassInv, NoteInv, SameServers, Serving,
         Queued
  <2>. QED BY Zenon, <2>1, <2>3, <2>4 DEF ClientInv
<1>2. CASE to_wake # <<>>
  <2>1. PICK h \in Calls : h = Head(to_wake)
      BY <1>2
  <2>2. /\ h \in Queued /\ Queued' = Queued \ {h} /\ IsInjective(to_wake')
    <3>1. to_wake' = Tail(to_wake)
        BY Zenon, <1>2 DEF PopOne, PopAll
    <3>. QED BY Zenon, <1>2, <2>1, <3>1, QueueTail DEF Queued, ClientInv
  <2>3. /\ h # c /\ target'[c] = h /\ pc'[c] \in {"unpark", "unpark_all"}
        /\ \A d \in Calls : d # c => pc'[d] = pc[d] /\ target'[d] = target[d]
        /\ \A d \in Calls : d # h => note'[d] = note[d]
        /\ note'[h] = note[h] \/ (note'[h] = "one" /\ pc'[c] = "unpark")
      BY <1>0, <1>2, <2>1, <2>2 DEF PopOne, PopAll
  <2>4. ASSUME NEW d \in Calls, d # h PROVE SameServers(d)
      BY Zenon, <1>0, <2>3, <2>4 DEF SameServers, Serving
  <2>5. ASSUME NEW d \in Calls, d # h, d # c PROVE QueueInv(d)' /\ PassInv(d)' /\ NoteInv(d)'
    <3>1. Untouched(d)
        BY Zenon, <1>0, <2>2, <2>3, <2>5 DEF Untouched
    <3>. QED BY Zenon, <2>4, <2>5, <3>1, OthersKept
  <2>6. QueueInv(c)' /\ PassInv(c)' /\ NoteInv(c)'
      BY Zenon, <1>0, <2>2, <2>3, <2>4 DEF ClientInv, QueueInv, PassInv, NoteInv, SameServers,
         Serving
  <2>7. QueueInv(h)' /\ PassInv(h)'
      BY Zenon, <1>0, <2>2, <2>3 DEF ClientInv, QueueInv, PassInv, Serving
  <2>8. NoteInv(h)'
    <3>. SUFFICES ASSUME note'[h] = "one" PROVE NoteInv(h)'
        BY Zenon DEF NoteInv
    <3>1. pc'[c] = "unpark" /\ pc'[h] = pc[h] /\ h \in Queued
        BY Zenon, <2>2, <2>3 DEF ClientInv, QueueInv
    <3>2. Notifying(c, h)'
        BY Zenon, <2>3, <3>1 DEF Notifying
    <3>3. /\ pc[h] \notin NotifyLabels \cup {"notified"}
          /\ pc[h] \in {"recheck", "retake"} \cup GaveUp => release[h]
        BY Zenon, <3>1 DEF ClientInv, QueueInv
    <3>. QED BY Zenon, <1>0, <2>3, <3>1, <3>2, <3>3 DEF NoteInv
  <2>. QED BY Zenon, <2>2, <2>5, <2>6, <2>7, <2>8 DEF ClientInv
<1>. QED BY Zenon, <1>1, <1>2

\* The rest of a notify, with the blocker in hand.
LEMMA ServeInv ==
    ASSUME ClientTypeOK, ClientInv, NEW c \in Calls,
           NotifyUnpark(c) \/ NotifyStore(c) \/ NotifyTakeRelease(c)
    PROVE  ClientInv'
<1>. USE DEF ClientTypeOK, BlockerTypeOK, blockerVars, Goto, ClientLabels, BeforeWait, WaitLabels,
             NotifyLabels, GaveUp, QueuedLabels, ServingLabels
<1>1. PICK t \in Calls : t = target[c]
    BY Zenon
<1>2. /\ pc[c] \in ServingLabels /\ note[c] # "one" /\ c \notin Queued /\ t \notin Queued
      /\ pc[t] \notin BeforeWait /\ UNCHANGED <<to_wake, target, result>>
      /\ \A d \in Calls : d # c => pc'[d] = pc[d]
      /\ \A d \in Calls : d # t => /\ token'[d] = token[d] /\ unparked'[d] = unparked[d]
                                   /\ release'[d] = release[d] /\ note'[d] = note[d]
    BY <1>1 DEF ClientInv, QueueInv, NoteInv, Serving, NotifyUnpark, NotifyStore, NotifyTakeRelease,
                BlockerUnpark, StoreUnparked, TakeRelease
<1>3. pc'[c] \notin BeforeWait \cup (WaitLabels \ {"cancel_unlock"})
    BY DEF NotifyUnpark, NotifyStore, NotifyTakeRelease
<1>4. ASSUME NEW d \in Calls, d # t PROVE SameServers(d)
    BY Zenon, <1>1, <1>2, <1>4 DEF SameServers, Serving
<1>5. ASSUME NEW d \in Calls, d # t, d # c PROVE QueueInv(d)' /\ PassInv(d)' /\ NoteInv(d)'
  <2>1. Untouched(d)
      BY Zenon, <1>2, <1>5 DEF Untouched, Queued
  <2>. QED BY Zenon, <1>4, <1>5, <2>1, OthersKept
<1>6. note'[c] # "one" /\ note'[c] # "twice" /\ (note'[c] = "passed" => ~release'[c])
    BY <1>1, <1>2 DEF ClientInv, PassInv, NotifyUnpark, NotifyStore, NotifyTakeRelease,
                BlockerUnpark, StoreUnparked, TakeRelease, Passed
<1>7. QueueInv(c)' /\ PassInv(c)' /\ NoteInv(c)'
    BY Zenon, <1>2, <1>3, <1>6 DEF QueueInv, PassInv, NoteInv, Queued
<1>8. CASE t # c
  <2>1. QueueInv(t)'
      BY Zenon, <1>2, <1>8 DEF QueueInv, Queued
  <2>2. PassInv(t)'
      BY <1>1, <1>2, <1>8 DEF ClientInv, PassInv, NotifyUnpark, NotifyStore, NotifyTakeRelease,
                BlockerUnpark, StoreUnparked, TakeRelease, Passed
  <2>3. NoteInv(t)'
    <3>. SUFFICES ASSUME note'[t] = "one" PROVE NoteInv(t)'
        BY Zenon DEF NoteInv
    <3>1. note[t] = "one" /\ pc'[t] = pc[t]
        BY <1>1, <1>2, <1>8 DEF NotifyUnpark, NotifyStore, NotifyTakeRelease, Passed
    <3>2. CASE NotifyUnpark(c)
      <4>1. /\ token'[t] /\ UNCHANGED <<unparked, release>>
            /\ pc[c] = "unpark" => pc'[c] = "store_unparked"
            /\ pc[c] \notin {"store_unparked", "take_release"}
          BY Zenon, <1>1, <3>2 DEF NotifyUnpark, BlockerUnpark
      <4>2. \A n \in Calls : Notifying(n, t) => Notifying(n, t)'
          BY Zenon, <1>2, <4>1 DEF Notifying
      <4>3. \A n \in Calls : target[n] = t
                /\ pc[n] \in {"unpark", "store_unparked", "take_release"} =>
                target'[n] = t /\ pc'[n] \in {"unpark", "store_unparked", "take_release"}
          BY <1>2, <4>1
      <4>. QED BY Zenon, <3>1, <4>1, <4>2, <4>3 DEF ClientInv, NoteInv
    <3>3. CASE NotifyStore(c)
      <4>1. /\ unparked'[t] /\ UNCHANGED <<token, release>>
            /\ pc[c] = "store_unparked" => pc'[c] = "take_release"
            /\ pc[c] \notin {"unpark", "take_release"}
          BY Zenon, <1>1, <3>3 DEF NotifyStore, StoreUnparked
      <4>2. \A n \in Calls : target[n] = t /\ pc[n] = "unpark" => target'[n] = t
                /\ pc'[n] = "unpark"
          BY Zenon, <1>2, <4>1
      <4>3. \A n \in Calls : target[n] = t
                /\ pc[n] \in {"unpark", "store_unparked", "take_release"} =>
                target'[n] = t /\ pc'[n] \in {"unpark", "store_unparked", "take_release"}
          BY Zenon, <1>2, <4>1
      <4>. QED BY Zenon, <3>1, <4>1, <4>2, <4>3 DEF ClientInv, NoteInv
    <3>4. CASE NotifyTakeRelease(c)
      <4>1. ~release[t] /\ UNCHANGED <<token, unparked, release>> /\ pc[c] = "take_release"
          BY <1>1, <3>1, <3>4 DEF NotifyTakeRelease, TakeRelease, Passed
      <4>2. \A n \in Calls : Notifying(n, t) => Notifying(n, t)'
          BY Zenon, <1>2, <4>1 DEF Notifying
      <4>3. \A n \in Calls : target[n] = t /\ pc[n] = "unpark" => target'[n] = t
                /\ pc'[n] = "unpark"
          BY Zenon, <1>2, <4>1
      <4>4. pc[t] \notin {"recheck", "retake"} \cup GaveUp
          BY Zenon, <3>1, <4>1 DEF ClientInv, NoteInv
      <4>. QED BY <3>1, <4>1, <4>2, <4>3, <4>4 DEF ClientInv, NoteInv
    <3>. QED BY Zenon, <3>2, <3>3, <3>4
  <2>. QED BY Zenon, <2>1, <2>2, <2>3, <1>2, <1>5, <1>7 DEF ClientInv
<1>9. CASE t = c
    BY ZenonT(40), <1>2, <1>5, <1>7, <1>9 DEF ClientInv
<1>. QED BY Zenon, <1>8, <1>9

\* Every step of the client keeps the invariant.
LEMMA ClientNextInv ==
    ASSUME ClientTypeOK, ClientInv, [ClientNext]_vars
    PROVE  ClientInv'
<1>1. CASE UNCHANGED vars
    BY <1>1 DEF ClientInv, QueueInv, PassInv, NoteInv, Queued, Serving, Notifying, vars, cvVars,
                blockerVars
<1>2. CASE \E c \in Calls : ClientStep(c) \/ ClientFail(c)
    BY <1>2, WaitInv, PopInv, ServeInv DEF ClientStep, WaitImpl, Notify, Starts
<1>. QED BY Zenon, <1>1, <1>2 DEF ClientNext

\* condvar.rs:68-83, 151-161.  Whatever waits time out or are cancelled while they
\* are notified, and however many notify_one and notify_all run at once: a
\* notify_one makes a wait return or is passed on, once.
THEOREM NotifyNotLost == ClientSpec => []NoLostNotify
<1>1. ClientInit => ClientTypeOK /\ ClientInv
    BY Zenon, ClientInitInv
<1>2. (ClientTypeOK /\ ClientInv) /\ [ClientNext]_vars => (ClientTypeOK /\ ClientInv)'
    BY Zenon, ClientTypeNext, ClientNextInv
<1>3. ClientTypeOK /\ ClientInv => NoLostNotify
  <2>. SUFFICES ASSUME ClientTypeOK, ClientInv, NEW c \in Calls, ClientQuiet, note[c] = "one",
                       pc[c] # "woken"
                PROVE  FALSE
      BY Zenon DEF NoLostNotify, ClientInv, PassInv
  <2>1. \A n \in Calls : pc[n] \notin {"unpark", "store_unparked", "take_release"}
      BY Zenon DEF ClientQuiet, ClientEnded
  <2>2. pc[c] \in {"gave_up", "canceled", "notified", "park"}
      BY Zenon DEF ClientQuiet, ClientEnded
  <2>3. pc[c] # "park"
      BY Zenon, <2>1 DEF ClientQuiet, ClientEnded, ClientInv, NoteInv
  <2>4. pc[c] \notin GaveUp
      BY Zenon, <2>1 DEF ClientInv, NoteInv
  <2>5. pc[c] # "notified"
      BY Zenon DEF ClientInv, NoteInv
  <2>. QED BY <2>2, <2>3, <2>4, <2>5 DEF GaveUp
<1>. QED BY <1>1, <1>2, <1>3, PTL DEF ClientSpec

-----------------------------------------------------------------------------
(* The wait group.                                                         *)

AtAcquire == {"acquire", "acquire_reg", "acquire_park", "have"}
Dropping == {"pop_all", "unpark_all", "store_unparked_all", "release_drop"}
Notifies == {"pop", "unpark", "store_unparked", "take_release"}
Waits == WaitLabels \cup Notifies \cup {"returned", "timed_out", "canceled"}
RefLabels ==
    AtAcquire \cup Dropping \cup Waits
    \cup {"unborn", "idle", "release_idle", "release_acquire", "release_woken", "leaked", "dropped",
           "woken"}
Settlements == {"returned", "timed_out", "cancel_unlock"}

\* What a reference does is where it is.
RefOK(c) ==
    /\ op[c] = "none" => pc[c] \in {"unborn", "idle"}
    /\ op[c] = "clone" => pc[c] \in AtAcquire \cup {"release_idle", "idle"}
    /\ op[c] = "peek" => pc[c] \in AtAcquire
    /\ op[c] \in {"drop", "wait"} =>
          pc[c] \in AtAcquire \cup Dropping \cup {"release_acquire", "leaked", "dropped"}
    /\ op[c] = "loop" => pc[c] \in AtAcquire \cup Waits \cup {"release_woken", "woken"}
    /\ pc[c] \in Notifies => ret[c] \in Settlements

RefInv ==
    /\ count \in Nat
    /\ op \in [Calls -> {"none", "clone", "peek", "drop", "wait", "loop"}]
    /\ pc \in [Calls -> RefLabels]
    /\ ret \in [Calls -> Settlements \cup {"notified"}]
    /\ \A c \in Calls : RefOK(c)
    /\ WaitsForAll

\* A step of one reference: the count follows what becomes of it, no reference
\* comes back, and a wait ends when there is none.
LEMMA RefStep ==
    ASSUME CardinalityFacts, IsFiniteSet(Calls), RefInv, NEW c \in Calls, NEW l \in RefLabels,
           pc' = [pc EXCEPT ![c] = l],
           NEW o \in {"none", "clone", "peek", "drop", "wait", "loop"},
           op' = [op EXCEPT ![c] = o],
           ret' \in [Calls -> Settlements \cup {"notified"}],
           \A d \in Calls : d # c => ret'[d] = ret[d],
           RefOK(c)',
           c \in Alive' => c \in Alive,
           count' = count + One(c \in Alive') - One(c \in Alive),
           l \in {"release_woken", "woken"} =>
               pc[c] \in {"release_woken", "woken"} \/ count = 0
    PROVE  RefInv'
<1>. USE DEF RefInv
<1>1. \A d \in Calls : d # c => pc'[d] = pc[d] /\ op'[d] = op[d]
    BY Zenon
<1>2. pc'[c] = l /\ op'[c] = o
    BY Zenon
<1>3. \A d : d # c => (d \in Alive' <=> d \in Alive)
    BY Zenon, <1>1 DEF Alive
<1>4. IsFiniteSet(Alive)
    BY Zenon, CardSubset DEF Alive
<1>5. /\ count' = Cardinality(Alive') /\ Cardinality(Alive') \in Nat
    BY <1>3, <1>4, CountOne DEF WaitsForAll
<1>6. ASSUME NEW d \in Calls, d # c PROVE RefOK(d)'
  <2>1. RefOK(d) /\ pc'[d] = pc[d] /\ op'[d] = op[d] /\ ret'[d] = ret[d]
      BY Zenon, <1>1, <1>6
  <2>. QED BY Zenon, <2>1 DEF RefOK
<1>7. ASSUME NEW d \in Calls, pc'[d] \in {"release_woken", "woken"} PROVE Alive' = {}
  <2>1. pc[d] \in {"release_woken", "woken"} \/ count = 0
      BY Zenon, <1>1, <1>2, <1>7
  <2>2. Alive = {}
      BY Zenon, <1>4, <2>1, CardEmpty DEF WaitsForAll
  <2>. QED BY Zenon, <1>3, <2>2
<1>8. WaitsForAll'
    BY Zenon, <1>5, <1>7 DEF WaitsForAll
<1>9. /\ count' \in Nat
      /\ op' \in [Calls -> {"none", "clone", "peek", "drop", "wait", "loop"}]
      /\ pc' \in [Calls -> RefLabels]
    BY Zenon, <1>5
<1>. QED BY Zenon, <1>6, <1>8, <1>9

\* A step inside lock, wait or a notify: the reference stays what it is.
LEMMA InnerStep ==
    ASSUME CardinalityFacts, IsFiniteSet(Calls), RefInv, NEW c \in Calls, UNCHANGED <<count, op>>,
           NEW l, pc' = [pc EXCEPT ![c] = l],
           ret' \in [Calls -> Settlements \cup {"notified"}],
           \A d \in Calls : d # c => ret'[d] = ret[d],
           \/ pc[c] \in AtAcquire /\ l \in AtAcquire /\ ret' = ret
           \/ op[c] \in {"drop", "wait"} /\ pc[c] \in Dropping /\ l \in Dropping /\ ret' = ret
           \/ /\ op[c] = "loop" /\ l \in Waits
              /\ l \in Notifies => ret'[c] \in Settlements
    PROVE  RefInv'
<1>1. op' = [op EXCEPT ![c] = op[c]]
    BY Zenon DEF RefInv
<1>2. pc'[c] = l /\ op'[c] = op[c] /\ l \in RefLabels
    BY Zenon DEF RefInv, RefLabels
<1>3. RefOK(c)'
    BY <1>2 DEF RefInv, RefOK, AtAcquire, Dropping, Notifies, Waits, WaitLabels
<1>4. c \in Alive' <=> c \in Alive
    BY Zenon, <1>2 DEF Alive, RefInv, RefOK, AtAcquire, Dropping, Notifies, Waits, WaitLabels
<1>5. count' = count + One(c \in Alive') - One(c \in Alive)
    BY <1>4 DEF RefInv, One
<1>6. l \notin {"release_woken", "woken"}
    BY Zenon DEF AtAcquire, Dropping, Notifies, Waits, WaitLabels
<1>7. op[c] \in {"none", "clone", "peek", "drop", "wait", "loop"}
    BY Zenon DEF RefInv
<1>. QED BY Zenon, <1>1, <1>2, <1>3, <1>4, <1>5, <1>6, <1>7, RefStep

\* The steps of lock, of wait_impl and of the notifies.
LEMMA InnerSteps ==
    ASSUME CardinalityFacts, IsFiniteSet(Calls), RefInv, NEW c \in Calls,
           Acquire(c) \/ Waiting(c) \/ WaitCanceled(c)
    PROVE  RefInv'
<1>. USE DEF Goto
<1>0. UNCHANGED <<count, op>> /\ RefOK(c)
    BY Zenon DEF Acquire, Waiting, WaitCanceled, RefInv
<1>1. CASE Acquire(c)
  <2>1. PICK l : /\ pc' = [pc EXCEPT ![c] = l]
                 /\ ret' \in [Calls -> Settlements \cup {"notified"}]
                 /\ \A d \in Calls : d # c => ret'[d] = ret[d]
                 /\ (pc[c] \in AtAcquire /\ l \in AtAcquire /\ ret' = ret)
      BY <1>0, <1>1 DEF Acquire, LockTry, LockRegister, LockReturn, RefInv, RefOK, AtAcquire,
         Dropping, Notifies, Waits, WaitLabels, Settlements
  <2>. QED BY Zenon, <1>0, <2>1, InnerStep
<1>2. CASE Push(c) \/ Unlock(c, "unlock", "park") \/ ParkReturns(c) \/ ParkFails(c, "canceled")
  <2>1. PICK l : /\ pc' = [pc EXCEPT ![c] = l]
                 /\ ret' \in [Calls -> Settlements \cup {"notified"}]
                 /\ \A d \in Calls : d # c => ret'[d] = ret[d]
                 /\ (op[c] = "loop" /\ l \in Waits /\ (l \in Notifies => ret'[c] \in Settlements))
      BY <1>0, <1>2 DEF Push, Unlock, ParkReturns, ParkFails, RefInv, RefOK, AtAcquire,
         Dropping, Notifies, Waits, WaitLabels, Settlements
  <2>. QED BY Zenon, <1>0, <2>1, InnerStep
<1>3. CASE LockTry(c, "lock", Relocked(c), "lock_reg") \/ LockRegister(c, "lock_reg", "lock_park")
  <2>1. PICK l : /\ pc' = [pc EXCEPT ![c] = l]
                 /\ ret' \in [Calls -> Settlements \cup {"notified"}]
                 /\ \A d \in Calls : d # c => ret'[d] = ret[d]
                 /\ (op[c] = "loop" /\ l \in Waits /\ (l \in Notifies => ret'[c] \in Settlements))
      BY <1>0, <1>3 DEF LockTry, LockRegister, Relocked, RefInv, RefOK, AtAcquire, Dropping,
         Notifies, Waits, WaitLabels, Settlements
  <2>. QED BY Zenon, <1>0, <2>1, InnerStep
<1>4. CASE LockReturn(c, "lock_park", Relocked(c)) \/ Unlock(c, "cancel_unlock", "canceled")
  <2>1. PICK l : /\ pc' = [pc EXCEPT ![c] = l]
                 /\ ret' \in [Calls -> Settlements \cup {"notified"}]
                 /\ \A d \in Calls : d # c => ret'[d] = ret[d]
                 /\ (op[c] = "loop" /\ l \in Waits /\ (l \in Notifies => ret'[c] \in Settlements))
      BY <1>0, <1>4 DEF LockReturn, Unlock, Relocked, RefInv, RefOK, AtAcquire, Dropping,
         Notifies, Waits, WaitLabels, Settlements
  <2>. QED BY Zenon, <1>0, <2>1, InnerStep
<1>5. CASE WaitSetRelease(c) \/ Recheck(c)
  <2>1. PICK l : /\ pc' = [pc EXCEPT ![c] = l]
                 /\ ret' \in [Calls -> Settlements \cup {"notified"}]
                 /\ \A d \in Calls : d # c => ret'[d] = ret[d]
                 /\ (op[c] = "loop" /\ l \in Waits /\ (l \in Notifies => ret'[c] \in Settlements))
      BY <1>0, <1>5 DEF WaitSetRelease, Recheck, Settled, RefInv, RefOK, AtAcquire, Dropping,
         Notifies, Waits, WaitLabels, Settlements
  <2>. QED BY Zenon, <1>0, <2>1, InnerStep
<1>6. CASE IsUnparked(c)
  <2>1. Settled(c) \in Settlements /\ op[c] = "loop"
      BY Zenon, <1>0, <1>6 DEF IsUnparked, Settled, RefInv, RefOK, AtAcquire, Dropping, Notifies,
         Waits, WaitLabels, Settlements
  <2>2. CASE unparked[c]
    <3>1. pc' = [pc EXCEPT ![c] = "pop"] /\ ret' = [ret EXCEPT ![c] = Settled(c)]
        BY Zenon, <1>6, <2>2 DEF IsUnparked, PassOn
    <3>2. /\ ret' \in [Calls -> Settlements \cup {"notified"}] /\ ret'[c] \in Settlements
          /\ \A d \in Calls : d # c => ret'[d] = ret[d]
        BY Zenon, <2>1, <3>1 DEF RefInv
    <3>. QED BY Zenon, <1>0, <2>1, <3>1, <3>2, InnerStep DEF Waits, Notifies
  <2>3. CASE ~unparked[c]
    <3>1. pc' = [pc EXCEPT ![c] = "set_release"] /\ ret' = ret
        BY Zenon, <1>6, <2>3 DEF IsUnparked, PassOn
    <3>2. /\ ret' \in [Calls -> Settlements \cup {"notified"}]
          /\ "set_release" \in Waits \ Notifies
        BY Zenon, <2>1, <3>1 DEF RefInv, AtAcquire, Dropping, Notifies, Waits, WaitLabels,
           Settlements
    <3>. QED BY Zenon, <1>0, <2>1, <3>1, <3>2, InnerStep
  <2>. QED BY Zenon, <2>2, <2>3
<1>7. CASE Retake(c)
  <2>1. Settled(c) \in Settlements /\ op[c] = "loop"
      BY Zenon, <1>0, <1>7 DEF Retake, Settled, RefInv, RefOK, AtAcquire, Dropping, Notifies, Waits,
         WaitLabels, Settlements
  <2>2. CASE release[c]
    <3>1. pc' = [pc EXCEPT ![c] = "pop"] /\ ret' = [ret EXCEPT ![c] = Settled(c)]
        BY Zenon, <1>7, <2>2 DEF Retake, PassOn
    <3>2. /\ ret' \in [Calls -> Settlements \cup {"notified"}] /\ ret'[c] \in Settlements
          /\ \A d \in Calls : d # c => ret'[d] = ret[d]
        BY Zenon, <2>1, <3>1 DEF RefInv
    <3>. QED BY Zenon, <1>0, <2>1, <3>1, <3>2, InnerStep DEF Waits, Notifies
  <2>3. CASE ~release[c]
    <3>1. pc' = [pc EXCEPT ![c] = Settled(c)] /\ ret' = ret
        BY Zenon, <1>7, <2>3 DEF Retake, PassOn
    <3>2. /\ ret' \in [Calls -> Settlements \cup {"notified"}]
          /\ Settled(c) \in Waits \ Notifies
        BY Zenon, <2>1, <3>1 DEF RefInv, AtAcquire, Dropping, Notifies, Waits, WaitLabels,
           Settlements
    <3>. QED BY Zenon, <1>0, <2>1, <3>1, <3>2, InnerStep
  <2>. QED BY Zenon, <2>2, <2>3
<1>8. CASE PopOne(c)
  <2>1. PICK l : /\ pc' = [pc EXCEPT ![c] = l]
                 /\ ret' \in [Calls -> Settlements \cup {"notified"}]
                 /\ \A d \in Calls : d # c => ret'[d] = ret[d]
                 /\ (op[c] = "loop" /\ l \in Waits /\ (l \in Notifies => ret'[c] \in Settlements))
      BY Zenon, <1>0, <1>8 DEF PopOne, RefInv, RefOK, AtAcquire, Dropping, Notifies, Waits,
         WaitLabels,
         Settlements
  <2>. QED BY Zenon, <1>0, <2>1, InnerStep
<1>9. CASE PopAll(c, "release_drop")
  <2>1. PICK l : /\ pc' = [pc EXCEPT ![c] = l]
                 /\ ret' \in [Calls -> Settlements \cup {"notified"}]
                 /\ \A d \in Calls : d # c => ret'[d] = ret[d]
                 /\ (op[c] \in {"drop", "wait"} /\ pc[c] \in Dropping /\ l \in Dropping
                      /\ ret' = ret)
      BY Zenon, <1>0, <1>9 DEF PopAll, RefInv, RefOK, AtAcquire, Dropping, Notifies, Waits,
         WaitLabels,
         Settlements
  <2>. QED BY Zenon, <1>0, <2>1, InnerStep
<1>10. CASE NotifyUnpark(c)
  <2>1. ret' = ret /\ ret' \in [Calls -> Settlements \cup {"notified"}]
      BY Zenon, <1>10 DEF NotifyUnpark, RefInv
  <2>2. CASE pc[c] = "unpark"
    <3>1. pc' = [pc EXCEPT ![c] = "store_unparked"] /\ op[c] = "loop" /\ ret[c] \in Settlements
        BY Zenon, <1>0, <1>10, <2>2 DEF NotifyUnpark, RefInv, RefOK, AtAcquire, Dropping, Notifies,
           Waits, WaitLabels, Settlements
    <3>. QED BY Zenon, <1>0, <2>1, <3>1, InnerStep DEF Waits, Notifies
  <2>3. CASE pc[c] = "unpark_all"
    <3>1. pc' = [pc EXCEPT ![c] = "store_unparked_all"] /\ op[c] \in {"drop", "wait"}
        BY Zenon, <1>0, <1>10, <2>3 DEF NotifyUnpark, RefInv, RefOK, AtAcquire, Dropping, Notifies,
           Waits, WaitLabels, Settlements
    <3>. QED BY Zenon, <1>0, <2>1, <2>3, <3>1, InnerStep DEF Dropping
  <2>. QED BY Zenon, <1>10, <2>2, <2>3 DEF NotifyUnpark
<1>11. CASE NotifyStore(c)
  <2>1. ret' = ret /\ ret' \in [Calls -> Settlements \cup {"notified"}]
      BY Zenon, <1>11 DEF NotifyStore, RefInv
  <2>2. CASE pc[c] = "store_unparked"
    <3>1. pc' = [pc EXCEPT ![c] = "take_release"] /\ op[c] = "loop" /\ ret[c] \in Settlements
        BY Zenon, <1>0, <1>11, <2>2 DEF NotifyStore, RefInv, RefOK, AtAcquire, Dropping, Notifies,
           Waits, WaitLabels, Settlements
    <3>. QED BY Zenon, <1>0, <2>1, <3>1, InnerStep DEF Waits, Notifies
  <2>3. CASE pc[c] = "store_unparked_all"
    <3>1. pc' = [pc EXCEPT ![c] = "pop_all"] /\ op[c] \in {"drop", "wait"}
        BY Zenon, <1>0, <1>11, <2>3 DEF NotifyStore, RefInv, RefOK, AtAcquire, Dropping, Notifies,
           Waits, WaitLabels, Settlements
    <3>. QED BY Zenon, <1>0, <2>1, <2>3, <3>1, InnerStep DEF Dropping
  <2>. QED BY Zenon, <1>11, <2>2, <2>3 DEF NotifyStore
<1>12. CASE NotifyTakeRelease(c)
  <2>1. PICK l : /\ pc' = [pc EXCEPT ![c] = l]
                 /\ ret' \in [Calls -> Settlements \cup {"notified"}]
                 /\ \A d \in Calls : d # c => ret'[d] = ret[d]
                 /\ (op[c] = "loop" /\ l \in Waits /\ (l \in Notifies => ret'[c] \in Settlements))
      BY Zenon, <1>0, <1>12 DEF NotifyTakeRelease, RefInv, RefOK, AtAcquire, Dropping, Notifies,
                                Waits,
         WaitLabels, Settlements
  <2>. QED BY Zenon, <1>0, <2>1, InnerStep
<1>. QED BY Zenon, <1>1, <1>2, <1>3, <1>4, <1>5, <1>6, <1>7, <1>8, <1>9, <1>10, <1>11, <1>12
            DEF Waiting, WaitCanceled, WaitImpl, Notify

\* The other steps of a reference.
LEMMA OuterSteps ==
    ASSUME CardinalityFacts, IsFiniteSet(Calls), RefInv, NEW c \in Calls,
           \/ Begin(c) \/ AcquireCanceled(c) \/ Peek(c) \/ DropRef(c) \/ Dropped(c) \/ Loop(c)
           \/ Release(c)
    PROVE  RefInv'
<1>. USE DEF Goto, RefLabels, AtAcquire, Dropping, Notifies, Waits, WaitLabels, Settlements
<1>0. RefOK(c) /\ pc[c] \in RefLabels /\ op[c] \in {"none", "clone", "peek", "drop", "wait", "loop"}
    BY Zenon DEF RefInv
<1>1. CASE Begin(c)
  <2>1. PICK l \in RefLabels, o \in {"none", "clone", "peek", "drop", "wait", "loop"} :
            /\ pc' = [pc EXCEPT ![c] = l] /\ op' = [op EXCEPT ![c] = o]
            /\ l = "acquire" /\ o \in {"clone", "peek", "drop"} /\ pc[c] = "idle"
      BY Zenon, <1>0, <1>1 DEF Begin, RefInv, RefOK
  <2>2. UNCHANGED count /\ UNCHANGED ret
      BY Zenon, <1>1 DEF Begin
  <2>3. pc'[c] = l /\ op'[c] = o
      BY Zenon, <2>1 DEF RefInv
  <2>4. RefOK(c)'
      BY Zenon, <1>0, <2>1, <2>3 DEF RefOK
  <2>5. c \in Alive' /\ c \in Alive
      BY Zenon, <1>0, <2>1, <2>3 DEF RefOK, Alive
  <2>6. count' = count + One(c \in Alive') - One(c \in Alive)
      BY <2>2, <2>5 DEF RefInv, One
  <2>7. l \in {"release_woken", "woken"} => pc[c] \in {"release_woken", "woken"} \/ count = 0
      BY Zenon, <2>1
  <2>8. ret' \in [Calls -> {"returned", "timed_out", "cancel_unlock"} \cup {"notified"}]
      BY Zenon, <2>2 DEF RefInv
  <2>. HIDE DEF RefLabels
  <2>. QED BY Zenon, <2>1, <2>2, <2>4, <2>5, <2>6, <2>7, <2>8, RefStep
<1>2. CASE AcquireCanceled(c)
  <2>1. PICK l \in RefLabels, o \in {"none", "clone", "peek", "drop", "wait", "loop"} :
            /\ pc' = [pc EXCEPT ![c] = l] /\ op' = [op EXCEPT ![c] = o]
            /\ \/ l = "leaked" /\ o = op[c] /\ op[c] \in {"drop", "wait"}
               \/ l = "acquire" /\ o = "drop" /\ op[c] \in {"clone", "peek"}
               \/ l = "canceled" /\ o = op[c] /\ op[c] = "loop"
            /\ pc[c] = "acquire_park"
      BY <1>0, <1>2 DEF AcquireCanceled, RefInv, RefOK
  <2>2. UNCHANGED count /\ UNCHANGED ret
      BY Zenon, <1>2 DEF AcquireCanceled
  <2>3. pc'[c] = l /\ op'[c] = o
      BY Zenon, <2>1 DEF RefInv
  <2>4. RefOK(c)'
      BY Zenon, <1>0, <2>1, <2>3 DEF RefOK
  <2>5. c \in Alive' <=> c \in Alive
      BY Zenon, <1>0, <2>1, <2>3 DEF RefOK, Alive
  <2>6. count' = count + One(c \in Alive') - One(c \in Alive)
      BY <2>2, <2>5 DEF RefInv, One
  <2>7. l \in {"release_woken", "woken"} => pc[c] \in {"release_woken", "woken"} \/ count = 0
      BY Zenon, <2>1
  <2>8. ret' \in [Calls -> {"returned", "timed_out", "cancel_unlock"} \cup {"notified"}]
      BY Zenon, <2>2 DEF RefInv
  <2>. HIDE DEF RefLabels
  <2>. QED BY Zenon, <2>1, <2>2, <2>4, <2>5, <2>6, <2>7, <2>8, RefStep
<1>3. CASE Peek(c)
  <2>1. PICK l \in RefLabels, o \in {"none", "clone", "peek", "drop", "wait", "loop"} :
            /\ pc' = [pc EXCEPT ![c] = l] /\ op' = [op EXCEPT ![c] = o]
            /\ l = "release_acquire" /\ o \in {"drop", "wait"} /\ op[c] = "peek"
      BY Zenon, <1>0, <1>3 DEF Peek, RefInv, RefOK
  <2>2. UNCHANGED count /\ UNCHANGED ret
      BY Zenon, <1>3 DEF Peek
  <2>3. pc'[c] = l /\ op'[c] = o
      BY Zenon, <2>1 DEF RefInv
  <2>4. RefOK(c)'
      BY Zenon, <1>0, <2>1, <2>3 DEF RefOK
  <2>5. c \in Alive' <=> c \in Alive
      BY Zenon, <1>0, <2>1, <2>3 DEF RefOK, Alive
  <2>6. count' = count + One(c \in Alive') - One(c \in Alive)
      BY <2>2, <2>5 DEF RefInv, One
  <2>7. l \in {"release_woken", "woken"} => pc[c] \in {"release_woken", "woken"} \/ count = 0
      BY Zenon, <2>1
  <2>8. ret' \in [Calls -> {"returned", "timed_out", "cancel_unlock"} \cup {"notified"}]
      BY Zenon, <2>2 DEF RefInv
  <2>. HIDE DEF RefLabels
  <2>. QED BY Zenon, <2>1, <2>2, <2>4, <2>5, <2>6, <2>7, <2>8, RefStep
<1>4. CASE DropRef(c)
  <2>1. PICK l \in RefLabels, o \in {"none", "clone", "peek", "drop", "wait", "loop"} :
            /\ pc' = [pc EXCEPT ![c] = l] /\ op' = [op EXCEPT ![c] = o]
            /\ l \in {"pop_all", "release_drop"} /\ o = op[c] /\ op[c] \in {"drop", "wait"}
            /\ pc[c] = "have"
      BY ZenonT(40), <1>0, <1>4 DEF DropRef, RefInv, RefOK
  <2>2. count' = count - 1 /\ UNCHANGED ret
      BY Zenon, <1>4 DEF DropRef
  <2>3. pc'[c] = l /\ op'[c] = o
      BY Zenon, <2>1 DEF RefInv
  <2>4. RefOK(c)'
      BY Zenon, <1>0, <2>1, <2>3 DEF RefOK
  <2>5. c \notin Alive' /\ c \in Alive
      BY Zenon, <1>0, <2>1, <2>3 DEF RefOK, Alive
  <2>6. count' = count + One(c \in Alive') - One(c \in Alive)
      BY <2>2, <2>5 DEF RefInv, One
  <2>7. l \in {"release_woken", "woken"} => pc[c] \in {"release_woken", "woken"} \/ count = 0
      BY Zenon, <2>1
  <2>8. ret' \in [Calls -> {"returned", "timed_out", "cancel_unlock"} \cup {"notified"}]
      BY Zenon, <2>2 DEF RefInv
  <2>. HIDE DEF RefLabels
  <2>. QED BY Zenon, <2>1, <2>2, <2>4, <2>5, <2>6, <2>7, <2>8, RefStep
<1>5. CASE Dropped(c)
  <2>1. PICK l \in RefLabels, o \in {"none", "clone", "peek", "drop", "wait", "loop"} :
            /\ pc' = [pc EXCEPT ![c] = l] /\ op' = [op EXCEPT ![c] = o]
            /\ /\ pc[c] = "release_drop"
               /\ \/ l = "acquire" /\ o = "loop" /\ op[c] = "wait"
                  \/ l = "dropped" /\ o = op[c] /\ op[c] = "drop"
      BY Zenon, <1>0, <1>5 DEF Dropped, Unlock, RefInv, RefOK
  <2>2. UNCHANGED count /\ UNCHANGED ret
      BY Zenon, <1>5 DEF Dropped, Unlock
  <2>3. pc'[c] = l /\ op'[c] = o
      BY Zenon, <2>1 DEF RefInv
  <2>4. RefOK(c)'
      BY Zenon, <1>0, <2>1, <2>3 DEF RefOK
  <2>5. c \in Alive' <=> c \in Alive
      BY Zenon, <1>0, <2>1, <2>3 DEF RefOK, Alive
  <2>6. count' = count + One(c \in Alive') - One(c \in Alive)
      BY <2>2, <2>5 DEF RefInv, One
  <2>7. l \in {"release_woken", "woken"} => pc[c] \in {"release_woken", "woken"} \/ count = 0
      BY Zenon, <2>1
  <2>8. ret' \in [Calls -> {"returned", "timed_out", "cancel_unlock"} \cup {"notified"}]
      BY Zenon, <2>2 DEF RefInv
  <2>. HIDE DEF RefLabels
  <2>. QED BY Zenon, <2>1, <2>2, <2>4, <2>5, <2>6, <2>7, <2>8, RefStep
<1>6. CASE Loop(c)
  <2>1. PICK l \in {"push", "release_woken"} :
            pc' = [pc EXCEPT ![c] = l] /\ (l = "release_woken" => count = 0)
    <3>1. CASE count > 0
        BY Zenon, <1>6, <3>1 DEF Loop
    <3>2. CASE ~(count > 0)
      <4>1. count = 0
          BY <3>2 DEF RefInv
      <4>. QED BY Zenon, <1>6, <3>2, <4>1 DEF Loop
    <3>. QED BY Zenon, <3>1, <3>2
  <2>2. UNCHANGED <<count, ret, op>> /\ op[c] = "loop" /\ op' = [op EXCEPT ![c] = "loop"]
      BY Zenon, <1>6 DEF Loop, RefInv
  <2>3. pc'[c] = l /\ op'[c] = "loop" /\ l \in RefLabels
      BY Zenon, <2>1, <2>2 DEF RefInv
  <2>4. RefOK(c)'
      BY Zenon, <1>0, <2>1, <2>3 DEF RefOK
  <2>5. c \in Alive' <=> c \in Alive
      BY Zenon, <2>2, <2>3 DEF Alive
  <2>6. count' = count + One(c \in Alive') - One(c \in Alive)
      BY <2>2, <2>5 DEF RefInv, One
  <2>7. l \in {"release_woken", "woken"} => pc[c] \in {"release_woken", "woken"} \/ count = 0
      BY Zenon, <2>1
  <2>8. ret' \in [Calls -> {"returned", "timed_out", "cancel_unlock"} \cup {"notified"}]
      BY Zenon, <2>2 DEF RefInv
  <2>. HIDE DEF RefLabels
  <2>. QED BY Zenon, <2>1, <2>2, <2>3, <2>4, <2>5, <2>6, <2>7, <2>8, RefStep
<1>7. CASE Release(c)
  <2>1. PICK l \in RefLabels, o \in {"none", "clone", "peek", "drop", "wait", "loop"} :
            /\ pc' = [pc EXCEPT ![c] = l] /\ op' = [op EXCEPT ![c] = o]
            /\ /\ o = op[c]
               /\ \/ l = "idle" /\ pc[c] = "release_idle"
                  \/ l = "acquire" /\ pc[c] = "release_acquire"
                  \/ l = "woken" /\ pc[c] = "release_woken"
      BY <1>0, <1>7 DEF Release, Unlock, RefInv, RefOK
  <2>2. UNCHANGED count /\ UNCHANGED ret
      BY Zenon, <1>7 DEF Release, Unlock
  <2>3. pc'[c] = l /\ op'[c] = o
      BY Zenon, <2>1 DEF RefInv
  <2>4. RefOK(c)'
      BY Zenon, <1>0, <2>1, <2>3 DEF RefOK
  <2>5. c \in Alive' <=> c \in Alive
      BY Zenon, <1>0, <2>1, <2>3 DEF RefOK, Alive
  <2>6. count' = count + One(c \in Alive') - One(c \in Alive)
      BY <2>2, <2>5 DEF RefInv, One
  <2>7. l \in {"release_woken", "woken"} => pc[c] \in {"release_woken", "woken"} \/ count = 0
      BY Zenon, <2>1
  <2>8. ret' \in [Calls -> {"returned", "timed_out", "cancel_unlock"} \cup {"notified"}]
      BY Zenon, <2>2 DEF RefInv
  <2>. HIDE DEF RefLabels
  <2>. QED BY Zenon, <2>1, <2>2, <2>4, <2>5, <2>6, <2>7, <2>8, RefStep
<1>. QED BY Zenon, <1>1, <1>2, <1>3, <1>4, <1>5, <1>6, <1>7

\* A clone: its own reference is alive, the new one is counted.
LEMMA CloneStep ==
    ASSUME CardinalityFacts, IsFiniteSet(Calls), RefInv, NEW c \in Calls, Clone(c)
    PROVE  RefInv'
<1>. USE DEF RefLabels, AtAcquire, Dropping, Notifies, Waits, WaitLabels, Settlements
<1>1. PICK d \in Calls : pc[d] = "unborn" /\ pc' = [pc EXCEPT ![c] = "release_idle", ![d] = "idle"]
    BY Zenon DEF Clone
<1>2. /\ c # d /\ op[c] = "clone" /\ op[d] = "none" /\ pc[c] = "have"
      /\ UNCHANGED <<op, ret>> /\ count' = count + 1
    BY <1>1 DEF Clone, RefInv, RefOK
<1>3. /\ pc'[c] = "release_idle" /\ pc'[d] = "idle"
      /\ \A e \in Calls : e # c /\ e # d => pc'[e] = pc[e]
      /\ pc' \in [Calls -> RefLabels]
    BY Zenon, <1>1, <1>2 DEF RefInv
<1>4. c \in Alive /\ d \notin Alive /\ d \in Alive'
    BY Zenon, <1>1, <1>2, <1>3 DEF Alive
<1>5. \A e : e # d => (e \in Alive' <=> e \in Alive)
    BY Zenon, <1>2, <1>3 DEF Alive
<1>6. IsFiniteSet(Alive)
    BY Zenon, CardSubset DEF Alive
<1>7. count' = Cardinality(Alive')
    BY <1>2, <1>4, <1>5, <1>6, CountOne DEF RefInv, WaitsForAll, One
<1>8. \A e \in Calls : pc'[e] \notin {"release_woken", "woken"}
    BY Zenon, <1>3, <1>4 DEF RefInv, WaitsForAll
<1>9. ASSUME NEW e \in Calls PROVE RefOK(e)'
    BY ZenonT(40), <1>2, <1>3 DEF RefInv, RefOK
<1>. QED BY <1>2, <1>3, <1>7, <1>8, <1>9 DEF RefInv, WaitsForAll

INSTANCE FiniteSetTheorems

\* The facts on finite sets that the lemmas above assume.
LEMMA CardinalityHolds == CardinalityFacts
<1>1. \A S : IsFiniteSet(S) => Cardinality(S) \in Nat
    BY Zenon, FS_CardinalityType
<1>2. \A n \in Nat : IsFiniteSet(1..n) /\ Cardinality(1..n) = n
    BY FS_Interval
<1>3. \A S, T : \A f \in Surjection(S, T) :
          IsFiniteSet(S) => IsFiniteSet(T) /\ Cardinality(T) <= Cardinality(S)
    BY Zenon, FS_Surjection
<1>4. \A S : \A T \in SUBSET S :
          IsFiniteSet(S) => /\ IsFiniteSet(T) /\ Cardinality(T) <= Cardinality(S)
                            /\ Cardinality(S) = Cardinality(T) => S = T
    BY Zenon, FS_Subset
<1>. QED
    BY Zenon, <1>1, <1>2, <1>3, <1>4, FS_EmptySet, FS_Singleton, FS_AddElement, FS_RemoveElement
    DEF CardinalityFacts

\* wait_group.rs:59-128.  Whatever references are cloned, dropped and waited on at
\* once, and whatever waits are cancelled: the count is the number of references
\* that are not dropped, and a wait returns only when it is zero.
THEOREM WaitReturnsLast ==
    ASSUME IsFiniteSet(Calls), First \in Calls
    PROVE  Spec => []WaitsForAll
<1>. USE CardinalityHolds
<1>1. Init => RefInv
  <2>. SUFFICES ASSUME Init PROVE RefInv
      BY Zenon
  <2>. USE DEF Init, CvInit
  <2>1. Alive = {First}
      BY Zenon DEF Alive
  <2>2. WaitsForAll
      BY Zenon, <2>1, CardSingleton DEF WaitsForAll
  <2>3. \A c \in Calls : RefOK(c)
      BY Zenon DEF RefOK, Notifies
  <2>. QED BY Zenon, <2>2, <2>3 DEF RefInv, RefLabels, Settlements
<1>2. RefInv /\ [Next]_wgVars => RefInv'
  <2>. SUFFICES ASSUME RefInv, [Next]_wgVars PROVE RefInv'
      BY Zenon
  <2>1. CASE \E c \in Calls : Step(c) \/ AcquireCanceled(c) \/ WaitCanceled(c)
      BY Zenon, <2>1, InnerSteps, OuterSteps, CloneStep DEF Step
  <2>2. CASE Repost \/ UNCHANGED wgVars
    <3>1. UNCHANGED <<pc, op, ret, count>>
        BY Zenon, <2>2 DEF Repost, wgVars, vars, cvVars
    <3>2. Alive' = Alive
        BY Zenon, <3>1 DEF Alive
    <3>. QED BY Zenon, <3>1, <3>2 DEF RefInv, RefOK, WaitsForAll
  <2>. QED BY Zenon, <2>1, <2>2 DEF Next
<1>3. RefInv => WaitsForAll
    BY DEF RefInv
<1>. QED BY <1>1, <1>2, <1>3, PTL DEF Spec
==============================================================================
