----------------------------- MODULE ParkProofs -----------------------------
(***************************************************************************)
(* Park: what the generation bit and the delayed drop guarantee for any    *)
(* number of Parks, unparkers and cancellers, with frames nested in each   *)
(* other to any depth, and that no park returns Ok without an unpark.      *)
(***************************************************************************)
EXTENDS Park, CollectionLemmas

-----------------------------------------------------------------------------
(* The inductive invariant.                                                *)

\* A frame that still holds the coroutine, and one that has registered it.
Early(p) == frame[p] \in {"timer", "guard", "register"}
Registered(p) == frame[p] # "none" /\ ~Early(p)

\* The coroutine has yielded to p and not been through yield_back.
Inside(p) == cur = p /\ pc \in {"suspended", "resumed"}

Spinning(p) == cur = p /\ pc \in {"spin", "spinning", "spun"}

\* The coroutine is in one place, which its own steps agree with.
Located ==
    /\ loc = "run" <=> pc \notin {"suspended", "spinning", "ended"}
    /\ loc = "gone" <=> pc = "ended"
    /\ loc = "frame" => pc = "suspended" /\ Early(cur)
    /\ loc \in Parks => pc = "suspended" /\ loc = cur
    /\ \A p \in Parks : Early(p) => loc = "frame" /\ cur = p

\* The frames that wait for a coroutine, or another frame, nested in them.
Nested ==
    /\ host # None => frame[host] = "nested" /\ loc = "run"
    /\ \A p \in Parks :
          parent[p] # None => frame[parent[p]] = "nested" /\ parent[p] # host
    /\ \A p, q \in Parks : parent[p] = parent[q] /\ parent[p] # None => p = q

\* A call on p flips the generation of p twice, once by the coroutine and once
\* by the frame, in whichever order they come; and wait_kernel stays set until
\* the next call, which waits for the second flip.
Handshake(p) ==
    /\ frame[p] = "none" /\ Inside(p) => wait_kernel[p] /\ gen[p]
    /\ frame[p] = "none" /\ ~Inside(p) =>
          (wait_kernel[p] \/ Spinning(p) \/ (cur = p /\ pc \in {"yield", "early"}) => ~gen[p])
    /\ Early(p) => ~gen[p] /\ (frame[p] = "register" => wait_kernel[p])
    /\ Registered(p) => /\ gen[p] <=> ~Inside(p)
                        /\ wait_kernel[p] \/ Spinning(p) \/ (pc = "ended" /\ canceled)

\* What a call may rely on once it has waited, and what Park::drop relies on.
Waited ==
    /\ Spinning(cur) \/ pc \in {"yield", "early"} => ~wait_kernel[cur]
    /\ pc \in {"yield", "early"} => frame[cur] = "none"
    /\ \A p \in Parks : freed[p] => pc = "ended" /\ (frame[p] = "none" \/ canceled)

FrameInv ==
    /\ Located /\ Nested /\ Waited
    /\ \A p \in Parks : Handshake(p)

\* The coroutine is awake to return Ok from a park it was suspended in.
Woken ==
    /\ para = "none"
    /\ \/ pc = "suspended" /\ loc = "ready"
       \/ pc \in {"resumed", "clear", "clear_token", "remove_timer"}

\* The tokens that are set, but not the one the woken coroutine will clear.
Tokens == {p \in Parks : token[p] /\ ~(p = cur /\ Woken /\ pc # "remove_timer")}

\* The unparkers that have set a token and not called wake_up.
Wakers == {u \in Unparkers : apc[u] = "wake"}

\* Why the coroutine is awake: a result says that the wake-up came from a timer
\* or a cancel, and a frame that wakes it up itself has seen the token, which only
\* the coroutine clears.
Reasons ==
    /\ para # "none" => \/ pc = "suspended" /\ loc = "ready"
                        \/ pc \in {"early", "resumed", "clear", "clear_token", "remove_timer"}
    /\ pc = "early" => para # "none"
    /\ \A p \in Parks : frame[p] = "wake" /\ loc = p => token[p]

\* Every Ok, past or to come, was paid for by an unpark that set a token: with
\* the token, or with the wake-up that follows.
Credit == oks + One(Woken) + Cardinality(Tokens) + Cardinality(Wakers) <= 2 * sets

-----------------------------------------------------------------------------
(* Types.                                                                  *)

\* Every step keeps the variables to their types.
LEMMA TypeNext ==
    ASSUME TypeOK, [Next]_vars
    PROVE  TypeOK'
<1>. USE ParkAssumption DEF TypeOK, Places, Goto, parkVars, coVars, cancelVars, frameVars,
                            actorVars, timerVars
<1>1. ASSUME NEW p \in Parks, ParkTimeout(p) PROVE TypeOK'
    BY <1>1 DEF ParkTimeout
<1>2. CASE Gate
    BY Zenon, <1>2 DEF Gate
<1>3. CASE SpinDone
    BY Zenon, <1>3 DEF SpinDone
<1>4. CASE Spin
    BY <1>4 DEF Spin, Unwind, EndHost
<1>5. CASE Spun
    BY Zenon, <1>5 DEF Spun, Unwind, EndHost
<1>6. CASE YieldCanceled
    BY Zenon, <1>6 DEF YieldCanceled
<1>7. CASE Yield
    BY Zenon, <1>7 DEF Yield, FrameGoto
<1>8. CASE YieldBack
    BY <1>8 DEF YieldBack, FlipGen, Unwind, EndHost
<1>9. CASE Clear
    BY Zenon, <1>9 DEF Clear
<1>10. CASE ClearToken
    BY Zenon, <1>10 DEF ClearToken
<1>11. CASE RemoveTimer
    BY <1>11 DEF RemoveTimer
<1>12. CASE Return
    BY Zenon, <1>12 DEF Return, Unwind, EndHost
<1>13. CASE Resume
    BY Zenon, <1>13 DEF Resume
<1>14. ASSUME NEW p \in Parks, SubscribeTimer(p) PROVE TypeOK'
  <2>1. handle' \in [Parks -> 0..MaxCalls]
      BY <1>14 DEF SubscribeTimer
  <2>2. /\ timer' \in [Calls -> {"none", "armed", "removing", "firing"}]
        /\ timer_of' \in [Calls -> Parks]
      BY Zenon, <1>14 DEF SubscribeTimer
  <2>3. /\ timeout' \in [Parks -> BOOLEAN]
        /\ frame' \in [Parks -> {"none", "timer", "guard", "register", "check", "wake", "nested",
                            "set_co", "is_canceled", "cancel", "cancel_take", "drop"}]
      BY Zenon, <1>14 DEF SubscribeTimer, FrameGoto
  <2>. QED BY <1>14, <2>1, <2>2, <2>3 DEF SubscribeTimer
<1>15. ASSUME NEW p \in Parks, SubscribeGuard(p) PROVE TypeOK'
    BY <1>15 DEF SubscribeGuard, FrameGoto
<1>16. ASSUME NEW p \in Parks, SubscribeRegister(p) PROVE TypeOK'
    BY <1>16 DEF SubscribeRegister, FrameGoto
<1>17. ASSUME NEW p \in Parks, SubscribeCheck(p) PROVE TypeOK'
    BY <1>17 DEF SubscribeCheck, FrameGoto
<1>18. ASSUME NEW p \in Parks, SubscribeWake(p) PROVE TypeOK'
    BY <1>18 DEF SubscribeWake, FrameGoto
<1>19. ASSUME NEW p \in Parks, SubscribeSetCo(p) PROVE TypeOK'
    BY <1>19 DEF SubscribeSetCo, FrameGoto
<1>20. ASSUME NEW p \in Parks, SubscribeIsCanceled(p) PROVE TypeOK'
    BY <1>20 DEF SubscribeIsCanceled, FrameGoto
<1>21. ASSUME NEW p \in Parks, SubscribeCancel(p) PROVE TypeOK'
    BY <1>21 DEF SubscribeCancel, FrameGoto
<1>22. ASSUME NEW p \in Parks, SubscribeCancelTake(p) PROVE TypeOK'
    BY <1>22 DEF SubscribeCancelTake, FrameGoto, TakeAndSchedule
<1>23. ASSUME NEW p \in Parks, SubscribeDrop(p) PROVE TypeOK'
    BY <1>23 DEF SubscribeDrop, FlipGen
<1>24. ASSUME NEW u \in Unparkers, NEW p \in Parks, UnparkSet(u, p) PROVE TypeOK'
    BY <1>24 DEF UnparkSet, ActorGoto
<1>25. ASSUME NEW u \in Unparkers, UnparkWake(u) PROVE TypeOK'
    BY <1>25 DEF UnparkWake, ActorGoto, TakeAndSchedule
<1>26. ASSUME NEW k \in Cancelers, CancelSet(k) PROVE TypeOK'
    BY <1>26 DEF CancelSet, ActorGoto
<1>27. ASSUME NEW k \in Cancelers, CancelTakeCo(k) PROVE TypeOK'
    BY <1>27 DEF CancelTakeCo, ActorGoto
<1>28. ASSUME NEW k \in Cancelers, CancelWake(k) PROVE TypeOK'
    BY <1>28 DEF CancelWake, ActorGoto, TakeAndSchedule
<1>29. ASSUME NEW n \in Calls, TimerPop(n) PROVE TypeOK'
    BY <1>29 DEF TimerPop
<1>30. ASSUME NEW n \in Calls, TimerFire(n) PROVE TypeOK'
    BY <1>30 DEF TimerFire, TakeAndSchedule
<1>31. ASSUME NEW n \in Calls, TimerRemove(n) PROVE TypeOK'
    BY <1>31 DEF TimerRemove
<1>32. ASSUME NEW p \in Parks, Drop(p) PROVE TypeOK'
    BY <1>32 DEF Drop
<1>33. CASE UNCHANGED vars
    BY <1>33 DEF vars
<1>. HIDE DEF TypeOK, Places, Goto, parkVars, coVars, cancelVars, frameVars, actorVars, timerVars
<1>. QED
    BY Zenon, <1>1, <1>2, <1>3, <1>4, <1>5, <1>6, <1>7, <1>8, <1>9, <1>10, <1>11, <1>12,
       <1>13, <1>14, <1>15, <1>16, <1>17, <1>18, <1>19, <1>20, <1>21, <1>22, <1>23, <1>24,
       <1>25, <1>26, <1>27, <1>28, <1>29, <1>30, <1>31, <1>32, <1>33
    DEF Next, Coroutine, Subscribe, Unpark, Cancel, Quiet

-----------------------------------------------------------------------------
(* The coroutine and the frames.                                           *)

\* The first states.
LEMMA FrameInit ==
    ASSUME Init
    PROVE  TypeOK /\ FrameInv
<1>. USE ParkAssumption DEF Init
<1>1. TypeOK
  <2>1. /\ calls \in 0..MaxCalls /\ handle \in [Parks -> 0..MaxCalls]
        /\ timer_of \in [Calls -> Parks]
      BY DEF Calls
  <2>2. /\ host \in Parks \cup {None} /\ parent \in [Parks -> Parks \cup {None}]
        /\ atpark \in [Unparkers \cup Cancelers \cup Parks -> Parks \cup {None}]
      BY Zenon
  <2>. QED BY Zenon, <2>1, <2>2 DEF TypeOK, Places
<1>2. FrameInv
    BY Zenon DEF FrameInv, Located, Nested, Waited, Handshake, Inside, Early, Registered, Spinning
<1>. QED BY Zenon, <1>1, <1>2

\* FrameInv does not speak of tokens, timers and results.
LEMMA FrameSame ==
    ASSUME FrameInv,
           UNCHANGED <<loc, pc, cur, host, canceled, frame, parent, gen, wait_kernel, freed>>
    PROVE  FrameInv'
BY Zenon DEF FrameInv, Located, Nested, Waited, Handshake, Inside, Early, Registered, Spinning

\* Whoever takes the coroutine out of a wait_co makes it ready.
LEMMA FrameTake ==
    ASSUME TypeOK, FrameInv, NEW x \in Parks \cup {None}, NEW r, TakeAndSchedule(x, r),
           UNCHANGED <<pc, cur, host, canceled, frame, parent, gen, wait_kernel, freed>>
    PROVE  FrameInv'
<1>. USE ParkAssumption DEF TypeOK, FrameInv, Places, TakeAndSchedule, Inside, Early, Registered,
         Spinning
<1>1. Located'
    BY Zenon DEF Located
<1>2. Nested'
    BY Zenon DEF Located, Nested
<1>3. Waited'
    BY Zenon DEF Waited
<1>4. \A q \in Parks : Handshake(q)'
    BY Zenon DEF Handshake
<1>. QED BY Zenon, <1>1, <1>2, <1>3, <1>4

\* What the handshake needs to know of types.
LEMMA FrameFacts ==
    ASSUME TypeOK
    PROVE  /\ gen \in [Parks -> BOOLEAN] /\ wait_kernel \in [Parks -> BOOLEAN]
           /\ freed \in [Parks -> BOOLEAN] /\ cur \in Parks /\ canceled \in BOOLEAN
           /\ host \in Parks \cup {None} /\ parent \in [Parks -> Parks \cup {None}]
           /\ \E S : frame \in [Parks -> S]
           /\ None \notin Parks /\ loc # None
           /\ \A p \in Parks : p \notin {"run", "frame", "ready", "gone"}
<1>1. /\ gen \in [Parks -> BOOLEAN] /\ wait_kernel \in [Parks -> BOOLEAN]
      /\ freed \in [Parks -> BOOLEAN] /\ cur \in Parks /\ canceled \in BOOLEAN
      /\ host \in Parks \cup {None} /\ parent \in [Parks -> Parks \cup {None}]
      /\ \E S : frame \in [Parks -> S]
    BY Zenon DEF TypeOK
<1>2. None \notin Parks /\ loc # None
    BY Zenon, ParkAssumption DEF TypeOK, Places
<1>3. \A p \in Parks : p \notin {"run", "frame", "ready", "gone"}
    BY Zenon, ParkAssumption
<1>. QED BY Zenon, <1>1, <1>2, <1>3

\* Every step of the coroutine keeps FrameInv.
LEMMA CoroutineFrame ==
    ASSUME TypeOK, FrameInv, Coroutine \/ Return \/ \E p \in Parks : ParkTimeout(p)
    PROVE  FrameInv'
<1>. USE FrameFacts DEF FrameInv, Goto, Inside, Early, Registered, Spinning,
         parkVars, coVars, cancelVars, frameVars, actorVars, timerVars
<1>1. ASSUME NEW p \in Parks, ParkTimeout(p) PROVE FrameInv'
  <2>1. Located'
      BY Zenon, <1>1 DEF Located, Nested, Waited, ParkTimeout
  <2>2. Nested'
      BY <1>1 DEF Located, Nested, Waited, ParkTimeout
  <2>3. Waited'
      BY Zenon, <1>1 DEF Located, Nested, Waited, Handshake, ParkTimeout
  <2>4. ASSUME NEW q \in Parks PROVE Handshake(q)'
      BY Zenon, <1>1 DEF Located, Nested, Waited, Handshake, ParkTimeout
  <2>. HIDE DEF FrameInv
  <2>. QED BY Zenon, <2>1, <2>2, <2>3, <2>4 DEF FrameInv
<1>2. CASE Gate
  <2>1. Located'
      BY Zenon, <1>2 DEF Located, Nested, Waited, Gate
  <2>2. Nested'
      BY Zenon, <1>2 DEF Located, Nested, Waited, Gate
  <2>3. Waited'
      BY <1>2 DEF Located, Nested, Waited, Handshake, Gate
  <2>4. ASSUME NEW q \in Parks PROVE Handshake(q)'
      BY <1>2 DEF Located, Nested, Waited, Handshake, Gate
  <2>. HIDE DEF FrameInv
  <2>. QED BY Zenon, <2>1, <2>2, <2>3, <2>4 DEF FrameInv
<1>3. CASE SpinDone
  <2>1. Located'
      BY Zenon, <1>3 DEF Located, Nested, Waited, SpinDone
  <2>2. Nested'
      BY Zenon, <1>3 DEF Located, Nested, Waited, SpinDone
  <2>3. Waited'
      BY Zenon, <1>3 DEF Located, Nested, Waited, Handshake, SpinDone
  <2>4. ASSUME NEW q \in Parks PROVE Handshake(q)'
      BY Zenon, <1>3 DEF Located, Nested, Waited, Handshake, SpinDone
  <2>. HIDE DEF FrameInv
  <2>. QED BY Zenon, <2>1, <2>2, <2>3, <2>4 DEF FrameInv
<1>4. CASE Spin
  <2>1. Located'
      BY Zenon, <1>4 DEF Located, Nested, Waited, Spin, Unwind, EndHost
  <2>2. Nested'
      BY Zenon, <1>4 DEF Located, Nested, Waited, Spin, Unwind, EndHost
  <2>3. Waited'
      BY Zenon, <1>4 DEF Located, Nested, Waited, Handshake, Spin, Unwind, EndHost
  <2>4. ASSUME NEW q \in Parks PROVE Handshake(q)'
      BY <1>4 DEF Located, Nested, Waited, Handshake, Spin, Unwind, EndHost
  <2>. HIDE DEF FrameInv
  <2>. QED BY Zenon, <2>1, <2>2, <2>3, <2>4 DEF FrameInv
<1>5. CASE Spun
  <2>1. Located'
      BY Zenon, <1>5 DEF Located, Nested, Waited, Spun, Unwind, EndHost
  <2>2. Nested'
      BY Zenon, <1>5 DEF Located, Nested, Waited, Spun, Unwind, EndHost
  <2>3. Waited'
      BY Zenon, <1>5 DEF Located, Nested, Waited, Handshake, Spun, Unwind, EndHost
  <2>4. ASSUME NEW q \in Parks PROVE Handshake(q)'
      BY <1>5 DEF Located, Nested, Waited, Handshake, Spun, Unwind, EndHost
  <2>. HIDE DEF FrameInv
  <2>. QED BY Zenon, <2>1, <2>2, <2>3, <2>4 DEF FrameInv
<1>6. CASE YieldCanceled
  <2>1. Located'
      BY Zenon, <1>6 DEF Located, Nested, Waited, YieldCanceled
  <2>2. Nested'
      BY Zenon, <1>6 DEF Located, Nested, Waited, YieldCanceled
  <2>3. Waited'
      BY Zenon, <1>6 DEF Located, Nested, Waited, Handshake, YieldCanceled
  <2>4. ASSUME NEW q \in Parks PROVE Handshake(q)'
      BY Zenon, <1>6 DEF Located, Nested, Waited, Handshake, YieldCanceled
  <2>. HIDE DEF FrameInv
  <2>. QED BY Zenon, <2>1, <2>2, <2>3, <2>4 DEF FrameInv
<1>7. CASE Yield
  <2>1. Located'
      BY Zenon, <1>7 DEF Located, Nested, Waited, Yield, FrameGoto
  <2>2. Nested'
      BY Zenon, <1>7 DEF Located, Nested, Waited, Yield, FrameGoto
  <2>3. Waited'
      BY Zenon, <1>7 DEF Located, Nested, Waited, Handshake, Yield, FrameGoto
  <2>4. ASSUME NEW q \in Parks PROVE Handshake(q)'
      BY Zenon, <1>7 DEF Located, Nested, Waited, Handshake, Yield, FrameGoto
  <2>. HIDE DEF FrameInv
  <2>. QED BY Zenon, <2>1, <2>2, <2>3, <2>4 DEF FrameInv
<1>8. CASE YieldBack
  <2>1. Located'
      BY <1>8 DEF Located, Nested, Waited, YieldBack, FlipGen, Unwind, EndHost
  <2>2. Nested'
      BY <1>8 DEF Located, Nested, Waited, YieldBack, FlipGen, Unwind, EndHost
  <2>3. Waited'
      BY Zenon, <1>8 DEF Located, Nested, Waited, Handshake, YieldBack, FlipGen, Unwind, EndHost
  <2>4. ASSUME NEW q \in Parks PROVE Handshake(q)'
      BY <1>8 DEF Located, Nested, Waited, Handshake, YieldBack, FlipGen, Unwind, EndHost
  <2>. HIDE DEF FrameInv
  <2>. QED BY Zenon, <2>1, <2>2, <2>3, <2>4 DEF FrameInv
<1>9. CASE Clear
  <2>1. Located'
      BY Zenon, <1>9 DEF Located, Nested, Waited, Clear
  <2>2. Nested'
      BY Zenon, <1>9 DEF Located, Nested, Waited, Clear
  <2>3. Waited'
      BY Zenon, <1>9 DEF Located, Nested, Waited, Handshake, Clear
  <2>4. ASSUME NEW q \in Parks PROVE Handshake(q)'
      BY Zenon, <1>9 DEF Located, Nested, Waited, Handshake, Clear
  <2>. HIDE DEF FrameInv
  <2>. QED BY Zenon, <2>1, <2>2, <2>3, <2>4 DEF FrameInv
<1>10. CASE ClearToken
  <2>1. Located'
      BY Zenon, <1>10 DEF Located, Nested, Waited, ClearToken
  <2>2. Nested'
      BY Zenon, <1>10 DEF Located, Nested, Waited, ClearToken
  <2>3. Waited'
      BY Zenon, <1>10 DEF Located, Nested, Waited, Handshake, ClearToken
  <2>4. ASSUME NEW q \in Parks PROVE Handshake(q)'
      BY Zenon, <1>10 DEF Located, Nested, Waited, Handshake, ClearToken
  <2>. HIDE DEF FrameInv
  <2>. QED BY Zenon, <2>1, <2>2, <2>3, <2>4 DEF FrameInv
<1>11. CASE RemoveTimer
  <2>1. Located'
      BY Zenon, <1>11 DEF Located, Nested, Waited, RemoveTimer
  <2>2. Nested'
      BY Zenon, <1>11 DEF Located, Nested, Waited, RemoveTimer
  <2>3. Waited'
      BY Zenon, <1>11 DEF Located, Nested, Waited, Handshake, RemoveTimer
  <2>4. ASSUME NEW q \in Parks PROVE Handshake(q)'
      BY Zenon, <1>11 DEF Located, Nested, Waited, Handshake, RemoveTimer
  <2>. HIDE DEF FrameInv
  <2>. QED BY Zenon, <2>1, <2>2, <2>3, <2>4 DEF FrameInv
<1>12. CASE Return
  <2>1. Located'
      BY Zenon, <1>12 DEF Located, Nested, Waited, Return, Unwind, EndHost
  <2>2. Nested'
      BY Zenon, <1>12 DEF Located, Nested, Waited, Return, Unwind, EndHost
  <2>3. Waited'
      BY Zenon, <1>12 DEF Located, Nested, Waited, Handshake, Return, Unwind, EndHost
  <2>4. ASSUME NEW q \in Parks PROVE Handshake(q)'
      BY Zenon, <1>12 DEF Located, Nested, Waited, Handshake, Return, Unwind, EndHost
  <2>. HIDE DEF FrameInv
  <2>. QED BY Zenon, <2>1, <2>2, <2>3, <2>4 DEF FrameInv
<1>13. CASE Resume
  <2>1. Located'
      BY Zenon, <1>13 DEF Located, Nested, Waited, Resume
  <2>2. Nested'
      BY Zenon, <1>13 DEF Located, Nested, Waited, Resume
  <2>3. Waited'
      BY Zenon, <1>13 DEF Located, Nested, Waited, Handshake, Resume
  <2>4. ASSUME NEW q \in Parks PROVE Handshake(q)'
      BY Zenon, <1>13 DEF Located, Nested, Waited, Handshake, Resume
  <2>. HIDE DEF FrameInv
  <2>. QED BY Zenon, <2>1, <2>2, <2>3, <2>4 DEF FrameInv
<1>. HIDE FrameFacts DEF FrameInv, Goto, Inside, Early, Registered, Spinning,
         parkVars, coVars, cancelVars, frameVars, actorVars, timerVars
<1>. QED
    BY Zenon, <1>1, <1>2, <1>3, <1>4, <1>5, <1>6, <1>7, <1>8, <1>9, <1>10, <1>11, <1>12, <1>13
    DEF Coroutine

\* Every step of Park::subscribe keeps FrameInv.
LEMMA SubscribeFrame ==
    ASSUME TypeOK, FrameInv, NEW p \in Parks, Subscribe(p)
    PROVE  FrameInv'
<1>. USE FrameFacts DEF FrameInv, Goto, Inside, Early, Registered, Spinning,
         parkVars, coVars, cancelVars, frameVars, actorVars, timerVars
<1>1. CASE SubscribeTimer(p)
  <2>1. Located'
      BY Zenon, <1>1 DEF Located, Nested, Waited, SubscribeTimer, FrameGoto
  <2>2. Nested'
      BY Zenon, <1>1 DEF Located, Nested, Waited, SubscribeTimer, FrameGoto
  <2>3. Waited'
      BY Zenon, <1>1 DEF Located, Nested, Waited, Handshake, SubscribeTimer, FrameGoto
  <2>4. ASSUME NEW q \in Parks PROVE Handshake(q)'
      BY Zenon, <1>1 DEF Located, Nested, Waited, Handshake, SubscribeTimer, FrameGoto
  <2>. HIDE DEF FrameInv
  <2>. QED BY Zenon, <2>1, <2>2, <2>3, <2>4 DEF FrameInv
<1>2. CASE SubscribeGuard(p)
  <2>1. Located'
      BY Zenon, <1>2 DEF Located, Nested, Waited, SubscribeGuard, FrameGoto
  <2>2. Nested'
      BY Zenon, <1>2 DEF Located, Nested, Waited, SubscribeGuard, FrameGoto
  <2>3. Waited'
      BY Zenon, <1>2 DEF Located, Nested, Waited, Handshake, SubscribeGuard, FrameGoto
  <2>4. ASSUME NEW q \in Parks PROVE Handshake(q)'
      BY Zenon, <1>2 DEF Located, Nested, Waited, Handshake, SubscribeGuard, FrameGoto
  <2>. HIDE DEF FrameInv
  <2>. QED BY Zenon, <2>1, <2>2, <2>3, <2>4 DEF FrameInv
<1>3. CASE SubscribeRegister(p)
  <2>1. Located'
      BY Zenon, <1>3 DEF Located, Nested, Waited, SubscribeRegister, FrameGoto
  <2>2. Nested'
      BY Zenon, <1>3 DEF Located, Nested, Waited, SubscribeRegister, FrameGoto
  <2>3. Waited'
      BY Zenon, <1>3 DEF Located, Nested, Waited, Handshake, SubscribeRegister, FrameGoto
  <2>4. ASSUME NEW q \in Parks PROVE Handshake(q)'
      BY Zenon, <1>3 DEF Located, Nested, Waited, Handshake, SubscribeRegister, FrameGoto
  <2>. HIDE DEF FrameInv
  <2>. QED BY Zenon, <2>1, <2>2, <2>3, <2>4 DEF FrameInv
<1>4. CASE SubscribeCheck(p)
  <2>1. Located'
      BY Zenon, <1>4 DEF Located, Nested, Waited, SubscribeCheck, FrameGoto
  <2>2. Nested'
      BY Zenon, <1>4 DEF Located, Nested, Waited, SubscribeCheck, FrameGoto
  <2>3. Waited'
      BY <1>4 DEF Located, Nested, Waited, Handshake, SubscribeCheck, FrameGoto
  <2>4. ASSUME NEW q \in Parks PROVE Handshake(q)'
      BY Zenon, <1>4 DEF Located, Nested, Waited, Handshake, SubscribeCheck, FrameGoto
  <2>. HIDE DEF FrameInv
  <2>. QED BY Zenon, <2>1, <2>2, <2>3, <2>4 DEF FrameInv
<1>5. CASE SubscribeWake(p)
  <2>1. Located'
      BY <1>5 DEF Located, Nested, Waited, SubscribeWake, FrameGoto
  <2>2. Nested'
      BY <1>5 DEF Located, Nested, Waited, SubscribeWake, FrameGoto
  <2>3. Waited'
      BY <1>5 DEF Located, Nested, Waited, Handshake, SubscribeWake, FrameGoto
  <2>4. ASSUME NEW q \in Parks PROVE Handshake(q)'
      BY <1>5 DEF Located, Nested, Waited, Handshake, SubscribeWake, FrameGoto
  <2>. HIDE DEF FrameInv
  <2>. QED BY Zenon, <2>1, <2>2, <2>3, <2>4 DEF FrameInv
<1>6. CASE SubscribeSetCo(p)
  <2>1. Located'
      BY Zenon, <1>6 DEF Located, Nested, Waited, SubscribeSetCo, FrameGoto
  <2>2. Nested'
      BY Zenon, <1>6 DEF Located, Nested, Waited, SubscribeSetCo, FrameGoto
  <2>3. Waited'
      BY <1>6 DEF Located, Nested, Waited, Handshake, SubscribeSetCo, FrameGoto
  <2>4. ASSUME NEW q \in Parks PROVE Handshake(q)'
      BY Zenon, <1>6 DEF Located, Nested, Waited, Handshake, SubscribeSetCo, FrameGoto
  <2>. HIDE DEF FrameInv
  <2>. QED BY Zenon, <2>1, <2>2, <2>3, <2>4 DEF FrameInv
<1>7. CASE SubscribeIsCanceled(p)
  <2>1. Located'
      BY Zenon, <1>7 DEF Located, Nested, Waited, SubscribeIsCanceled, FrameGoto
  <2>2. Nested'
      BY Zenon, <1>7 DEF Located, Nested, Waited, SubscribeIsCanceled, FrameGoto
  <2>3. Waited'
      BY <1>7 DEF Located, Nested, Waited, Handshake, SubscribeIsCanceled, FrameGoto
  <2>4. ASSUME NEW q \in Parks PROVE Handshake(q)'
      BY Zenon, <1>7 DEF Located, Nested, Waited, Handshake, SubscribeIsCanceled, FrameGoto
  <2>. HIDE DEF FrameInv
  <2>. QED BY Zenon, <2>1, <2>2, <2>3, <2>4 DEF FrameInv
<1>8. CASE SubscribeCancel(p)
  <2>1. Located'
      BY Zenon, <1>8 DEF Located, Nested, Waited, SubscribeCancel, FrameGoto
  <2>2. Nested'
      BY Zenon, <1>8 DEF Located, Nested, Waited, SubscribeCancel, FrameGoto
  <2>3. Waited'
      BY <1>8 DEF Located, Nested, Waited, Handshake, SubscribeCancel, FrameGoto
  <2>4. ASSUME NEW q \in Parks PROVE Handshake(q)'
      BY Zenon, <1>8 DEF Located, Nested, Waited, Handshake, SubscribeCancel, FrameGoto
  <2>. HIDE DEF FrameInv
  <2>. QED BY Zenon, <2>1, <2>2, <2>3, <2>4 DEF FrameInv
<1>9. CASE SubscribeCancelTake(p)
  <2>0. atpark[p] \in Parks \cup {None}
      BY Zenon DEF TypeOK
  <2>1. Located'
      BY Zenon, <1>9, <2>0 DEF Located, Nested, Waited, SubscribeCancelTake, FrameGoto,
         TakeAndSchedule
  <2>2. Nested'
      BY Zenon, <1>9, <2>0 DEF Located, Nested, Waited, SubscribeCancelTake, FrameGoto,
         TakeAndSchedule
  <2>3. Waited'
      BY <1>9 DEF Located, Nested, Waited, Handshake, SubscribeCancelTake, FrameGoto,
         TakeAndSchedule
  <2>4. ASSUME NEW q \in Parks PROVE Handshake(q)'
      BY Zenon, <1>9 DEF Located, Nested, Waited, Handshake, SubscribeCancelTake, FrameGoto,
         TakeAndSchedule
  <2>. HIDE DEF FrameInv
  <2>. QED BY Zenon, <2>1, <2>2, <2>3, <2>4 DEF FrameInv
<1>10. CASE SubscribeDrop(p)
  <2>1. Located'
      BY Zenon, <1>10 DEF Located, Nested, Waited, SubscribeDrop, FlipGen
  <2>2. Nested'
      BY Zenon, <1>10 DEF Located, Nested, Waited, SubscribeDrop, FlipGen
  <2>3. Waited'
      BY <1>10 DEF Located, Nested, Waited, Handshake, SubscribeDrop, FlipGen
  <2>4. ASSUME NEW q \in Parks PROVE Handshake(q)'
    <3>1. /\ frame[p] = "drop" /\ frame'[p] = "none" /\ gen'[p] = ~gen[p]
          /\ q # p => gen'[q] = gen[q]
          /\ UNCHANGED <<pc, cur, loc, wait_kernel, canceled>>
        BY Zenon, <1>10 DEF SubscribeDrop, FlipGen
    <3>2. q # p => \/ frame'[q] = frame[q]
                   \/ frame[q] = "nested" /\ frame'[q] = "drop"
        BY Zenon, <1>10 DEF SubscribeDrop, Nested
    <3>3. CASE q = p
        BY Zenon, <3>1, <3>3 DEF Handshake, Waited
    <3>4. CASE q # p
        BY Zenon, <3>1, <3>2, <3>4 DEF Handshake
    <3>. QED BY Zenon, <3>3, <3>4
  <2>. HIDE DEF FrameInv
  <2>. QED BY Zenon, <2>1, <2>2, <2>3, <2>4 DEF FrameInv
<1>. HIDE FrameFacts DEF FrameInv, Goto, Inside, Early, Registered, Spinning,
         parkVars, coVars, cancelVars, frameVars, actorVars, timerVars
<1>. QED
    BY Zenon, <1>1, <1>2, <1>3, <1>4, <1>5, <1>6, <1>7, <1>8, <1>9, <1>10
    DEF Subscribe

\* The other actors: they take the coroutine, set the cancel flag or free a Park.
LEMMA OthersFrame ==
    ASSUME TypeOK, FrameInv,
           \/ \E u \in Unparkers : Unpark(u)
           \/ \E k \in Cancelers : Cancel(k)
           \/ \E n \in Calls : TimerPop(n) \/ TimerFire(n) \/ TimerRemove(n)
           \/ \E p \in Parks : Drop(p)
    PROVE  FrameInv'
<1>. USE DEF parkVars, coVars, cancelVars, frameVars, actorVars, timerVars
<1>1. ASSUME NEW u \in Unparkers, NEW p \in Parks, UnparkSet(u, p) PROVE FrameInv'
    BY Zenon, <1>1, FrameSame DEF UnparkSet
<1>2. ASSUME NEW u \in Unparkers, UnparkWake(u) PROVE FrameInv'
    BY Zenon, <1>2, FrameTake DEF UnparkWake, TypeOK
<1>3. ASSUME NEW k \in Cancelers, CancelSet(k) PROVE FrameInv'
    BY Zenon, <1>3 DEF CancelSet, FrameInv, Located, Nested, Waited, Handshake, Inside, Early,
                Registered, Spinning
<1>4. ASSUME NEW k \in Cancelers, CancelTakeCo(k) PROVE FrameInv'
    BY Zenon, <1>4, FrameSame DEF CancelTakeCo
<1>5. ASSUME NEW k \in Cancelers, CancelWake(k) PROVE FrameInv'
    BY Zenon, <1>5, FrameTake DEF CancelWake, TypeOK
<1>6. ASSUME NEW n \in Calls, TimerPop(n) \/ TimerRemove(n) PROVE FrameInv'
    BY Zenon, <1>6, FrameSame DEF TimerPop, TimerRemove
<1>7. ASSUME NEW n \in Calls, TimerFire(n) PROVE FrameInv'
    BY Zenon, <1>7, FrameTake DEF TimerFire, TypeOK
<1>8. ASSUME NEW p \in Parks, Drop(p) PROVE FrameInv'
  <2>1. /\ pc = "ended" /\ (wait_kernel[p] => ~gen[p])
        /\ \A q \in Parks : freed'[q] <=> freed[q] \/ q = p
        /\ UNCHANGED <<loc, pc, cur, host, canceled, frame, parent, gen, wait_kernel>>
      BY <1>8 DEF Drop, TypeOK
  <2>2. frame[p] = "none" \/ canceled
      BY Zenon, <2>1 DEF FrameInv, Located, Handshake, Inside, Early, Registered, Spinning
  <2>3. Waited'
      BY Zenon, <2>1, <2>2 DEF FrameInv, Waited, Spinning
  <2>4. Located' /\ Nested' /\ \A q \in Parks : Handshake(q)'
      BY Zenon, <2>1 DEF FrameInv, Located, Nested, Handshake, Inside, Early, Registered, Spinning
  <2>. QED BY Zenon, <2>3, <2>4 DEF FrameInv
<1>. QED
    BY Zenon, <1>1, <1>2, <1>3, <1>4, <1>5, <1>6, <1>7, <1>8 DEF Unpark, Cancel

\* Every step keeps FrameInv.
LEMMA FrameNext ==
    ASSUME TypeOK, FrameInv, [Next]_vars
    PROVE  FrameInv'
<1>1. CASE UNCHANGED vars
    BY Zenon, <1>1, FrameSame DEF vars
<1>2. CASE Next /\ ~UNCHANGED vars
    BY Zenon, <1>2, CoroutineFrame, SubscribeFrame, OthersFrame DEF Next, Quiet
<1>. QED BY Zenon, <1>1, <1>2

\* TypeOK: every variable keeps to its type.
THEOREM TypeCorrect == Spec => []TypeOK
<1>1. Init => TypeOK
    BY Zenon, FrameInit
<1>2. TypeOK /\ [Next]_vars => TypeOK'
    BY TypeNext
<1>. QED BY <1>1, <1>2, PTL DEF Spec

\* The inductive invariant holds for ever.
THEOREM FrameInvAlways == Spec => []FrameInv
<1>1. Init => FrameInv
    BY Zenon, FrameInit
<1>2. TypeOK /\ FrameInv /\ [Next]_vars => FrameInv'
    BY FrameNext
<1>. QED BY <1>1, <1>2, TypeCorrect, PTL DEF Spec

\* park.rs:184-190, 215-226, 277.  The frames of one Park do not overlap, for any
\* number of Parks, unparkers and cancellers and any nesting of frames.
THEOREM FramesApartAlways == Spec => []FramesApart
<1>1. FrameInv => FramesApart
    BY DEF FrameInv, Waited, FramesApart
<1>. QED BY <1>1, FrameInvAlways, PTL

\* park.rs:228-240.  No Park is freed under its frame unless a cancel panic
\* interrupts the wait for it.
THEOREM KernelLifetimeAlways == Spec => []KernelLifetime
<1>1. FrameInv => KernelLifetime
    BY DEF FrameInv, Waited, KernelLifetime
<1>. QED BY <1>1, FrameInvAlways, PTL

-----------------------------------------------------------------------------
(* No Ok without an unpark.                                                *)

\* The sets whose sizes CreditInv adds are finite.
LEMMA CreditSets ==
    ASSUME CardinalityFacts
    PROVE  /\ IsFiniteSet(Tokens) /\ Cardinality(Tokens) \in Nat
    /\ IsFiniteSet(Wakers) /\ Cardinality(Wakers) \in Nat
<1>1. Tokens \subseteq Parks /\ Wakers \subseteq Unparkers
    BY Zenon DEF Tokens, Wakers
<1>. QED BY Zenon, <1>1, ParkAssumption, CardSubset, CardType

\* Most steps leave what CreditInv adds up alone.
LEMMA CreditSame ==
    ASSUME Credit, Woken' <=> Woken, UNCHANGED <<Tokens, Wakers, oks, sets>>
    PROVE  Credit'
<1>1. One(Woken)' = One(Woken)
    BY Zenon DEF One
<1>. QED BY Zenon, <1>1 DEF Credit

\* A step that may change the token of x, or who will clear it.
LEMMA CreditMove ==
    ASSUME CardinalityFacts, TypeOK, Credit, sets' = sets, oks' \in Nat, NEW x, NEW d \in Int,
           \A y : y # x => (y \in Tokens' <=> y \in Tokens),
           Cardinality(Wakers)' = Cardinality(Wakers) - d,
           oks' + One(Woken') + One(x \in Tokens') <= oks + One(Woken) + One(x \in Tokens) + d
    PROVE  Credit'
<1>1. /\ Cardinality(Tokens)' \in Nat
      /\ Cardinality(Tokens)' = Cardinality(Tokens) + One(x \in Tokens') - One(x \in Tokens)
    BY Zenon, CreditSets, CountOne
<1>2. /\ One(Woken) \in Nat /\ One(Woken') \in Nat
      /\ One(x \in Tokens) \in Nat /\ One(x \in Tokens') \in Nat
    BY Zenon DEF One
<1>3. One(Woken)' = One(Woken')
    BY Zenon DEF One
<1>. QED BY <1>1, <1>2, <1>3, CreditSets DEF Credit, TypeOK

\* The first states.
LEMMA CreditInit ==
    ASSUME CardinalityFacts, Init
    PROVE  Reasons /\ Credit
<1>1. Reasons
    BY Zenon DEF Init, Reasons
<1>2. ~Woken /\ Tokens = {} /\ Wakers = {}
    BY Zenon DEF Init, Woken, Tokens, Wakers
<1>3. One(Woken) = 0 /\ Cardinality(Tokens) = 0 /\ Cardinality(Wakers) = 0
    BY Zenon, <1>2, CardEmpty DEF One
<1>4. oks = 0 /\ sets = 0
    BY Zenon DEF Init
<1>. QED BY <1>1, <1>3, <1>4 DEF Credit

\* What the accounting needs to know of types and of the handshake.
LEMMA CreditFacts ==
    ASSUME TypeOK, FrameInv
    PROVE  /\ token \in [Parks -> BOOLEAN] /\ cur \in Parks /\ oks \in Nat /\ sets \in Nat
           /\ \E S : frame \in [Parks -> S]
           /\ \E S : apc \in [Unparkers \cup Cancelers -> S]
           /\ atpark \in [Unparkers \cup Cancelers \cup Parks -> Parks \cup {None}]
           /\ timer_of \in [Calls -> Parks] /\ loc # None /\ Unparkers \cap Cancelers = {}
           /\ \A p \in Parks : p \notin {"run", "frame", "ready", "gone"}
           /\ (loc = "run" <=> pc \notin {"suspended", "spinning", "ended"})
           /\ (loc = "frame" => pc = "suspended")
           /\ (loc \in Parks => pc = "suspended" /\ loc = cur)
           /\ \A p \in Parks : Early(p) => loc = "frame" /\ cur = p
<1>1. /\ token \in [Parks -> BOOLEAN] /\ cur \in Parks /\ oks \in Nat /\ sets \in Nat
      /\ atpark \in [Unparkers \cup Cancelers \cup Parks -> Parks \cup {None}]
      /\ timer_of \in [Calls -> Parks]
    BY Zenon DEF TypeOK
<1>2. loc # None
    BY Zenon, ParkAssumption DEF TypeOK, Places
<1>3. /\ \E S : frame \in [Parks -> S]
      /\ \E S : apc \in [Unparkers \cup Cancelers -> S]
    BY Zenon DEF TypeOK
<1>4. (\A p \in Parks : p \notin {"run", "frame", "ready", "gone"}) /\ Unparkers \cap Cancelers = {}
    BY Zenon, ParkAssumption
<1>. QED BY Zenon, <1>1, <1>2, <1>3, <1>4 DEF FrameInv, Located

\* The steps of the coroutine.
LEMMA CoroutineCredit ==
    ASSUME CardinalityFacts, TypeOK, FrameInv, Reasons, Credit,
           Coroutine \/ Return \/ \E p \in Parks : ParkTimeout(p)
    PROVE  Reasons' /\ Credit'
<1>. USE CreditFacts DEF Goto,
         parkVars, coVars, cancelVars, frameVars, actorVars, timerVars
<1>1. ASSUME NEW p \in Parks, ParkTimeout(p) PROVE Reasons' /\ Credit'
  <2>1. Reasons'
      BY Zenon, <1>1 DEF Reasons, ParkTimeout, Woken
  <2>2. ~Woken /\ ~Woken' /\ Wakers' = Wakers /\ sets' = sets
      BY <1>1 DEF ParkTimeout, Woken, Wakers
  <2>3. /\ \A y : y # p => (y \in Tokens' <=> y \in Tokens)
        /\ p \notin Tokens' /\ (p \in Tokens <=> token[p])
      BY <1>1, <2>2 DEF ParkTimeout, Tokens
  <2>4. oks' \in Nat /\ oks' + 0 <= oks + One(p \in Tokens)
      BY <1>1, <2>3 DEF ParkTimeout, One
  <2>5. One(Woken) = 0 /\ One(Woken') = 0 /\ One(p \in Tokens') = 0 /\ One(p \in Tokens) \in Nat
      BY Zenon, <2>2, <2>3 DEF One
  <2>. QED BY <2>1, <2>2, <2>3, <2>4, <2>5, CreditMove, CreditSets
<1>2. CASE Gate
  <2>1. Reasons'
      BY Zenon, <1>2 DEF Reasons, Gate
  <2>2. Woken' <=> Woken
      BY Zenon, <1>2 DEF Reasons, Woken, Gate
  <2>3. UNCHANGED <<Tokens, Wakers, oks, sets>>
      BY Zenon, <1>2, <2>2 DEF Tokens, Wakers, Woken, Gate
  <2>. QED BY Zenon, <2>1, <2>2, <2>3, CreditSame
<1>3. CASE SpinDone
  <2>1. Reasons'
      BY Zenon, <1>3 DEF Reasons, SpinDone
  <2>2. Woken' <=> Woken
      BY Zenon, <1>3 DEF Reasons, Woken, SpinDone
  <2>3. UNCHANGED <<Tokens, Wakers, oks, sets>>
      BY Zenon, <1>3, <2>2 DEF Tokens, Wakers, Woken, SpinDone
  <2>. QED BY Zenon, <2>1, <2>2, <2>3, CreditSame
<1>4. CASE Spin
  <2>1. Reasons'
      BY Zenon, <1>4 DEF Reasons, Spin, Unwind, EndHost
  <2>2. Woken' <=> Woken
      BY Zenon, <1>4 DEF Reasons, Woken, Spin, Unwind, EndHost
  <2>3. UNCHANGED <<Tokens, Wakers, oks, sets>>
      BY Zenon, <1>4, <2>2 DEF Tokens, Wakers, Woken, Spin, Unwind, EndHost
  <2>. QED BY Zenon, <2>1, <2>2, <2>3, CreditSame
<1>5. CASE Spun
  <2>1. Reasons'
      BY Zenon, <1>5 DEF Reasons, Spun, Unwind, EndHost
  <2>2. Woken' <=> Woken
      BY Zenon, <1>5 DEF Reasons, Woken, Spun, Unwind, EndHost
  <2>3. UNCHANGED <<Tokens, Wakers, oks, sets>>
      BY Zenon, <1>5, <2>2 DEF Tokens, Wakers, Woken, Spun, Unwind, EndHost
  <2>. QED BY Zenon, <2>1, <2>2, <2>3, CreditSame
<1>6. CASE YieldCanceled
  <2>1. Reasons'
      BY Zenon, <1>6 DEF Reasons, YieldCanceled
  <2>2. Woken' <=> Woken
      BY Zenon, <1>6 DEF Reasons, Woken, YieldCanceled
  <2>3. UNCHANGED <<Tokens, Wakers, oks, sets>>
      BY Zenon, <1>6, <2>2 DEF Tokens, Wakers, Woken, YieldCanceled
  <2>. QED BY Zenon, <2>1, <2>2, <2>3, CreditSame
<1>7. CASE Yield
  <2>1. Reasons'
      BY Zenon, <1>7 DEF Reasons, Yield, FrameGoto
  <2>2. Woken' <=> Woken
      BY Zenon, <1>7 DEF Reasons, Woken, Yield, FrameGoto
  <2>3. UNCHANGED <<Tokens, Wakers, oks, sets>>
      BY Zenon, <1>7, <2>2 DEF Tokens, Wakers, Woken, Yield, FrameGoto
  <2>. QED BY Zenon, <2>1, <2>2, <2>3, CreditSame
<1>8. CASE Clear
  <2>1. Reasons'
      BY Zenon, <1>8 DEF Reasons, Clear
  <2>2. Woken' <=> Woken
      BY Zenon, <1>8 DEF Reasons, Woken, Clear
  <2>3. UNCHANGED <<Tokens, Wakers, oks, sets>>
      BY Zenon, <1>8, <2>2 DEF Tokens, Wakers, Woken, Clear
  <2>. QED BY Zenon, <2>1, <2>2, <2>3, CreditSame
<1>9. CASE Return
  <2>1. Reasons'
      BY Zenon, <1>9 DEF Reasons, Return, Unwind, EndHost
  <2>2. Woken' <=> Woken
      BY Zenon, <1>9 DEF Reasons, Woken, Return, Unwind, EndHost
  <2>3. UNCHANGED <<Tokens, Wakers, oks, sets>>
      BY Zenon, <1>9, <2>2 DEF Tokens, Wakers, Woken, Return, Unwind, EndHost
  <2>. QED BY Zenon, <2>1, <2>2, <2>3, CreditSame
<1>10. CASE Resume
  <2>1. Reasons'
      BY Zenon, <1>10 DEF Reasons, Resume
  <2>2. Woken' <=> Woken
      BY Zenon, <1>10 DEF Reasons, Woken, Resume
  <2>3. UNCHANGED <<Tokens, Wakers, oks, sets>>
      BY Zenon, <1>10, <2>2 DEF Tokens, Wakers, Woken, Resume
  <2>. QED BY Zenon, <2>1, <2>2, <2>3, CreditSame
<1>11. CASE YieldBack
  <2>1. Reasons'
      BY Zenon, <1>11 DEF Reasons, YieldBack, FlipGen, Unwind, EndHost
  <2>2. UNCHANGED <<token, cur, Wakers, oks, sets>>
      BY Zenon, <1>11 DEF YieldBack, Wakers
  <2>3. CASE Woken' <=> Woken
    <3>1. Tokens' = Tokens
        BY Zenon, <1>11, <2>2, <2>3 DEF YieldBack, Unwind, Tokens, Woken, Reasons
    <3>. QED BY Zenon, <2>1, <2>2, <2>3, <3>1, CreditSame
  <2>4. CASE Woken /\ ~Woken'
    <3>1. /\ \A y : y # cur => (y \in Tokens' <=> y \in Tokens)
          /\ cur \notin Tokens
        BY Zenon, <1>11, <2>2, <2>4 DEF YieldBack, Tokens
    <3>2. /\ One(Woken) = 1 /\ One(Woken') = 0 /\ One(cur \in Tokens) = 0
          /\ One(cur \in Tokens') \in {0, 1}
        BY Zenon, <2>4, <3>1 DEF One
    <3>3. oks' \in Nat /\ oks' = oks
        BY Zenon, <2>2
    <3>4. oks' + One(Woken') + One(cur \in Tokens') <= oks + One(Woken) + One(cur \in Tokens) + 0
        BY <3>2, <3>3
    <3>. QED BY <2>1, <2>2, <3>1, <3>3, <3>4, CreditMove, CreditSets
  <2>5. Woken' => Woken
      BY Zenon, <1>11 DEF YieldBack, Unwind, Woken, Reasons
  <2>. QED BY Zenon, <2>3, <2>4, <2>5
<1>12. CASE ClearToken
  <2>1. Reasons'
      BY Zenon, <1>12 DEF Reasons, ClearToken
  <2>2. (Woken' <=> Woken) /\ UNCHANGED <<Wakers, oks, sets, cur>>
      BY Zenon, <1>12 DEF ClearToken, Woken, Wakers
  <2>3. /\ \A y : y # cur => (y \in Tokens' <=> y \in Tokens)
        /\ cur \notin Tokens'
      BY Zenon, <1>12, <2>2 DEF ClearToken, Tokens
  <2>4. One(Woken') = One(Woken) /\ One(Woken) \in Nat /\ One(cur \in Tokens') = 0
        /\ One(cur \in Tokens) \in Nat
      BY Zenon, <2>2, <2>3 DEF One
  <2>5. oks' \in Nat /\ oks' + One(Woken') + One(cur \in Tokens')
                            <= oks + One(Woken) + One(cur \in Tokens) + 0
      BY <2>2, <2>4
  <2>. QED BY <2>1, <2>2, <2>3, <2>5, CreditMove, CreditSets
<1>13. CASE RemoveTimer
  <2>1. Reasons'
      BY Zenon, <1>13 DEF Reasons, RemoveTimer
  <2>2. /\ ~Woken' /\ (Woken <=> para = "none") /\ UNCHANGED <<Wakers, sets, token, cur>>
        /\ oks' = IF para = "none" THEN oks + 1 ELSE oks
      BY Zenon, <1>13 DEF RemoveTimer, Woken, Wakers
  <2>3. Tokens' = Tokens
      BY Zenon, <1>13, <2>2 DEF RemoveTimer, Tokens
  <2>4. /\ oks' = oks + One(Woken) /\ oks' \in Nat /\ One(Woken') = 0 /\ One(Woken) \in Nat
        /\ One(cur \in Tokens') = One(cur \in Tokens) /\ One(cur \in Tokens) \in Nat
      BY <2>2, <2>3 DEF One
  <2>5. oks' + One(Woken') + One(cur \in Tokens') <= oks + One(Woken) + One(cur \in Tokens) + 0
      BY <2>4
  <2>. QED BY <2>1, <2>2, <2>3, <2>4, <2>5, CreditMove, CreditSets
<1>. HIDE CreditFacts DEF Goto,
         parkVars, coVars, cancelVars, frameVars, actorVars, timerVars
<1>. QED
    BY Zenon, <1>1, <1>2, <1>3, <1>4, <1>5, <1>6, <1>7, <1>8, <1>9, <1>10, <1>11, <1>12, <1>13
       DEF Coroutine

\* The steps of Park::subscribe.
LEMMA SubscribeCredit ==
    ASSUME CardinalityFacts, TypeOK, FrameInv, Reasons, Credit, NEW p \in Parks, Subscribe(p)
    PROVE  Reasons' /\ Credit'
<1>. USE CreditFacts DEF Early, Goto,
         parkVars, coVars, cancelVars, frameVars, actorVars, timerVars
<1>1. CASE SubscribeTimer(p)
  <2>1. Reasons'
      BY Zenon, <1>1 DEF Reasons, SubscribeTimer, FrameGoto
  <2>2. Woken' <=> Woken
      BY Zenon, <1>1 DEF Reasons, Woken, SubscribeTimer, FrameGoto
  <2>3. UNCHANGED <<Tokens, Wakers, oks, sets>>
      BY Zenon, <1>1, <2>2 DEF Tokens, Wakers, SubscribeTimer, FrameGoto
  <2>. QED BY Zenon, <2>1, <2>2, <2>3, CreditSame
<1>2. CASE SubscribeGuard(p)
  <2>1. Reasons'
      BY Zenon, <1>2 DEF Reasons, SubscribeGuard, FrameGoto
  <2>2. Woken' <=> Woken
      BY Zenon, <1>2 DEF Reasons, Woken, SubscribeGuard, FrameGoto
  <2>3. UNCHANGED <<Tokens, Wakers, oks, sets>>
      BY Zenon, <1>2, <2>2 DEF Tokens, Wakers, SubscribeGuard, FrameGoto
  <2>. QED BY Zenon, <2>1, <2>2, <2>3, CreditSame
<1>3. CASE SubscribeRegister(p)
  <2>1. Reasons'
      BY Zenon, <1>3 DEF Reasons, SubscribeRegister, FrameGoto
  <2>2. Woken' <=> Woken
      BY Zenon, <1>3 DEF Reasons, Woken, SubscribeRegister, FrameGoto
  <2>3. UNCHANGED <<Tokens, Wakers, oks, sets>>
      BY Zenon, <1>3, <2>2 DEF Tokens, Wakers, SubscribeRegister, FrameGoto
  <2>. QED BY Zenon, <2>1, <2>2, <2>3, CreditSame
<1>4. CASE SubscribeCheck(p)
  <2>1. Reasons'
      BY Zenon, <1>4 DEF Reasons, SubscribeCheck, FrameGoto
  <2>2. Woken' <=> Woken
      BY Zenon, <1>4 DEF Reasons, Woken, SubscribeCheck, FrameGoto
  <2>3. UNCHANGED <<Tokens, Wakers, oks, sets>>
      BY Zenon, <1>4, <2>2 DEF Tokens, Wakers, SubscribeCheck, FrameGoto
  <2>. QED BY Zenon, <2>1, <2>2, <2>3, CreditSame
<1>5. CASE SubscribeSetCo(p)
  <2>1. Reasons'
      BY Zenon, <1>5 DEF Reasons, SubscribeSetCo, FrameGoto
  <2>2. Woken' <=> Woken
      BY Zenon, <1>5 DEF Reasons, Woken, SubscribeSetCo, FrameGoto
  <2>3. UNCHANGED <<Tokens, Wakers, oks, sets>>
      BY Zenon, <1>5, <2>2 DEF Tokens, Wakers, SubscribeSetCo, FrameGoto
  <2>. QED BY Zenon, <2>1, <2>2, <2>3, CreditSame
<1>6. CASE SubscribeIsCanceled(p)
  <2>1. Reasons'
      BY Zenon, <1>6 DEF Reasons, SubscribeIsCanceled, FrameGoto
  <2>2. Woken' <=> Woken
      BY Zenon, <1>6 DEF Reasons, Woken, SubscribeIsCanceled, FrameGoto
  <2>3. UNCHANGED <<Tokens, Wakers, oks, sets>>
      BY Zenon, <1>6, <2>2 DEF Tokens, Wakers, SubscribeIsCanceled, FrameGoto
  <2>. QED BY Zenon, <2>1, <2>2, <2>3, CreditSame
<1>7. CASE SubscribeCancel(p)
  <2>1. Reasons'
      BY Zenon, <1>7 DEF Reasons, SubscribeCancel, FrameGoto
  <2>2. Woken' <=> Woken
      BY Zenon, <1>7 DEF Reasons, Woken, SubscribeCancel, FrameGoto
  <2>3. UNCHANGED <<Tokens, Wakers, oks, sets>>
      BY Zenon, <1>7, <2>2 DEF Tokens, Wakers, SubscribeCancel, FrameGoto
  <2>. QED BY Zenon, <2>1, <2>2, <2>3, CreditSame
<1>8. CASE SubscribeCancelTake(p)
  <2>1. Reasons'
      BY Zenon, <1>8 DEF Reasons, SubscribeCancelTake, FrameGoto, TakeAndSchedule
  <2>2. Woken' <=> Woken
      BY Zenon, <1>8 DEF Reasons, Woken, SubscribeCancelTake, FrameGoto, TakeAndSchedule
  <2>3. UNCHANGED <<Tokens, Wakers, oks, sets>>
      BY Zenon, <1>8, <2>2 DEF Tokens, Wakers, SubscribeCancelTake, FrameGoto, TakeAndSchedule
  <2>. QED BY Zenon, <2>1, <2>2, <2>3, CreditSame
<1>9. CASE SubscribeDrop(p)
  <2>1. Reasons'
      BY Zenon, <1>9 DEF Reasons, SubscribeDrop, FlipGen, Nested, FrameInv
  <2>2. Woken' <=> Woken
      BY Zenon, <1>9 DEF Reasons, Woken, SubscribeDrop, FlipGen
  <2>3. UNCHANGED <<Tokens, Wakers, oks, sets>>
      BY Zenon, <1>9, <2>2 DEF Tokens, Wakers, SubscribeDrop, FlipGen
  <2>. QED BY Zenon, <2>1, <2>2, <2>3, CreditSame
<1>10. CASE SubscribeWake(p)
  <2>1. Reasons'
      BY Zenon, <1>10 DEF Reasons, SubscribeWake, FrameGoto
  <2>2. CASE loc # p
    <3>1. Woken' <=> Woken
        BY Zenon, <1>10, <2>2 DEF SubscribeWake, Woken
    <3>2. UNCHANGED <<Tokens, Wakers, oks, sets>>
        BY Zenon, <1>10, <2>2, <3>1 DEF SubscribeWake, Tokens, Wakers
    <3>. QED BY Zenon, <2>1, <3>1, <3>2, CreditSame
  <2>3. CASE loc = p
    <3>1. /\ ~Woken /\ Woken' /\ pc' = "resumed" /\ cur = p /\ token[p]
          /\ UNCHANGED <<token, cur, Wakers, oks, sets>>
        BY Zenon, <1>10, <2>3 DEF SubscribeWake, Woken, Wakers, Reasons
    <3>2. /\ \A y : y # cur => (y \in Tokens' <=> y \in Tokens)
          /\ cur \notin Tokens' /\ cur \in Tokens
        BY Zenon, <3>1 DEF Tokens
    <3>3. One(Woken) = 0 /\ One(Woken') = 1 /\ One(cur \in Tokens) = 1 /\ One(cur \in Tokens') = 0
        BY Zenon, <3>1, <3>2 DEF One
    <3>6. oks' = oks /\ oks \in Nat
        BY Zenon, <3>1
    <3>4. oks' \in Nat /\ oks' + One(Woken') + One(cur \in Tokens')
                              <= oks + One(Woken) + One(cur \in Tokens) + 0
        BY <3>3, <3>6
    <3>5. sets' = sets /\ Cardinality(Wakers)' = Cardinality(Wakers) - 0
        BY <3>1, CreditSets
    <3>. QED BY <2>1, <3>2, <3>4, <3>5, CreditMove
  <2>. QED BY Zenon, <2>2, <2>3
<1>. HIDE CreditFacts DEF Early, Goto,
         parkVars, coVars, cancelVars, frameVars, actorVars, timerVars
<1>. QED
    BY Zenon, <1>1, <1>2, <1>3, <1>4, <1>5, <1>6, <1>7, <1>8, <1>9, <1>10 DEF Subscribe

\* The steps of an unparker.
LEMMA UnparkCredit ==
    ASSUME CardinalityFacts, TypeOK, FrameInv, Reasons, Credit, NEW u \in Unparkers, Unpark(u)
    PROVE  Reasons' /\ Credit'
<1>. USE CreditFacts DEF ActorGoto,
         parkVars, coVars, cancelVars, frameVars, actorVars, timerVars
<1>1. ASSUME NEW p \in Parks, UnparkSet(u, p) PROVE Reasons' /\ Credit'
  <2>1. Reasons'
      BY Zenon, <1>1 DEF Reasons, UnparkSet
  <2>2. (Woken' <=> Woken) /\ UNCHANGED <<pc, cur, oks>>
      BY Zenon, <1>1 DEF UnparkSet, Woken
  <2>3. CASE token[p]
    <3>1. UNCHANGED <<Tokens, Wakers, oks, sets>>
        BY Zenon, <1>1, <2>2, <2>3 DEF UnparkSet, Tokens, Wakers
    <3>. QED BY Zenon, <2>1, <2>2, <3>1, CreditSame
  <2>4. CASE ~token[p]
    <3>1. /\ \A y : y # u => (y \in Wakers' <=> y \in Wakers)
          /\ u \notin Wakers /\ u \in Wakers'
        BY Zenon, <1>1, <2>4 DEF UnparkSet, Wakers
    <3>2. /\ \A y : y # p => (y \in Tokens' <=> y \in Tokens)
          /\ p \notin Tokens
        BY Zenon, <1>1, <2>2, <2>4 DEF UnparkSet, Tokens
    <3>3. /\ One(u \in Wakers) = 0 /\ One(u \in Wakers') = 1
          /\ One(p \in Tokens) = 0 /\ One(p \in Tokens') \in {0, 1}
          /\ One(Woken') = One(Woken) /\ One(Woken)' = One(Woken') /\ One(Woken) \in Nat
        BY Zenon, <2>2, <3>1, <3>2 DEF One
    <3>4. Cardinality(Wakers)' = Cardinality(Wakers) + 1
        BY <3>1, <3>3, CreditSets, CountOne
    <3>5. Cardinality(Tokens)' \in {Cardinality(Tokens), Cardinality(Tokens) + 1}
        BY <3>2, <3>3, CreditSets, CountOne
    <3>6. sets' = sets + 1 /\ oks' = oks
        BY Zenon, <1>1, <2>4 DEF UnparkSet
    <3>. QED BY <2>1, <3>3, <3>4, <3>5, <3>6, CreditSets DEF Credit
  <2>. QED BY Zenon, <2>3, <2>4
<1>2. CASE UnparkWake(u)
  <2>1. Reasons'
      BY Zenon, <1>2 DEF Reasons, UnparkWake, TakeAndSchedule
  <2>2. /\ apc[u] = "wake" /\ UNCHANGED <<pc, cur, token, oks, sets, para>>
        /\ loc' = loc \/ (pc = "suspended" /\ loc \in Parks /\ loc' = "ready")
      BY Zenon, <1>2 DEF UnparkWake, TakeAndSchedule
  <2>3. /\ \A y : y # u => (y \in Wakers' <=> y \in Wakers)
        /\ u \in Wakers /\ u \notin Wakers'
      BY Zenon, <1>2 DEF UnparkWake, Wakers
  <2>4. One(u \in Wakers) = 1 /\ One(u \in Wakers') = 0
      BY Zenon, <2>3 DEF One
  <2>5. Cardinality(Wakers)' = Cardinality(Wakers) - 1
      BY <2>3, <2>4, CreditSets, CountOne
  <2>6. /\ \A y : y # cur => (y \in Tokens' <=> y \in Tokens)
        /\ cur \in Tokens' => cur \in Tokens
      BY Zenon, <2>2 DEF Tokens, Woken
  <2>7. /\ One(Woken') <= One(Woken) + 1
        /\ One(cur \in Tokens') <= One(cur \in Tokens)
        /\ One(Woken) \in Nat /\ One(Woken') \in Nat
        /\ One(cur \in Tokens) \in Nat /\ One(cur \in Tokens') \in Nat
      BY <2>6 DEF One
  <2>8. oks' \in Nat /\ oks' + One(Woken') + One(cur \in Tokens')
                            <= oks + One(Woken) + One(cur \in Tokens) + 1
      BY <2>2, <2>7
  <2>. QED BY <2>1, <2>2, <2>5, <2>6, <2>8, CreditMove
<1>. QED BY Zenon, <1>1, <1>2 DEF Unpark

\* Cancellers, the timer thread and the last owner do not make a park return Ok.
LEMMA OthersCredit ==
    ASSUME TypeOK, FrameInv, Reasons, Credit,
           \/ \E k \in Cancelers : Cancel(k)
           \/ \E n \in Calls : TimerPop(n) \/ TimerFire(n) \/ TimerRemove(n)
           \/ \E p \in Parks : Drop(p)
    PROVE  Reasons' /\ Credit'
<1>. USE CreditFacts DEF ActorGoto,
         parkVars, coVars, cancelVars, frameVars, actorVars, timerVars
<1>1. ASSUME NEW k \in Cancelers, CancelSet(k) \/ CancelTakeCo(k) \/ CancelWake(k)
      PROVE  Reasons' /\ Credit'
  <2>1. Reasons'
      BY <1>1 DEF Reasons, CancelSet, CancelTakeCo, CancelWake, TakeAndSchedule
  <2>2. Woken' <=> Woken
      BY <1>1 DEF Woken, CancelSet, CancelTakeCo, CancelWake, TakeAndSchedule
  <2>3. UNCHANGED <<pc, cur, token, oks, sets>> /\ \A u \in Unparkers : apc'[u] = apc[u]
      BY Zenon, <1>1 DEF CancelSet, CancelTakeCo, CancelWake
  <2>4. UNCHANGED <<Tokens, Wakers>>
      BY Zenon, <2>2, <2>3 DEF Tokens, Wakers
  <2>. QED BY Zenon, <2>1, <2>2, <2>3, <2>4, CreditSame
<1>2. ASSUME NEW n \in Calls, TimerPop(n) \/ TimerFire(n) \/ TimerRemove(n)
      PROVE  Reasons' /\ Credit'
  <2>1. Reasons'
      BY <1>2 DEF Reasons, TimerPop, TimerFire, TimerRemove, TakeAndSchedule
  <2>2. Woken' <=> Woken
      BY <1>2 DEF Woken, TimerPop, TimerFire, TimerRemove, TakeAndSchedule
  <2>3. UNCHANGED <<pc, cur, token, oks, sets, apc>>
      BY Zenon, <1>2 DEF TimerPop, TimerFire, TimerRemove
  <2>4. UNCHANGED <<Tokens, Wakers>>
      BY Zenon, <2>2, <2>3 DEF Tokens, Wakers
  <2>. QED BY Zenon, <2>1, <2>2, <2>3, <2>4, CreditSame
<1>3. ASSUME NEW p \in Parks, Drop(p)
      PROVE  Reasons' /\ Credit'
  <2>1. UNCHANGED <<para, loc, frame, pc, cur, token, oks, sets, apc>>
      BY Zenon, <1>3 DEF Drop
  <2>2. Reasons' /\ (Woken' <=> Woken)
      BY Zenon, <2>1 DEF Reasons, Woken
  <2>3. UNCHANGED <<Tokens, Wakers>>
      BY Zenon, <2>1, <2>2 DEF Tokens, Wakers
  <2>. QED BY Zenon, <2>1, <2>2, <2>3, CreditSame
<1>. HIDE CreditFacts DEF ActorGoto,
         parkVars, coVars, cancelVars, frameVars, actorVars, timerVars
<1>. QED BY Zenon, <1>1, <1>2, <1>3 DEF Cancel

\* Every step keeps the account.
LEMMA CreditNext ==
    ASSUME CardinalityFacts, TypeOK, FrameInv, Reasons, Credit, [Next]_vars
    PROVE  Reasons' /\ Credit'
<1>1. CASE UNCHANGED vars
  <2>1. UNCHANGED <<para, loc, frame, pc, cur, token, oks, sets, apc>>
      BY Zenon, <1>1 DEF vars
  <2>2. Reasons' /\ (Woken' <=> Woken)
      BY Zenon, <2>1 DEF Reasons, Woken
  <2>3. UNCHANGED <<Tokens, Wakers>>
      BY Zenon, <2>1, <2>2 DEF Tokens, Wakers
  <2>. QED BY Zenon, <2>1, <2>2, <2>3, CreditSame
<1>2. CASE Next /\ ~UNCHANGED vars
    BY Zenon, <1>2, CoroutineCredit, SubscribeCredit, UnparkCredit, OthersCredit DEF Next, Quiet
<1>. QED BY Zenon, <1>1, <1>2

INSTANCE FiniteSetTheorems

\* The facts on finite sets that the lemmas above assume.
LEMMA CardinalityHolds == CardinalityFacts
<1>1. \A S : IsFiniteSet(S) => Cardinality(S) \in Nat
    BY Zenon, FS_CardinalityType
<1>2. \A n \in Nat : IsFiniteSet(1..n) /\ Cardinality(1..n) = n
    BY FS_Interval
<1>3. \A S, T : \A f \in Surjection(S, T) :
          IsFiniteSet(S) => IsFiniteSet(T) /\ Cardinality(T) <= Cardinality(S)
    BY Zenon, FS_Surjection
<1>4. \A S : \A T \in SUBSET S :
          IsFiniteSet(S) => /\ IsFiniteSet(T) /\ Cardinality(T) <= Cardinality(S)
                            /\ Cardinality(S) = Cardinality(T) => S = T
    BY Zenon, FS_Subset
<1>. QED
    BY Zenon, <1>1, <1>2, <1>3, <1>4, FS_EmptySet, FS_Singleton, FS_AddElement, FS_RemoveElement
    DEF CardinalityFacts

\* park.rs:162-170, 201-210.  However unparks, cancels and timeouts race with the
\* registration, an unpark that set the token accounts for at most two returns
\* with Ok, and without an unpark there is none.
THEOREM OkHasUnparkAlways == Spec => []OkHasUnpark
<1>. USE CardinalityHolds
<1>1. Init => Reasons /\ Credit
    BY Zenon, CreditInit
<1>2. TypeOK /\ FrameInv /\ (Reasons /\ Credit) /\ [Next]_vars => (Reasons /\ Credit)'
    BY Zenon, CreditNext
<1>3. TypeOK /\ Credit => OkHasUnpark
  <2>1. One(Woken) \in Nat
      BY Zenon DEF One
  <2>. QED BY <2>1, CreditSets DEF TypeOK, Credit, OkHasUnpark
<1>. QED BY <1>1, <1>2, <1>3, TypeCorrect, FrameInvAlways, PTL DEF Spec
=============================================================================
