--------------------------- MODULE ChannelProofs ---------------------------
(***************************************************************************)
(* The mpmc channel, for any number of handles and any limit: a unit of    *)
(* wake_recv is a message, the limit is exceeded by less than one message  *)
(* for each sender, and nobody stays parked who could go on.               *)
(***************************************************************************)
EXTENDS Channel, CollectionLemmas

\* What bounded() and the types guarantee.
ChannelConstants ==
    /\ IsFiniteSet(Senders) /\ IsFiniteSet(Receivers) /\ Senders \cap Receivers = {}
    /\ FirstSender \in Senders /\ FirstReceiver \in Receivers
    /\ BufferLimit \in Nat /\ MaxCalls \in Nat

-----------------------------------------------------------------------------
(* The record of a semaphore: waits and ghosts that are owed no wake-up    *)
(* are what the negative counter counts.                                   *)

Balanced(s) ==
    Cardinality(s.waiting) + s.ghosts - s.owed = IF s.cnt < 0 THEN -s.cnt ELSE 0

SemOK(W, s) == s \in SemType(W) /\ Balanced(s)

\* The fields of a record.
LEMMA SemFields ==
    ASSUME CardinalityFacts, NEW W, IsFiniteSet(W), NEW s, SemOK(W, s)
    PROVE  /\ s.cnt \in Int /\ s.owed \in Nat /\ s.ghosts \in Nat /\ s.waiting \subseteq W
           /\ IsFiniteSet(s.waiting) /\ Cardinality(s.waiting) \in Nat
           /\ Units(s) \in Nat
<1>1. /\ s.cnt \in Int /\ s.owed \in Nat /\ s.ghosts \in Nat /\ s.waiting \subseteq W
    BY Zenon DEF SemOK, SemType
<1>. QED BY <1>1, CardSubset, CardType DEF Units

\* try_wait.
LEMMA OkTryWait ==
    ASSUME CardinalityFacts, NEW W, IsFiniteSet(W), NEW s, SemOK(W, s), s.cnt > 0, NEW t, t =
        SemTryWait(s)
    PROVE  SemOK(W, t) /\ Units(t) = Units(s) - 1 /\ t.waiting = s.waiting
<1>1. /\ s.cnt \in Int /\ s.owed \in Nat /\ s.ghosts \in Nat /\ IsFiniteSet(s.waiting)
      /\ Cardinality(s.waiting) \in Nat
    BY Zenon, SemFields
<1>2. s \in SemType(W) /\ Balanced(s)
    BY Zenon DEF SemOK
<1>3. t \in SemType(W) /\ Units(t) = Units(s) - 1
    BY Zenon, <1>2, UnitsTryWait
<1>4. t.cnt = s.cnt - 1 /\ t.owed = s.owed /\ t.ghosts = s.ghosts /\ t.waiting = s.waiting
    BY Zenon, <1>2 DEF SemTryWait, SemType
<1>5. Cardinality(t.waiting) = Cardinality(s.waiting)
    BY Zenon, <1>4
<1>6. Balanced(t)
    BY <1>1, <1>2, <1>4, <1>5 DEF Balanced
<1>. QED BY Zenon, <1>3, <1>4, <1>6 DEF SemOK

\* A wait registers.
LEMMA OkRegister ==
    ASSUME CardinalityFacts, NEW W, IsFiniteSet(W), NEW s, SemOK(W, s), NEW c \in W,
           c \notin s.waiting, NEW t,
           t = SemRegister(s, c)
    PROVE  SemOK(W, t) /\ Units(t) = Units(s) /\ t.waiting = s.waiting \cup {c}
<1>1. /\ s.cnt \in Int /\ s.owed \in Nat /\ s.ghosts \in Nat /\ IsFiniteSet(s.waiting)
      /\ Cardinality(s.waiting) \in Nat
    BY Zenon, SemFields
<1>2. s \in SemType(W) /\ Balanced(s)
    BY Zenon DEF SemOK
<1>3. t \in SemType(W) /\ Units(t) = Units(s)
    BY <1>2, UnitsRegister
<1>4. /\ t.cnt = s.cnt - 1 /\ t.owed = (IF s.cnt > 0 THEN s.owed + 1 ELSE s.owed)
      /\ t.ghosts = s.ghosts /\ t.waiting = s.waiting \cup {c}
    BY Zenon, <1>2 DEF SemRegister, SemType
<1>5. Cardinality(t.waiting) = Cardinality(s.waiting) + 1
    BY ZenonT(40), <1>1, <1>4, CardAdd
<1>6. Balanced(t)
  <2>1. CASE s.cnt > 0
      BY <1>1, <1>2, <1>4, <1>5, <2>1 DEF Balanced
  <2>2. CASE ~(s.cnt > 0)
      BY <1>1, <1>2, <1>4, <1>5, <2>2 DEF Balanced
  <2>. QED BY Zenon, <2>1, <2>2
<1>. QED BY Zenon, <1>3, <1>4, <1>6 DEF SemOK

\* A wait returns.
LEMMA OkReturn ==
    ASSUME CardinalityFacts, NEW W, IsFiniteSet(W), NEW s, SemOK(W, s), NEW c, c \in s.waiting,
           s.owed > 0, NEW t,
           t = SemReturn(s, c)
    PROVE  SemOK(W, t) /\ Units(t) = Units(s) - 1 /\ t.waiting = s.waiting \ {c}
<1>1. /\ s.cnt \in Int /\ s.owed \in Nat /\ s.ghosts \in Nat /\ IsFiniteSet(s.waiting)
      /\ Cardinality(s.waiting) \in Nat
    BY Zenon, SemFields
<1>2. s \in SemType(W) /\ Balanced(s)
    BY Zenon DEF SemOK
<1>3. t \in SemType(W) /\ Units(t) = Units(s) - 1
    BY Zenon, <1>2, UnitsReturn
<1>4. t.cnt = s.cnt /\ t.owed = s.owed - 1 /\ t.ghosts = s.ghosts /\ t.waiting = s.waiting \ {c}
    BY Zenon, <1>2 DEF SemReturn, SemType
<1>5. Cardinality(t.waiting) = Cardinality(s.waiting) - 1
    BY Zenon, <1>1, <1>4, CardRemove
<1>6. Balanced(t)
    BY <1>1, <1>2, <1>4, <1>5 DEF Balanced
<1>. QED BY Zenon, <1>3, <1>4, <1>6 DEF SemOK

\* A wait gives up.
LEMMA OkGiveUp ==
    ASSUME CardinalityFacts, NEW W, IsFiniteSet(W), NEW s, SemOK(W, s), NEW c, c \in s.waiting,
           NEW t,
           t = SemGiveUp(s, c)
    PROVE  SemOK(W, t) /\ Units(t) = Units(s) /\ t.waiting = s.waiting \ {c}
<1>1. /\ s.cnt \in Int /\ s.owed \in Nat /\ s.ghosts \in Nat /\ IsFiniteSet(s.waiting)
      /\ Cardinality(s.waiting) \in Nat
    BY Zenon, SemFields
<1>2. s \in SemType(W) /\ Balanced(s)
    BY Zenon DEF SemOK
<1>3. t \in SemType(W) /\ Units(t) = Units(s)
    BY Zenon, <1>2, UnitsGiveUp
<1>4. t.cnt = s.cnt /\ t.owed = s.owed /\ t.ghosts = s.ghosts + 1 /\ t.waiting = s.waiting \ {c}
    BY Zenon, <1>2 DEF SemGiveUp, SemType
<1>5. Cardinality(t.waiting) = Cardinality(s.waiting) - 1
    BY Zenon, <1>1, <1>4, CardRemove
<1>6. Balanced(t)
    BY <1>1, <1>2, <1>4, <1>5 DEF Balanced
<1>. QED BY Zenon, <1>3, <1>4, <1>6 DEF SemOK

\* post.
LEMMA OkPost ==
    ASSUME CardinalityFacts, NEW W, IsFiniteSet(W), NEW s, SemOK(W, s), NEW t, t = SemPost(s)
    PROVE  SemOK(W, t) /\ Units(t) = Units(s) + 1 /\ t.waiting = s.waiting
<1>1. /\ s.cnt \in Int /\ s.owed \in Nat /\ s.ghosts \in Nat /\ IsFiniteSet(s.waiting)
      /\ Cardinality(s.waiting) \in Nat
    BY Zenon, SemFields
<1>2. s \in SemType(W) /\ Balanced(s)
    BY Zenon DEF SemOK
<1>3. t \in SemType(W) /\ Units(t) = Units(s) + 1
    BY Zenon, <1>2, UnitsPost
<1>4. /\ t.cnt = s.cnt + 1 /\ t.owed = (IF s.cnt < 0 THEN s.owed + 1 ELSE s.owed)
      /\ t.ghosts = s.ghosts /\ t.waiting = s.waiting
    BY Zenon, <1>2 DEF SemPost, SemType
<1>5. Cardinality(t.waiting) = Cardinality(s.waiting)
    BY Zenon, <1>4
<1>6. Balanced(t)
    BY <1>1, <1>2, <1>4, <1>5 DEF Balanced
<1>. QED BY Zenon, <1>3, <1>4, <1>6 DEF SemOK

\* A unit is posted again.
LEMMA OkRepost ==
    ASSUME CardinalityFacts, NEW W, IsFiniteSet(W), NEW s, SemOK(W, s), s.ghosts > 0, s.owed > 0,
           NEW t,
           t = SemRepost(s)
    PROVE  SemOK(W, t) /\ Units(t) = Units(s) /\ t.waiting = s.waiting
<1>1. /\ s.cnt \in Int /\ s.owed \in Nat /\ s.ghosts \in Nat /\ IsFiniteSet(s.waiting)
      /\ Cardinality(s.waiting) \in Nat
    BY Zenon, SemFields
<1>2. s \in SemType(W) /\ Balanced(s)
    BY Zenon DEF SemOK
<1>3. t \in SemType(W) /\ Units(t) = Units(s)
    BY Zenon, <1>2, UnitsRepost
<1>4. /\ t.cnt = s.cnt + 1 /\ t.owed = (IF s.cnt < 0 THEN s.owed ELSE s.owed - 1)
      /\ t.ghosts = s.ghosts - 1 /\ t.waiting = s.waiting
    BY Zenon, <1>2 DEF SemRepost, SemType
<1>5. Cardinality(t.waiting) = Cardinality(s.waiting)
    BY Zenon, <1>4
<1>6. Balanced(t)
    BY <1>1, <1>2, <1>4, <1>5 DEF Balanced
<1>. QED BY Zenon, <1>3, <1>4, <1>6 DEF SemOK

\* What the operations do to wake_recv.
LEMMA WakeRecvOps ==
    ASSUME CardinalityFacts, IsFiniteSet(Receivers), SemOK(Receivers, wake_recv)
    PROVE  /\ WakeRecv!TryWait => /\ SemOK(Receivers, wake_recv')
                                  /\ Units(wake_recv') = Units(wake_recv) - 1
                                /\ wake_recv'.waiting = wake_recv.waiting
           /\ WakeRecv!Post => /\ SemOK(Receivers, wake_recv')
                               /\ Units(wake_recv') = Units(wake_recv) + 1
                             /\ wake_recv'.waiting = wake_recv.waiting
           /\ WakeRecv!Repost => /\ SemOK(Receivers, wake_recv')
                                 /\ Units(wake_recv') = Units(wake_recv)
                               /\ wake_recv'.waiting = wake_recv.waiting
           /\ \A c \in Receivers :
                 /\ WakeRecv!Register(c) => /\ SemOK(Receivers, wake_recv')
                                            /\ Units(wake_recv') = Units(wake_recv)
                                          /\ wake_recv'.waiting = wake_recv.waiting \cup {c}
                 /\ WakeRecv!Return(c) => /\ SemOK(Receivers, wake_recv')
                                          /\ Units(wake_recv') = Units(wake_recv) - 1
                                        /\ wake_recv'.waiting = wake_recv.waiting \ {c}
                 /\ WakeRecv!GiveUp(c) => /\ SemOK(Receivers, wake_recv')
                                          /\ Units(wake_recv') = Units(wake_recv)
                                        /\ wake_recv'.waiting = wake_recv.waiting \ {c}
<1>1. ASSUME WakeRecv!TryWait
      PROVE  /\ SemOK(Receivers, wake_recv') /\ Units(wake_recv') = Units(wake_recv) - 1
             /\ wake_recv'.waiting = wake_recv.waiting
  <2>1. wake_recv.cnt > 0 /\ wake_recv' = SemTryWait(wake_recv)
      BY Zenon, <1>1 DEF WakeRecv!TryWait, SemTryWait
  <2>. QED BY Zenon, <2>1, OkTryWait
<1>2. ASSUME WakeRecv!Post
      PROVE  /\ SemOK(Receivers, wake_recv') /\ Units(wake_recv') = Units(wake_recv) + 1
             /\ wake_recv'.waiting = wake_recv.waiting
  <2>1. wake_recv' = SemPost(wake_recv)
      BY Zenon, <1>2 DEF WakeRecv!Post, SemPost
  <2>. QED BY Zenon, <2>1, OkPost
<1>3. ASSUME WakeRecv!Repost
      PROVE  /\ SemOK(Receivers, wake_recv') /\ Units(wake_recv') = Units(wake_recv)
             /\ wake_recv'.waiting = wake_recv.waiting
  <2>1. wake_recv.ghosts > 0 /\ wake_recv.owed > 0 /\ wake_recv' = SemRepost(wake_recv)
      BY Zenon, <1>3 DEF WakeRecv!Repost, SemRepost
  <2>. QED BY Zenon, <2>1, OkRepost
<1>4. ASSUME NEW c \in Receivers, WakeRecv!Register(c)
      PROVE  /\ SemOK(Receivers, wake_recv') /\ Units(wake_recv') = Units(wake_recv)
             /\ wake_recv'.waiting = wake_recv.waiting \cup {c}
  <2>1. c \notin wake_recv.waiting /\ wake_recv' = SemRegister(wake_recv, c)
      BY Zenon, <1>4 DEF WakeRecv!Register, SemRegister
  <2>. QED BY <2>1, OkRegister
<1>5. ASSUME NEW c \in Receivers, WakeRecv!Return(c)
      PROVE  /\ SemOK(Receivers, wake_recv') /\ Units(wake_recv') = Units(wake_recv) - 1
             /\ wake_recv'.waiting = wake_recv.waiting \ {c}
  <2>1. c \in wake_recv.waiting /\ wake_recv.owed > 0 /\ wake_recv' = SemReturn(wake_recv, c)
      BY Zenon, <1>5 DEF WakeRecv!Return, SemReturn
  <2>. QED BY <2>1, OkReturn
<1>6. ASSUME NEW c \in Receivers, WakeRecv!GiveUp(c)
      PROVE  /\ SemOK(Receivers, wake_recv') /\ Units(wake_recv') = Units(wake_recv)
             /\ wake_recv'.waiting = wake_recv.waiting \ {c}
  <2>1. c \in wake_recv.waiting /\ wake_recv' = SemGiveUp(wake_recv, c)
      BY Zenon, <1>6 DEF WakeRecv!GiveUp, SemGiveUp
  <2>. QED BY <2>1, OkGiveUp
<1>. QED BY Zenon, <1>1, <1>2, <1>3, <1>4, <1>5, <1>6

\* What the operations do to wake_sender.
LEMMA WakeSenderOps ==
    ASSUME CardinalityFacts, IsFiniteSet(Senders), SemOK(Senders, wake_sender)
    PROVE  /\ WakeSender!TryWait => /\ SemOK(Senders, wake_sender')
                                    /\ Units(wake_sender') = Units(wake_sender) - 1
                                /\ wake_sender'.waiting = wake_sender.waiting
           /\ WakeSender!Post => /\ SemOK(Senders, wake_sender')
                                 /\ Units(wake_sender') = Units(wake_sender) + 1
                             /\ wake_sender'.waiting = wake_sender.waiting
           /\ WakeSender!Repost => /\ SemOK(Senders, wake_sender')
                                   /\ Units(wake_sender') = Units(wake_sender)
                               /\ wake_sender'.waiting = wake_sender.waiting
           /\ \A c \in Senders :
                 /\ WakeSender!Register(c) => /\ SemOK(Senders, wake_sender')
                                              /\ Units(wake_sender') = Units(wake_sender)
                                          /\ wake_sender'.waiting = wake_sender.waiting \cup {c}
                 /\ WakeSender!Return(c) => /\ SemOK(Senders, wake_sender')
                                            /\ Units(wake_sender') = Units(wake_sender) - 1
                                        /\ wake_sender'.waiting = wake_sender.waiting \ {c}
                 /\ WakeSender!GiveUp(c) => /\ SemOK(Senders, wake_sender')
                                            /\ Units(wake_sender') = Units(wake_sender)
                                        /\ wake_sender'.waiting = wake_sender.waiting \ {c}
<1>1. ASSUME WakeSender!TryWait
      PROVE  /\ SemOK(Senders, wake_sender') /\ Units(wake_sender') = Units(wake_sender) - 1
             /\ wake_sender'.waiting = wake_sender.waiting
  <2>1. wake_sender.cnt > 0 /\ wake_sender' = SemTryWait(wake_sender)
      BY Zenon, <1>1 DEF WakeSender!TryWait, SemTryWait
  <2>. QED BY Zenon, <2>1, OkTryWait
<1>2. ASSUME WakeSender!Post
      PROVE  /\ SemOK(Senders, wake_sender') /\ Units(wake_sender') = Units(wake_sender) + 1
             /\ wake_sender'.waiting = wake_sender.waiting
  <2>1. wake_sender' = SemPost(wake_sender)
      BY Zenon, <1>2 DEF WakeSender!Post, SemPost
  <2>. QED BY Zenon, <2>1, OkPost
<1>3. ASSUME WakeSender!Repost
      PROVE  /\ SemOK(Senders, wake_sender') /\ Units(wake_sender') = Units(wake_sender)
             /\ wake_sender'.waiting = wake_sender.waiting
  <2>1. wake_sender.ghosts > 0 /\ wake_sender.owed > 0 /\ wake_sender' = SemRepost(wake_sender)
      BY Zenon, <1>3 DEF WakeSender!Repost, SemRepost
  <2>. QED BY Zenon, <2>1, OkRepost
<1>4. ASSUME NEW c \in Senders, WakeSender!Register(c)
      PROVE  /\ SemOK(Senders, wake_sender') /\ Units(wake_sender') = Units(wake_sender)
             /\ wake_sender'.waiting = wake_sender.waiting \cup {c}
  <2>1. c \notin wake_sender.waiting /\ wake_sender' = SemRegister(wake_sender, c)
      BY Zenon, <1>4 DEF WakeSender!Register, SemRegister
  <2>. QED BY <2>1, OkRegister
<1>5. ASSUME NEW c \in Senders, WakeSender!Return(c)
      PROVE  /\ SemOK(Senders, wake_sender') /\ Units(wake_sender') = Units(wake_sender) - 1
             /\ wake_sender'.waiting = wake_sender.waiting \ {c}
  <2>1. /\ c \in wake_sender.waiting /\ wake_sender.owed > 0
        /\ wake_sender' = SemReturn(wake_sender, c)
      BY Zenon, <1>5 DEF WakeSender!Return, SemReturn
  <2>. QED BY ZenonT(40), <2>1, OkReturn
<1>6. ASSUME NEW c \in Senders, WakeSender!GiveUp(c)
      PROVE  /\ SemOK(Senders, wake_sender') /\ Units(wake_sender') = Units(wake_sender)
             /\ wake_sender'.waiting = wake_sender.waiting \ {c}
  <2>1. c \in wake_sender.waiting /\ wake_sender' = SemGiveUp(wake_sender, c)
      BY Zenon, <1>6 DEF WakeSender!GiveUp, SemGiveUp
  <2>. QED BY ZenonT(40), <2>1, OkGiveUp
<1>. QED BY Zenon, <1>1, <1>2, <1>3, <1>4, <1>5, <1>6

-----------------------------------------------------------------------------
(* The inductive invariant.                                                *)

SenderLabels ==
    Resting \cup {"check", "wait", "register", "parked", "push", "post", "drop_check", "drop_post"}
ReceiverLabels ==
    Resting \cup {"wait", "register", "parked", "load_senders", "pop", "wake",
                  "found_none", "clear"}

\* Handles that are not dropped.
SendersLeft == SenderLabels \ {"unborn", "gone", "drop_check", "drop_post"}
ReceiversLeft == ReceiverLabels \ {"unborn", "gone", "clear"}

At(S, L) == {h \in S : pc[h] \in L}

NSenders == Cardinality(At(Senders, SendersLeft))
NReceivers == Cardinality(At(Receivers, ReceiversLeft))
NPost == Cardinality(At(Senders, {"post"}))
NPush == Cardinality(At(Senders, {"push"}))
NTry == Cardinality(At(Senders, {"check", "push"}))
NPop == Cardinality(At(Receivers, {"pop"}))
NWake == Cardinality(At(Receivers, {"wake"}))

ChannelType ==
    /\ len \in Nat
    /\ SemOK(Receivers, wake_recv) /\ SemOK(Senders, wake_sender)
    /\ pc \in [Handles -> Labels]
    /\ calls \in 0 .. MaxCalls

\* Every handle runs the calls of its side, and a semaphore knows who is parked.
RoleInv ==
    /\ \A h \in Senders : pc[h] \in SenderLabels
    /\ \A h \in Receivers : pc[h] \in ReceiverLabels
    /\ wake_sender.waiting = Parked(Senders)
    /\ wake_recv.waiting = Parked(Receivers)

\* The counts of handles, and what only happens when one of them is zero.
NumInv ==
    /\ sender_num = NSenders /\ receiver_num = NReceivers
    /\ \A h \in Senders : pc[h] \in {"drop_check", "drop_post"} => sender_num = 0
    /\ \A h \in Receivers : /\ pc[h] = "found_none" => sender_num = 0
                            /\ pc[h] = "clear" => receiver_num = 0

\* Units of wake_recv, and those in the hands of receivers or yet to be posted,
\* that have no message: none while there is a sender.
Slack == Units(wake_recv) + NPop + NPost - len
UnitInv == receiver_num > 0 => Slack >= 0 /\ (sender_num > 0 => Slack = 0)

\* A sender that has seen room and not yet used it has seen it alone or with the
\* other senders.
LimitInv == len + NPush <= BufferLimit + Cardinality(Senders) - 1

\* While a sender waits, the places that are free are known to somebody: there is a
\* unit, a receiver is about to post one, or another sender looks at the length.
Room == len + Units(wake_sender) + NWake + NTry
WaitingSenders == At(Senders, {"wait", "register", "parked"})
RoomInv == receiver_num > 0 /\ WaitingSenders # {} => Room >= BufferLimit

Inv == ChannelType /\ RoleInv /\ NumInv /\ UnitInv /\ LimitInv /\ RoomInv

-----------------------------------------------------------------------------
(* One handle moves.                                                       *)

\* How many of S are at L.
LEMMA AtMove ==
    ASSUME CardinalityFacts, NEW S, IsFiniteSet(S), NEW L, pc \in [Handles -> Labels],
           S \subseteq Handles,
           NEW h \in Handles, NEW l, pc' = [pc EXCEPT ![h] = l]
    PROVE  /\ Cardinality(At(S, L)) \in Nat /\ Cardinality(At(S, L)') \in Nat
           /\ Cardinality(At(S, L)') = Cardinality(At(S, L)) + One(h \in S /\ l \in L)
                                                           - One(h \in S /\ pc[h] \in L)
<1>1. pc'[h] = l /\ \A g \in Handles : g # h => pc'[g] = pc[g]
    BY Zenon
<1>2. IsFiniteSet(At(S, L))
    BY Zenon, CardSubset DEF At
<1>3. \A g : g # h => (g \in At(S, L)' <=> g \in At(S, L))
    BY Zenon, <1>1 DEF At
<1>4. /\ Cardinality(At(S, L)) \in Nat /\ Cardinality(At(S, L)') \in Nat
      /\ Cardinality(At(S, L)') = Cardinality(At(S, L)) + One(h \in At(S, L)') - One(h \in At(S, L))
    BY Zenon, <1>2, <1>3, CountOne
<1>5. /\ h \in At(S, L)' <=> h \in S /\ l \in L
      /\ h \in At(S, L) <=> h \in S /\ pc[h] \in L
    BY Zenon, <1>1 DEF At
<1>. QED BY Zenon, <1>4, <1>5 DEF One

\* All the counts of the invariant, when a sender moves.
LEMMA SenderMoves ==
    ASSUME CardinalityFacts, ChannelConstants, pc \in [Handles -> Labels], NEW h \in Senders, NEW l,
           pc' = [pc EXCEPT ![h] = l]
    PROVE  /\ NSenders \in Nat /\ NSenders' \in Nat
           /\ NSenders' = NSenders + One(l \in SendersLeft) - One(pc[h] \in SendersLeft)
           /\ NReceivers \in Nat /\ NReceivers' = NReceivers
           /\ NPost \in Nat /\ NPost' \in Nat
           /\ NPost' = NPost + One(l \in {"post"}) - One(pc[h] \in {"post"})
           /\ NPush \in Nat /\ NPush' \in Nat
           /\ NPush' = NPush + One(l \in {"push"}) - One(pc[h] \in {"push"})
           /\ NTry \in Nat /\ NTry' \in Nat
           /\ NTry' = NTry + One(l \in {"check", "push"}) - One(pc[h] \in {"check", "push"})
           /\ NPop \in Nat /\ NPop' = NPop
           /\ NWake \in Nat /\ NWake' = NWake
<1>1. /\ IsFiniteSet(Senders) /\ IsFiniteSet(Receivers) /\ Senders \subseteq Handles
      /\ Receivers \subseteq Handles /\ h \in Handles /\ h \notin Receivers
    BY Zenon DEF ChannelConstants, Handles
<1>2. /\ NSenders \in Nat /\ NSenders' \in Nat
      /\ NSenders' = NSenders + One(l \in SendersLeft) - One(pc[h] \in SendersLeft)
  <2>1. PICK L : L = SendersLeft
      BY Zenon
  <2>2. NSenders = Cardinality(At(Senders, L)) /\ NSenders' = Cardinality(At(Senders, L)')
      BY Zenon, <2>1 DEF NSenders
  <2>3. /\ Cardinality(At(Senders, L)) \in Nat /\ Cardinality(At(Senders, L)') \in Nat
        /\ Cardinality(At(Senders, L)') =
             Cardinality(At(Senders, L)) + One(h \in Senders /\ l \in L)
                                              - One(h \in Senders /\ pc[h] \in L)
      BY Zenon, <1>1, AtMove
  <2>4. (h \in Senders /\ l \in L <=> l \in L) /\ (h \in Senders /\ pc[h] \in L <=> pc[h] \in L)
      BY Zenon
  <2>5. /\ One(h \in Senders /\ l \in L) = One(l \in L)
        /\ One(h \in Senders /\ pc[h] \in L) = One(pc[h] \in L)
      BY Zenon, <2>4 DEF One
  <2>. QED BY Zenon, <2>1, <2>2, <2>3, <2>5
<1>3. NReceivers \in Nat /\ NReceivers' = NReceivers
  <2>1. \A g \in Receivers : pc'[g] = pc[g]
      BY Zenon, <1>1
  <2>2. /\ At(Receivers, ReceiversLeft)' = At(Receivers, ReceiversLeft)
        /\ IsFiniteSet(At(Receivers, ReceiversLeft))
      BY Zenon, <1>1, <2>1, CardSubset DEF At, ReceiversLeft
  <2>. QED BY Zenon, <2>2, CardType DEF NReceivers
<1>4. /\ NPost \in Nat /\ NPost' \in Nat
      /\ NPost' = NPost + One(l \in {"post"}) - One(pc[h] \in {"post"})
  <2>1. PICK L : L = {"post"}
      BY Zenon
  <2>2. NPost = Cardinality(At(Senders, L)) /\ NPost' = Cardinality(At(Senders, L)')
      BY Zenon, <2>1 DEF NPost
  <2>3. /\ Cardinality(At(Senders, L)) \in Nat /\ Cardinality(At(Senders, L)') \in Nat
        /\ Cardinality(At(Senders, L)') =
             Cardinality(At(Senders, L)) + One(h \in Senders /\ l \in L)
                                              - One(h \in Senders /\ pc[h] \in L)
      BY Zenon, <1>1, AtMove
  <2>4. (h \in Senders /\ l \in L <=> l \in L) /\ (h \in Senders /\ pc[h] \in L <=> pc[h] \in L)
      BY Zenon
  <2>5. /\ One(h \in Senders /\ l \in L) = One(l \in L)
        /\ One(h \in Senders /\ pc[h] \in L) = One(pc[h] \in L)
      BY Zenon, <2>4 DEF One
  <2>. QED BY Zenon, <2>1, <2>2, <2>3, <2>5
<1>5. /\ NPush \in Nat /\ NPush' \in Nat
      /\ NPush' = NPush + One(l \in {"push"}) - One(pc[h] \in {"push"})
  <2>1. PICK L : L = {"push"}
      BY Zenon
  <2>2. NPush = Cardinality(At(Senders, L)) /\ NPush' = Cardinality(At(Senders, L)')
      BY Zenon, <2>1 DEF NPush
  <2>3. /\ Cardinality(At(Senders, L)) \in Nat /\ Cardinality(At(Senders, L)') \in Nat
        /\ Cardinality(At(Senders, L)') =
             Cardinality(At(Senders, L)) + One(h \in Senders /\ l \in L)
                                              - One(h \in Senders /\ pc[h] \in L)
      BY Zenon, <1>1, AtMove
  <2>4. (h \in Senders /\ l \in L <=> l \in L) /\ (h \in Senders /\ pc[h] \in L <=> pc[h] \in L)
      BY Zenon
  <2>5. /\ One(h \in Senders /\ l \in L) = One(l \in L)
        /\ One(h \in Senders /\ pc[h] \in L) = One(pc[h] \in L)
      BY Zenon, <2>4 DEF One
  <2>. QED BY Zenon, <2>1, <2>2, <2>3, <2>5
<1>6. /\ NTry \in Nat /\ NTry' \in Nat
      /\ NTry' = NTry + One(l \in {"check", "push"}) - One(pc[h] \in {"check", "push"})
  <2>1. PICK L : L = {"check", "push"}
      BY Zenon
  <2>2. NTry = Cardinality(At(Senders, L)) /\ NTry' = Cardinality(At(Senders, L)')
      BY Zenon, <2>1 DEF NTry
  <2>3. /\ Cardinality(At(Senders, L)) \in Nat /\ Cardinality(At(Senders, L)') \in Nat
        /\ Cardinality(At(Senders, L)') =
             Cardinality(At(Senders, L)) + One(h \in Senders /\ l \in L)
                                              - One(h \in Senders /\ pc[h] \in L)
      BY Zenon, <1>1, AtMove
  <2>4. (h \in Senders /\ l \in L <=> l \in L) /\ (h \in Senders /\ pc[h] \in L <=> pc[h] \in L)
      BY Zenon
  <2>5. /\ One(h \in Senders /\ l \in L) = One(l \in L)
        /\ One(h \in Senders /\ pc[h] \in L) = One(pc[h] \in L)
      BY Zenon, <2>4 DEF One
  <2>. QED BY Zenon, <2>1, <2>2, <2>3, <2>5
<1>7. NPop \in Nat /\ NPop' = NPop
  <2>1. \A g \in Receivers : pc'[g] = pc[g]
      BY Zenon, <1>1
  <2>2. At(Receivers, {"pop"})' = At(Receivers, {"pop"}) /\ IsFiniteSet(At(Receivers, {"pop"}))
      BY Zenon, <1>1, <2>1, CardSubset DEF At
  <2>. QED BY Zenon, <2>2, CardType DEF NPop
<1>8. NWake \in Nat /\ NWake' = NWake
  <2>1. \A g \in Receivers : pc'[g] = pc[g]
      BY Zenon, <1>1
  <2>2. At(Receivers, {"wake"})' = At(Receivers, {"wake"}) /\ IsFiniteSet(At(Receivers, {"wake"}))
      BY Zenon, <1>1, <2>1, CardSubset DEF At
  <2>. QED BY Zenon, <2>2, CardType DEF NWake
<1>. QED BY Zenon, <1>2, <1>3, <1>4, <1>5, <1>6, <1>7, <1>8

\* All the counts of the invariant, when a receiver moves.
LEMMA ReceiverMoves ==
    ASSUME CardinalityFacts, ChannelConstants, pc \in [Handles -> Labels], NEW h \in Receivers,
           NEW l,
           pc' = [pc EXCEPT ![h] = l]
    PROVE  /\ NSenders \in Nat /\ NSenders' = NSenders
           /\ NReceivers \in Nat /\ NReceivers' \in Nat
           /\ NReceivers' = NReceivers + One(l \in ReceiversLeft) - One(pc[h] \in ReceiversLeft)
           /\ NPost \in Nat /\ NPost' = NPost
           /\ NPush \in Nat /\ NPush' = NPush
           /\ NTry \in Nat /\ NTry' = NTry
           /\ NPop \in Nat /\ NPop' \in Nat
           /\ NPop' = NPop + One(l \in {"pop"}) - One(pc[h] \in {"pop"})
           /\ NWake \in Nat /\ NWake' \in Nat
           /\ NWake' = NWake + One(l \in {"wake"}) - One(pc[h] \in {"wake"})
<1>1. /\ IsFiniteSet(Senders) /\ IsFiniteSet(Receivers) /\ Senders \subseteq Handles
      /\ Receivers \subseteq Handles /\ h \in Handles /\ h \notin Senders
    BY Zenon DEF ChannelConstants, Handles
<1>2. NSenders \in Nat /\ NSenders' = NSenders
  <2>1. \A g \in Senders : pc'[g] = pc[g]
      BY Zenon, <1>1
  <2>2. /\ At(Senders, SendersLeft)' = At(Senders, SendersLeft)
        /\ IsFiniteSet(At(Senders, SendersLeft))
      BY Zenon, <1>1, <2>1, CardSubset DEF At, SendersLeft
  <2>. QED BY Zenon, <2>2, CardType DEF NSenders
<1>3. /\ NReceivers \in Nat /\ NReceivers' \in Nat
      /\ NReceivers' = NReceivers + One(l \in ReceiversLeft) - One(pc[h] \in ReceiversLeft)
  <2>1. PICK L : L = ReceiversLeft
      BY Zenon
  <2>2. NReceivers = Cardinality(At(Receivers, L)) /\ NReceivers' = Cardinality(At(Receivers, L)')
      BY Zenon, <2>1 DEF NReceivers
  <2>3. /\ Cardinality(At(Receivers, L)) \in Nat /\ Cardinality(At(Receivers, L)') \in Nat
        /\ Cardinality(At(Receivers, L)') =
             Cardinality(At(Receivers, L)) + One(h \in Receivers /\ l \in L)
                                              - One(h \in Receivers /\ pc[h] \in L)
      BY Zenon, <1>1, AtMove
  <2>4. (h \in Receivers /\ l \in L <=> l \in L) /\ (h \in Receivers /\ pc[h] \in L <=> pc[h] \in L)
      BY Zenon
  <2>5. /\ One(h \in Receivers /\ l \in L) = One(l \in L)
        /\ One(h \in Receivers /\ pc[h] \in L) = One(pc[h] \in L)
      BY Zenon, <2>4 DEF One
  <2>. QED BY Zenon, <2>1, <2>2, <2>3, <2>5
<1>4. NPost \in Nat /\ NPost' = NPost
  <2>1. \A g \in Senders : pc'[g] = pc[g]
      BY Zenon, <1>1
  <2>2. At(Senders, {"post"})' = At(Senders, {"post"}) /\ IsFiniteSet(At(Senders, {"post"}))
      BY Zenon, <1>1, <2>1, CardSubset DEF At
  <2>. QED BY Zenon, <2>2, CardType DEF NPost
<1>5. NPush \in Nat /\ NPush' = NPush
  <2>1. \A g \in Senders : pc'[g] = pc[g]
      BY Zenon, <1>1
  <2>2. At(Senders, {"push"})' = At(Senders, {"push"}) /\ IsFiniteSet(At(Senders, {"push"}))
      BY Zenon, <1>1, <2>1, CardSubset DEF At
  <2>. QED BY Zenon, <2>2, CardType DEF NPush
<1>6. NTry \in Nat /\ NTry' = NTry
  <2>1. \A g \in Senders : pc'[g] = pc[g]
      BY Zenon, <1>1
  <2>2. /\ At(Senders, {"check", "push"})' = At(Senders, {"check", "push"})
        /\ IsFiniteSet(At(Senders, {"check", "push"}))
      BY Zenon, <1>1, <2>1, CardSubset DEF At
  <2>. QED BY Zenon, <2>2, CardType DEF NTry
<1>7. NPop \in Nat /\ NPop' \in Nat /\ NPop' = NPop + One(l \in {"pop"}) - One(pc[h] \in {"pop"})
  <2>1. PICK L : L = {"pop"}
      BY Zenon
  <2>2. NPop = Cardinality(At(Receivers, L)) /\ NPop' = Cardinality(At(Receivers, L)')
      BY Zenon, <2>1 DEF NPop
  <2>3. /\ Cardinality(At(Receivers, L)) \in Nat /\ Cardinality(At(Receivers, L)') \in Nat
        /\ Cardinality(At(Receivers, L)') =
             Cardinality(At(Receivers, L)) + One(h \in Receivers /\ l \in L)
                                              - One(h \in Receivers /\ pc[h] \in L)
      BY Zenon, <1>1, AtMove
  <2>4. (h \in Receivers /\ l \in L <=> l \in L) /\ (h \in Receivers /\ pc[h] \in L <=> pc[h] \in L)
      BY Zenon
  <2>5. /\ One(h \in Receivers /\ l \in L) = One(l \in L)
        /\ One(h \in Receivers /\ pc[h] \in L) = One(pc[h] \in L)
      BY Zenon, <2>4 DEF One
  <2>. QED BY Zenon, <2>1, <2>2, <2>3, <2>5
<1>8. /\ NWake \in Nat /\ NWake' \in Nat
      /\ NWake' = NWake + One(l \in {"wake"}) - One(pc[h] \in {"wake"})
  <2>1. PICK L : L = {"wake"}
      BY Zenon
  <2>2. NWake = Cardinality(At(Receivers, L)) /\ NWake' = Cardinality(At(Receivers, L)')
      BY Zenon, <2>1 DEF NWake
  <2>3. /\ Cardinality(At(Receivers, L)) \in Nat /\ Cardinality(At(Receivers, L)') \in Nat
        /\ Cardinality(At(Receivers, L)') =
             Cardinality(At(Receivers, L)) + One(h \in Receivers /\ l \in L)
                                              - One(h \in Receivers /\ pc[h] \in L)
      BY Zenon, <1>1, AtMove
  <2>4. (h \in Receivers /\ l \in L <=> l \in L) /\ (h \in Receivers /\ pc[h] \in L <=> pc[h] \in L)
      BY Zenon
  <2>5. /\ One(h \in Receivers /\ l \in L) = One(l \in L)
        /\ One(h \in Receivers /\ pc[h] \in L) = One(pc[h] \in L)
      BY Zenon, <2>4 DEF One
  <2>. QED BY Zenon, <2>1, <2>2, <2>3, <2>5
<1>. QED BY Zenon, <1>2, <1>3, <1>4, <1>5, <1>6, <1>7, <1>8

\* Either way, they stay counts.
LEMMA Counts ==
    ASSUME CardinalityFacts, ChannelConstants, pc \in [Handles -> Labels], NEW h \in Handles, NEW l,
           pc' = [pc EXCEPT ![h] = l]
    PROVE  /\ NSenders \in Nat /\ NSenders' \in Nat
           /\ NReceivers \in Nat /\ NReceivers' \in Nat
           /\ NPost \in Nat /\ NPost' \in Nat
           /\ NPush \in Nat /\ NPush' \in Nat
           /\ NTry \in Nat /\ NTry' \in Nat
           /\ NPop \in Nat /\ NPop' \in Nat
           /\ NWake \in Nat /\ NWake' \in Nat
<1>1. CASE h \in Senders
    BY Zenon, <1>1, SenderMoves
<1>2. CASE h \in Receivers
    BY Zenon, <1>2, ReceiverMoves
<1>. QED BY Zenon, <1>1, <1>2 DEF Handles

\* A handle that is not dropped is counted.
LEMMA Counted ==
    ASSUME CardinalityFacts, ChannelConstants, NumInv
    PROVE  /\ sender_num \in Nat /\ receiver_num \in Nat
           /\ \A h \in Senders : pc[h] \in SendersLeft => sender_num > 0
           /\ \A h \in Receivers : pc[h] \in ReceiversLeft => receiver_num > 0
<1>1. /\ IsFiniteSet(At(Senders, SendersLeft)) /\ IsFiniteSet(At(Receivers, ReceiversLeft))
    BY Zenon, CardSubset DEF At, ChannelConstants
<1>2. sender_num \in Nat /\ receiver_num \in Nat
    BY Zenon, <1>1, CardType DEF NumInv, NSenders, NReceivers
<1>3. ASSUME NEW h \in Senders, pc[h] \in SendersLeft PROVE sender_num # 0
  <2>1. h \in At(Senders, SendersLeft)
      BY Zenon, <1>3 DEF At
  <2>. QED BY Zenon, <1>1, <2>1, CardEmpty DEF NumInv, NSenders
<1>4. ASSUME NEW h \in Receivers, pc[h] \in ReceiversLeft PROVE receiver_num # 0
  <2>1. h \in At(Receivers, ReceiversLeft)
      BY Zenon, <1>4 DEF At
  <2>. QED BY Zenon, <1>1, <2>1, CardEmpty DEF NumInv, NReceivers
<1>. QED BY <1>2, <1>3, <1>4

\* A step of one handle keeps the invariant if it does what the counts expect.
LEMMA HandleStep ==
    ASSUME CardinalityFacts, ChannelConstants, Inv, NEW h \in Handles, NEW l, pc' =
        [pc EXCEPT ![h] = l],
           h \in Senders => l \in SenderLabels, h \in Receivers => l \in ReceiverLabels,
           len' \in Nat, calls' \in 0 .. MaxCalls,
           SemOK(Receivers, wake_recv'), SemOK(Senders, wake_sender'),
           wake_sender'.waiting = IF h \in Senders /\ l = "parked" THEN wake_sender.waiting \cup {h}
                                                                 ELSE wake_sender.waiting \ {h},
           wake_recv'.waiting = IF h \in Receivers /\ l = "parked" THEN wake_recv.waiting \cup {h}
                                                                 ELSE wake_recv.waiting \ {h},
           sender_num' = NSenders', receiver_num' = NReceivers',
           sender_num = 0 => sender_num' = 0, receiver_num = 0 => receiver_num' = 0,
           l \in {"drop_check", "drop_post", "found_none"} => sender_num' = 0,
           l = "clear" => receiver_num' = 0,
           \/ Slack' = Slack
           \/ receiver_num' = 0
           \/ sender_num' = 0 /\ (len' = 0 \/ Slack' = Slack + 1),
           \/ len' + NPush' <= len + NPush
           \/ len' + NPush' = len + NPush + 1 /\ len' < BufferLimit,
           receiver_num' = 0 \/ Room' >= Room \/ len' >= BufferLimit,
           h \in Senders /\ l \in {"wait", "register", "parked"} =>
               pc[h] \in {"wait", "register", "parked"} \/ len' >= BufferLimit
    PROVE  Inv'
<1>. USE DEF Inv
<1>0. /\ Senders \subseteq Handles /\ Receivers \subseteq Handles /\ Senders \cap Receivers = {}
      /\ BufferLimit \in Nat /\ IsFiniteSet(Senders) /\ IsFiniteSet(Receivers)
      /\ Handles = Senders \cup Receivers
    BY Zenon DEF ChannelConstants, Handles
<1>1. pc'[h] = l /\ \A g \in Handles : g # h => pc'[g] = pc[g]
    BY Zenon DEF ChannelType
<1>2. ChannelType'
  <2>1. l \in Labels
      BY Zenon, <1>0 DEF SenderLabels, ReceiverLabels, Labels
  <2>. QED BY Zenon, <2>1 DEF ChannelType
<1>3. RoleInv'
  <2>1. /\ \A g \in Senders : pc'[g] \in SenderLabels
        /\ \A g \in Receivers : pc'[g] \in ReceiverLabels
      BY Zenon, <1>0, <1>1 DEF RoleInv
  <2>2. wake_sender'.waiting = Parked(Senders)'
    <3>1. CASE h \in Senders /\ l = "parked"
        BY <1>0, <1>1, <3>1 DEF RoleInv, Parked
    <3>2. CASE ~(h \in Senders /\ l = "parked")
        BY <1>0, <1>1, <3>2 DEF RoleInv, Parked
    <3>. QED BY Zenon, <3>1, <3>2
  <2>3. wake_recv'.waiting = Parked(Receivers)'
    <3>1. CASE h \in Receivers /\ l = "parked"
        BY <1>0, <1>1, <3>1 DEF RoleInv, Parked
    <3>2. CASE ~(h \in Receivers /\ l = "parked")
        BY <1>0, <1>1, <3>2 DEF RoleInv, Parked
    <3>. QED BY Zenon, <3>1, <3>2
  <2>. QED BY Zenon, <2>1, <2>2, <2>3 DEF RoleInv
<1>4. NumInv'
    BY Zenon, <1>0, <1>1 DEF NumInv
<1>5. /\ NPush \in Nat /\ NPush' \in Nat /\ NTry \in Nat /\ NTry' \in Nat
      /\ NPop \in Nat /\ NPop' \in Nat /\ NPost \in Nat /\ NPost' \in Nat
      /\ NWake \in Nat /\ NWake' \in Nat
    BY Zenon, Counts DEF ChannelType
<1>6. /\ Units(wake_recv) \in Nat /\ Units(wake_recv') \in Nat
      /\ Units(wake_sender) \in Nat /\ Units(wake_sender') \in Nat
    BY Zenon, <1>0, SemFields DEF ChannelType
<1>7. /\ len \in Nat /\ len' \in Nat /\ sender_num \in Nat /\ receiver_num \in Nat
    BY Zenon, Counted DEF ChannelType
<1>8. sender_num' \in Nat /\ receiver_num' \in Nat
    BY Zenon, Counts DEF ChannelType
<1>9. UnitInv'
  <2>. SUFFICES ASSUME receiver_num' > 0 PROVE Slack' >= 0 /\ (sender_num' > 0 => Slack' = 0)
      BY Zenon DEF UnitInv
  <2>1. Slack \in Int /\ Slack' \in Int /\ (len' = 0 => Slack' >= 0)
      BY <1>5, <1>6, <1>7 DEF Slack
  <2>2. receiver_num > 0 /\ (sender_num' > 0 => sender_num > 0)
      BY <1>7, <1>8
  <2>3. Slack >= 0 /\ (sender_num > 0 => Slack = 0)
      BY Zenon, <2>2 DEF UnitInv
  <2>. QED BY <1>8, <2>1, <2>2, <2>3
<1>10. LimitInv'
  <2>1. NPush' <= Cardinality(Senders) /\ Cardinality(Senders) \in Nat
      BY Zenon, <1>0, CardSubset, CardType DEF NPush, At
  <2>2. len + NPush <= BufferLimit + Cardinality(Senders) - 1
      BY Zenon DEF LimitInv
  <2>3. CASE len' + NPush' <= len + NPush
    <3>1. \A a, b, c, d, m, n \in Nat : a + b <= c + d /\ c + d <= m + n - 1 => a + b <= m + n - 1
        OBVIOUS
    <3>. QED BY ONLY Zenon, <1>0, <1>5, <1>7, <2>1, <2>2, <2>3, <3>1 DEF LimitInv
  <2>4. CASE len' < BufferLimit
      BY ONLY <1>0, <1>5, <1>7, <2>1, <2>4 DEF LimitInv
  <2>. QED BY Zenon, <2>3, <2>4
<1>11. RoomInv'
  <2>. SUFFICES ASSUME receiver_num' > 0, WaitingSenders' # {} PROVE Room' >= BufferLimit
      BY Zenon DEF RoomInv
  <2>1. Room \in Int /\ Room' \in Int /\ Room' >= len'
      BY <1>5, <1>6, <1>7 DEF Room
  <2>2. receiver_num > 0 /\ receiver_num' # 0
      BY <1>7, <1>8
  <2>3. WaitingSenders # {} \/ len' >= BufferLimit
      BY Zenon, <1>0, <1>1 DEF WaitingSenders, At
  <2>4. CASE len' >= BufferLimit
      BY <1>0, <1>7, <2>1, <2>4
  <2>5. CASE ~(len' >= BufferLimit)
    <3>1. Room >= BufferLimit /\ Room' >= Room
        BY Zenon, <2>2, <2>3, <2>5 DEF RoomInv
    <3>. QED BY <1>0, <2>1, <3>1
  <2>. QED BY Zenon, <2>4, <2>5
<1>. QED BY Zenon, <1>2, <1>3, <1>4, <1>9, <1>10, <1>11

\* What the invariant says of types and roles.
LEMMA Facts ==
    ASSUME CardinalityFacts, ChannelConstants, Inv
    PROVE  /\ IsFiniteSet(Senders) /\ IsFiniteSet(Receivers) /\ Senders \cap Receivers = {}
           /\ Handles = Senders \cup Receivers /\ BufferLimit \in Nat
           /\ len \in Nat /\ sender_num \in Nat /\ receiver_num \in Nat
           /\ SemOK(Receivers, wake_recv) /\ SemOK(Senders, wake_sender)
           /\ Units(wake_recv) \in Nat /\ Units(wake_sender) \in Nat
           /\ pc \in [Handles -> Labels] /\ calls \in 0 .. MaxCalls
           /\ \A h \in Senders : pc[h] \in SenderLabels
                /\ (h \in wake_sender.waiting <=> pc[h] = "parked")
           /\ \A h \in Receivers : pc[h] \in ReceiverLabels
                /\ (h \in wake_recv.waiting <=> pc[h] = "parked")
<1>1. /\ IsFiniteSet(Senders) /\ IsFiniteSet(Receivers) /\ Senders \cap Receivers = {}
      /\ Handles = Senders \cup Receivers /\ BufferLimit \in Nat
    BY Zenon DEF ChannelConstants, Handles
<1>2. /\ len \in Nat /\ SemOK(Receivers, wake_recv) /\ SemOK(Senders, wake_sender)
      /\ pc \in [Handles -> Labels] /\ calls \in 0 .. MaxCalls
    BY Zenon DEF Inv, ChannelType
<1>3. sender_num \in Nat /\ receiver_num \in Nat
    BY Zenon, Counted DEF Inv
<1>4. /\ \A h \in Senders : pc[h] \in SenderLabels
           /\ (h \in wake_sender.waiting <=> pc[h] = "parked")
      /\ \A h \in Receivers : pc[h] \in ReceiverLabels
           /\ (h \in wake_recv.waiting <=> pc[h] = "parked")
    BY Zenon DEF Inv, RoleInv, Parked
<1>5. Units(wake_recv) \in Nat /\ Units(wake_sender) \in Nat
    BY Zenon, <1>1, <1>2, SemFields
<1>. QED BY Zenon, <1>1, <1>2, <1>3, <1>4, <1>5

\* The part of it that a step of one handle needs.
LEMMA HandleFacts ==
    ASSUME CardinalityFacts, ChannelConstants, Inv
    PROVE  /\ len \in Nat /\ sender_num \in Nat /\ receiver_num \in Nat
           /\ calls \in 0 .. MaxCalls
BY Zenon, Facts

\* Sums of which every term changes.
LEMMA Shift ==
    \A a, b, c, d, e, f, g, m \in Int :
        /\ (a + e) + (b + f) + (c + g) - (d + m) = (a + b + c - d) + (e + f + g - m)
        /\ (a + e) + (b + f) + (c + g) + (d + m) = (a + b + c + d) + (e + f + g + m)
        /\ a + b + c - d \in Int /\ a + b + c + d \in Int
OBVIOUS

-----------------------------------------------------------------------------
(* Moves.  A handle h goes from the label k to the label l.  The buffer     *)
(* gains dl messages, wake_recv dr units and wake_sender ds units.          *)

\* What becomes of wake_recv.
RecvSem(h, l, dr) ==
    /\ SemOK(Receivers, wake_recv') /\ Units(wake_recv') = Units(wake_recv) + dr
    /\ wake_recv'.waiting = IF h \in Receivers /\ l = "parked" THEN wake_recv.waiting \cup {h}
                                                             ELSE wake_recv.waiting \ {h}

\* What becomes of wake_sender.
SendSem(h, l, ds) ==
    /\ SemOK(Senders, wake_sender') /\ Units(wake_sender') = Units(wake_sender) + ds
    /\ wake_sender'.waiting = IF h \in Senders /\ l = "parked" THEN wake_sender.waiting \cup {h}
                                                             ELSE wake_sender.waiting \ {h}

\* A step that leaves wake_recv alone, or waits, posts or gives up there.
LEMMA RecvSems ==
    ASSUME CardinalityFacts, ChannelConstants, Inv, NEW h \in Handles, NEW l
    PROVE  /\ l # "parked" /\ pc[h] # "parked" =>
                /\ wake_recv' = wake_recv => RecvSem(h, l, 0)
                /\ WakeRecv!TryWait => RecvSem(h, l, -1)
                /\ WakeRecv!Post => RecvSem(h, l, 1)
           /\ h \in Senders /\ wake_recv' = wake_recv => RecvSem(h, l, 0)
           /\ h \in Receivers /\ WakeRecv!Register(h) => RecvSem(h, "parked", 0)
           /\ h \in Receivers /\ l # "parked" =>
                /\ WakeRecv!Return(h) => RecvSem(h, l, -1)
                /\ WakeRecv!GiveUp(h) => RecvSem(h, l, 0)
<1>1. /\ SemOK(Receivers, wake_recv) /\ Units(wake_recv) \in Int /\ IsFiniteSet(Receivers)
      /\ h \in wake_recv.waiting => h \in Receivers /\ pc[h] = "parked"
      /\ h \in Senders => h \notin Receivers
    BY SemFields, Facts
<1>2. ASSUME l # "parked", pc[h] # "parked"
      PROVE  /\ wake_recv' = wake_recv => RecvSem(h, l, 0)
             /\ WakeRecv!TryWait => RecvSem(h, l, -1)
             /\ WakeRecv!Post => RecvSem(h, l, 1)
  <2>1. ASSUME wake_recv' = wake_recv PROVE RecvSem(h, l, 0)
      BY <1>1, <1>2, <2>1 DEF RecvSem
  <2>2. ASSUME WakeRecv!TryWait PROVE RecvSem(h, l, -1)
    <3>1. /\ SemOK(Receivers, wake_recv') /\ Units(wake_recv') = Units(wake_recv) - 1
          /\ wake_recv'.waiting = wake_recv.waiting
        BY Zenon, <1>1, <2>2, WakeRecvOps
    <3>. QED BY Zenon, <1>1, <1>2, <3>1 DEF RecvSem
  <2>3. ASSUME WakeRecv!Post PROVE RecvSem(h, l, 1)
    <3>1. /\ SemOK(Receivers, wake_recv') /\ Units(wake_recv') = Units(wake_recv) + 1
          /\ wake_recv'.waiting = wake_recv.waiting
        BY Zenon, <1>1, <2>3, WakeRecvOps
    <3>. QED BY Zenon, <1>1, <1>2, <3>1 DEF RecvSem
  <2>. QED BY Zenon, <2>1, <2>2, <2>3
<1>3. ASSUME h \in Senders, wake_recv' = wake_recv PROVE RecvSem(h, l, 0)
    BY <1>1, <1>3 DEF RecvSem
<1>4. ASSUME h \in Receivers, WakeRecv!Register(h) PROVE RecvSem(h, "parked", 0)
  <2>1. /\ SemOK(Receivers, wake_recv') /\ Units(wake_recv') = Units(wake_recv)
        /\ wake_recv'.waiting = wake_recv.waiting \cup {h}
      BY Zenon, <1>1, <1>4, WakeRecvOps
  <2>. QED BY <1>1, <1>4, <2>1 DEF RecvSem
<1>5. ASSUME h \in Receivers, l # "parked"
      PROVE  /\ WakeRecv!Return(h) => RecvSem(h, l, -1)
             /\ WakeRecv!GiveUp(h) => RecvSem(h, l, 0)
  <2>1. ASSUME WakeRecv!Return(h) PROVE RecvSem(h, l, -1)
    <3>1. /\ SemOK(Receivers, wake_recv') /\ Units(wake_recv') = Units(wake_recv) - 1
          /\ wake_recv'.waiting = wake_recv.waiting \ {h}
        BY Zenon, <1>1, <1>5, <2>1, WakeRecvOps
    <3>. QED BY Zenon, <1>1, <1>5, <3>1 DEF RecvSem
  <2>2. ASSUME WakeRecv!GiveUp(h) PROVE RecvSem(h, l, 0)
    <3>1. /\ SemOK(Receivers, wake_recv') /\ Units(wake_recv') = Units(wake_recv)
          /\ wake_recv'.waiting = wake_recv.waiting \ {h}
        BY Zenon, <1>1, <1>5, <2>2, WakeRecvOps
    <3>. QED BY <1>1, <1>5, <3>1 DEF RecvSem
  <2>. QED BY Zenon, <2>1, <2>2
<1>. QED BY Zenon, <1>2, <1>3, <1>4, <1>5

\* The same for wake_sender.
LEMMA SendSems ==
    ASSUME CardinalityFacts, ChannelConstants, Inv, NEW h \in Handles, NEW l
    PROVE  /\ l # "parked" /\ pc[h] # "parked" =>
                /\ wake_sender' = wake_sender => SendSem(h, l, 0)
                /\ WakeSender!TryWait => SendSem(h, l, -1)
                /\ WakeSender!Post => SendSem(h, l, 1)
           /\ h \in Receivers /\ wake_sender' = wake_sender => SendSem(h, l, 0)
           /\ h \in Senders /\ WakeSender!Register(h) => SendSem(h, "parked", 0)
           /\ h \in Senders /\ l # "parked" =>
                /\ WakeSender!Return(h) => SendSem(h, l, -1)
                /\ WakeSender!GiveUp(h) => SendSem(h, l, 0)
<1>1. /\ SemOK(Senders, wake_sender) /\ Units(wake_sender) \in Int /\ IsFiniteSet(Senders)
      /\ h \in wake_sender.waiting => h \in Senders /\ pc[h] = "parked"
      /\ h \in Receivers => h \notin Senders
    BY SemFields, Facts
<1>2. ASSUME l # "parked", pc[h] # "parked"
      PROVE  /\ wake_sender' = wake_sender => SendSem(h, l, 0)
             /\ WakeSender!TryWait => SendSem(h, l, -1)
             /\ WakeSender!Post => SendSem(h, l, 1)
  <2>1. ASSUME wake_sender' = wake_sender PROVE SendSem(h, l, 0)
      BY <1>1, <1>2, <2>1 DEF SendSem
  <2>2. ASSUME WakeSender!TryWait PROVE SendSem(h, l, -1)
    <3>1. /\ SemOK(Senders, wake_sender') /\ Units(wake_sender') = Units(wake_sender) - 1
          /\ wake_sender'.waiting = wake_sender.waiting
        BY Zenon, <1>1, <2>2, WakeSenderOps
    <3>. QED BY Zenon, <1>1, <1>2, <3>1 DEF SendSem
  <2>3. ASSUME WakeSender!Post PROVE SendSem(h, l, 1)
    <3>1. /\ SemOK(Senders, wake_sender') /\ Units(wake_sender') = Units(wake_sender) + 1
          /\ wake_sender'.waiting = wake_sender.waiting
        BY Zenon, <1>1, <2>3, WakeSenderOps
    <3>. QED BY Zenon, <1>1, <1>2, <3>1 DEF SendSem
  <2>. QED BY Zenon, <2>1, <2>2, <2>3
<1>3. ASSUME h \in Receivers, wake_sender' = wake_sender PROVE SendSem(h, l, 0)
    BY <1>1, <1>3 DEF SendSem
<1>4. ASSUME h \in Senders, WakeSender!Register(h) PROVE SendSem(h, "parked", 0)
  <2>1. /\ SemOK(Senders, wake_sender') /\ Units(wake_sender') = Units(wake_sender)
        /\ wake_sender'.waiting = wake_sender.waiting \cup {h}
      BY Zenon, <1>1, <1>4, WakeSenderOps
  <2>. QED BY <1>1, <1>4, <2>1 DEF SendSem
<1>5. ASSUME h \in Senders, l # "parked"
      PROVE  /\ WakeSender!Return(h) => SendSem(h, l, -1)
             /\ WakeSender!GiveUp(h) => SendSem(h, l, 0)
  <2>1. ASSUME WakeSender!Return(h) PROVE SendSem(h, l, -1)
    <3>1. /\ SemOK(Senders, wake_sender') /\ Units(wake_sender') = Units(wake_sender) - 1
          /\ wake_sender'.waiting = wake_sender.waiting \ {h}
        BY Zenon, <1>1, <1>5, <2>1, WakeSenderOps
    <3>. QED BY Zenon, <1>1, <1>5, <3>1 DEF SendSem
  <2>2. ASSUME WakeSender!GiveUp(h) PROVE SendSem(h, l, 0)
    <3>1. /\ SemOK(Senders, wake_sender') /\ Units(wake_sender') = Units(wake_sender)
          /\ wake_sender'.waiting = wake_sender.waiting \ {h}
        BY Zenon, <1>1, <1>5, <2>2, WakeSenderOps
    <3>. QED BY <1>1, <1>5, <3>1 DEF SendSem
  <2>. QED BY Zenon, <2>1, <2>2
<1>. QED BY Zenon, <1>2, <1>3, <1>4, <1>5

\* The sums of a move of a sender: n is added to the senders that are left, u to the
\* units of wake_recv beyond the messages, p to the messages that are or will be there
\* and r to the messages and units that keep a waiting sender from being needed.
SenderRow(k, l, dl, dr, ds, n, u, p, r) ==
    /\ l \in SenderLabels /\ {dl, dr, ds, n, u, p, r} \subseteq Int
    /\ One(l \in SendersLeft) = One(k \in SendersLeft) + n
    /\ dr - dl + One(l \in {"post"}) - One(k \in {"post"}) = u
    /\ dl + One(l \in {"push"}) - One(k \in {"push"}) = p
    /\ dl + ds + One(l \in {"check", "push"}) - One(k \in {"check", "push"}) = r

\* The sums of a move of a receiver.
ReceiverRow(k, l, dl, dr, ds, n, u, r) ==
    /\ l \in ReceiverLabels /\ {dl, dr, ds, n, u, r} \subseteq Int
    /\ One(l \in ReceiversLeft) = One(k \in ReceiversLeft) + n
    /\ dr - dl + One(l \in {"pop"}) - One(k \in {"pop"}) = u
    /\ dl + ds + One(l \in {"wake"}) - One(k \in {"wake"}) = r

\* Every move of a sender.
LEMMA SenderRows ==
    /\ SenderRow("idle", "idle", 0, 0, 0, 0, 0, 0, 0)
    /\ SenderRow("idle", "check", 0, 0, 0, 0, 0, 0, 1)
    /\ SenderRow("check", "wait", 0, 0, 0, 0, 0, 0, -1)
    /\ SenderRow("check", "idle", 0, 0, 0, 0, 0, 0, -1)
    /\ SenderRow("check", "push", 0, 0, 0, 0, 0, 1, 0)
    /\ SenderRow("push", "post", 1, 0, 0, 0, 0, 0, 0)
    /\ SenderRow("post", "idle", 0, 1, 0, 0, 0, 0, 0)
    /\ SenderRow("idle", "drop_check", 0, 0, 0, -1, 0, 0, 0)
    /\ SenderRow("idle", "gone", 0, 0, 0, -1, 0, 0, 0)
    /\ SenderRow("drop_check", "drop_post", 0, 0, 0, 0, 0, 0, 0)
    /\ SenderRow("drop_check", "gone", 0, 0, 0, 0, 0, 0, 0)
    /\ SenderRow("drop_post", "drop_check", 0, 1, 0, 0, 1, 0, 0)
    /\ SenderRow("wait", "check", 0, 0, -1, 0, 0, 0, 0)
    /\ SenderRow("wait", "register", 0, 0, 0, 0, 0, 0, 0)
    /\ SenderRow("register", "parked", 0, 0, 0, 0, 0, 0, 0)
    /\ SenderRow("parked", "check", 0, 0, -1, 0, 0, 0, 0)
    /\ SenderRow("parked", "idle", 0, 0, 0, 0, 0, 0, 0)
    /\ SenderRow("unborn", "idle", 0, 0, 0, 1, 0, 0, 0)
<1>1. /\ SenderRow("idle", "idle", 0, 0, 0, 0, 0, 0, 0)
      /\ SenderRow("idle", "check", 0, 0, 0, 0, 0, 0, 1)
      /\ SenderRow("check", "wait", 0, 0, 0, 0, 0, 0, -1)
      /\ SenderRow("check", "idle", 0, 0, 0, 0, 0, 0, -1)
      /\ SenderRow("check", "push", 0, 0, 0, 0, 0, 1, 0)
      /\ SenderRow("push", "post", 1, 0, 0, 0, 0, 0, 0)
    BY DEF SenderRow, One, SendersLeft, SenderLabels, Resting
<1>2. /\ SenderRow("post", "idle", 0, 1, 0, 0, 0, 0, 0)
      /\ SenderRow("idle", "drop_check", 0, 0, 0, -1, 0, 0, 0)
      /\ SenderRow("idle", "gone", 0, 0, 0, -1, 0, 0, 0)
      /\ SenderRow("drop_check", "drop_post", 0, 0, 0, 0, 0, 0, 0)
      /\ SenderRow("drop_check", "gone", 0, 0, 0, 0, 0, 0, 0)
      /\ SenderRow("drop_post", "drop_check", 0, 1, 0, 0, 1, 0, 0)
    BY DEF SenderRow, One, SendersLeft, SenderLabels, Resting
<1>3. /\ SenderRow("wait", "check", 0, 0, -1, 0, 0, 0, 0)
      /\ SenderRow("wait", "register", 0, 0, 0, 0, 0, 0, 0)
      /\ SenderRow("register", "parked", 0, 0, 0, 0, 0, 0, 0)
      /\ SenderRow("parked", "check", 0, 0, -1, 0, 0, 0, 0)
      /\ SenderRow("parked", "idle", 0, 0, 0, 0, 0, 0, 0)
      /\ SenderRow("unborn", "idle", 0, 0, 0, 1, 0, 0, 0)
    BY DEF SenderRow, One, SendersLeft, SenderLabels, Resting
<1>. QED BY Zenon, <1>1, <1>2, <1>3

\* Every move of a receiver.
LEMMA ReceiverRows ==
    /\ ReceiverRow("idle", "pop", 0, -1, 0, 0, 0, 0)
    /\ ReceiverRow("idle", "load_senders", 0, 0, 0, 0, 0, 0)
    /\ ReceiverRow("load_senders", "idle", 0, 0, 0, 0, 0, 0)
    /\ ReceiverRow("load_senders", "wait", 0, 0, 0, 0, 0, 0)
    /\ ReceiverRow("pop", "wake", -1, 0, 0, 0, 0, 0)
    /\ ReceiverRow("pop", "found_none", 0, 0, 0, 0, -1, 0)
    /\ ReceiverRow("wake", "idle", 0, 0, 1, 0, 0, 0)
    /\ ReceiverRow("found_none", "idle", 0, 0, 0, 0, 0, 0)
    /\ ReceiverRow("idle", "clear", 0, 0, 0, -1, 0, 0)
    /\ ReceiverRow("idle", "gone", 0, 0, 0, -1, 0, 0)
    /\ ReceiverRow("clear", "clear", -1, 0, 0, 0, 1, -1)
    /\ ReceiverRow("clear", "gone", 0, 0, 0, 0, 0, 0)
    /\ ReceiverRow("wait", "pop", 0, -1, 0, 0, 0, 0)
    /\ ReceiverRow("wait", "register", 0, 0, 0, 0, 0, 0)
    /\ ReceiverRow("register", "parked", 0, 0, 0, 0, 0, 0)
    /\ ReceiverRow("parked", "pop", 0, -1, 0, 0, 0, 0)
    /\ ReceiverRow("parked", "idle", 0, 0, 0, 0, 0, 0)
    /\ ReceiverRow("unborn", "idle", 0, 0, 0, 1, 0, 0)
<1>1. /\ ReceiverRow("idle", "pop", 0, -1, 0, 0, 0, 0)
      /\ ReceiverRow("idle", "load_senders", 0, 0, 0, 0, 0, 0)
      /\ ReceiverRow("load_senders", "idle", 0, 0, 0, 0, 0, 0)
      /\ ReceiverRow("load_senders", "wait", 0, 0, 0, 0, 0, 0)
      /\ ReceiverRow("pop", "wake", -1, 0, 0, 0, 0, 0)
      /\ ReceiverRow("pop", "found_none", 0, 0, 0, 0, -1, 0)
    BY DEF ReceiverRow, One, ReceiversLeft, ReceiverLabels, Resting
<1>2. /\ ReceiverRow("wake", "idle", 0, 0, 1, 0, 0, 0)
      /\ ReceiverRow("found_none", "idle", 0, 0, 0, 0, 0, 0)
      /\ ReceiverRow("idle", "clear", 0, 0, 0, -1, 0, 0)
      /\ ReceiverRow("idle", "gone", 0, 0, 0, -1, 0, 0)
      /\ ReceiverRow("clear", "clear", -1, 0, 0, 0, 1, -1)
      /\ ReceiverRow("clear", "gone", 0, 0, 0, 0, 0, 0)
    BY DEF ReceiverRow, One, ReceiversLeft, ReceiverLabels, Resting
<1>3. /\ ReceiverRow("wait", "pop", 0, -1, 0, 0, 0, 0)
      /\ ReceiverRow("wait", "register", 0, 0, 0, 0, 0, 0)
      /\ ReceiverRow("register", "parked", 0, 0, 0, 0, 0, 0)
      /\ ReceiverRow("parked", "pop", 0, -1, 0, 0, 0, 0)
      /\ ReceiverRow("parked", "idle", 0, 0, 0, 0, 0, 0)
      /\ ReceiverRow("unborn", "idle", 0, 0, 0, 1, 0, 0)
    BY DEF ReceiverRow, One, ReceiversLeft, ReceiverLabels, Resting
<1>. QED BY Zenon, <1>1, <1>2, <1>3

\* The rest of a move of a sender.
SenderMove(h, k, l, dl, n, u, p, r) ==
    /\ pc[h] = k /\ pc' = [pc EXCEPT ![h] = l] /\ calls' \in 0 .. MaxCalls
    /\ len' = len + dl /\ len' \in Nat
    /\ receiver_num' = receiver_num /\ sender_num' = sender_num + n
    /\ sender_num = 0 \/ l \in {"drop_check", "drop_post"} \/ u # 0 => sender_num' = 0
    /\ p <= 0 \/ len' < BufferLimit
    /\ r >= 0 \/ len' >= BufferLimit
    /\ l \in {"wait", "register", "parked"} =>
           k \in {"wait", "register", "parked"} \/ len' >= BufferLimit

\* The rest of a move of a receiver.
ReceiverMove(h, k, l, dl, n, u, r) ==
    /\ pc[h] = k /\ pc' = [pc EXCEPT ![h] = l] /\ calls' \in 0 .. MaxCalls
    /\ len' = len + dl /\ len' \in Nat
    /\ sender_num' = sender_num /\ receiver_num' = receiver_num + n
    /\ receiver_num = 0 \/ l = "clear" => receiver_num' = 0
    /\ l = "found_none" => sender_num = 0
    /\ u = 0 \/ receiver_num' = 0 \/ (sender_num = 0 /\ len' = 0)
    /\ r >= 0 \/ receiver_num' = 0

\* A move of a sender keeps the invariant.
LEMMA SenderStep ==
    ASSUME CardinalityFacts, ChannelConstants, Inv, NEW h \in Senders, NEW k, NEW l, NEW dl,
           NEW dr, NEW ds,
           NEW n, NEW u \in {0, 1}, NEW p \in {-1, 0, 1}, NEW r,
           SenderRow(k, l, dl, dr, ds, n, u, p, r), SenderMove(h, k, l, dl, n, u, p, r),
           RecvSem(h, l, dr), SendSem(h, l, ds)
    PROVE  Inv'
<1>0. h \in Handles /\ h \notin Receivers /\ len \in Nat /\ pc \in [Handles -> Labels]
    BY Zenon, Facts
<1>1. /\ pc[h] = k /\ pc' = [pc EXCEPT ![h] = l] /\ calls' \in 0 .. MaxCalls
      /\ len' = len + dl /\ len' \in Nat
      /\ receiver_num' = receiver_num /\ sender_num' = sender_num + n
      /\ sender_num = 0 \/ l \in {"drop_check", "drop_post"} \/ u # 0 => sender_num' = 0
      /\ p <= 0 \/ len' < BufferLimit
      /\ r >= 0 \/ len' >= BufferLimit
      /\ l \in {"wait", "register", "parked"} =>
             k \in {"wait", "register", "parked"} \/ len' >= BufferLimit
    BY Zenon DEF SenderMove
<1>2. /\ l \in SenderLabels /\ dl \in Int /\ dr \in Int /\ ds \in Int /\ n \in Int /\ r \in Int
      /\ One(l \in SendersLeft) = One(k \in SendersLeft) + n
      /\ dr - dl + One(l \in {"post"}) - One(k \in {"post"}) = u
      /\ dl + One(l \in {"push"}) - One(k \in {"push"}) = p
      /\ dl + ds + One(l \in {"check", "push"}) - One(k \in {"check", "push"}) = r
    BY Zenon DEF SenderRow
<1>3. /\ One(l \in {"post"}) \in Int /\ One(k \in {"post"}) \in Int
      /\ One(l \in {"push"}) \in Int /\ One(k \in {"push"}) \in Int
      /\ One(l \in {"check", "push"}) \in Int /\ One(k \in {"check", "push"}) \in Int
      /\ One(l \in SendersLeft) \in Int /\ One(k \in SendersLeft) \in Int
    BY DEF One
<1>4. /\ NSenders \in Nat /\ NSenders' = NSenders + One(l \in SendersLeft) - One(k \in SendersLeft)
      /\ NReceivers' = NReceivers
      /\ NPost \in Nat /\ NPost' = NPost + One(l \in {"post"}) - One(k \in {"post"})
      /\ NPush \in Nat /\ NPush' = NPush + One(l \in {"push"}) - One(k \in {"push"})
      /\ NTry \in Nat
      /\ NTry' = NTry + One(l \in {"check", "push"}) - One(k \in {"check", "push"})
      /\ NPop \in Nat /\ NPop' = NPop /\ NWake \in Nat /\ NWake' = NWake
    BY Zenon, <1>0, <1>1, SenderMoves
<1>5. sender_num' = NSenders' /\ receiver_num' = NReceivers'
  <2>1. sender_num = NSenders /\ receiver_num = NReceivers
      BY Zenon DEF Inv, NumInv
  <2>2. NSenders' = NSenders + n
      BY <1>2, <1>3, <1>4
  <2>. QED BY Zenon, <1>1, <1>4, <2>1, <2>2
<1>6. Slack' = Slack + u /\ Slack \in Int
  <2>1. PICK q \in Int : q = One(l \in {"post"}) - One(k \in {"post"})
      BY <1>3
  <2>2. NPop' = NPop + 0 /\ NPost' = NPost + q /\ dr + 0 + q - dl = u
      BY <1>2, <1>3, <1>4, <2>1
  <2>3. Slack' = (Units(wake_recv) + dr) + (NPop + 0) + (NPost + q) - (len + dl)
      BY Zenon, <1>1, <2>2 DEF Slack, RecvSem
  <2>4. Units(wake_recv) \in Int
      BY Facts
  <2>5. Slack' = Slack + (dr + 0 + q - dl) /\ Slack \in Int
      BY <1>0, <1>2, <1>4, <2>3, <2>4, Shift DEF Slack
  <2>. QED BY Zenon, <2>2, <2>5
<1>7. \/ len' + NPush' <= len + NPush
      \/ len' + NPush' = len + NPush + 1 /\ len' < BufferLimit
  <2>1. PICK q \in Int, m \in Int, a \in Int :
            q = One(l \in {"push"}) - One(k \in {"push"}) /\ m = NPush /\ a = len
      BY <1>0, <1>3, <1>4
  <2>2. NPush' = m + q /\ len' = a + dl /\ p = dl + q
      BY Zenon, <1>1, <1>2, <1>3, <1>4, <2>1
  <2>3. (a + dl) + (m + q) = a + m + p
      BY <1>2, <2>2
  <2>4. a + m + p <= a + m \/ (a + m + p = a + m + 1 /\ len' < BufferLimit)
      BY <1>1
  <2>. QED BY Zenon, <2>1, <2>2, <2>3, <2>4
<1>8. Room' >= Room \/ len' >= BufferLimit
  <2>1. PICK q \in Int : q = One(l \in {"check", "push"}) - One(k \in {"check", "push"})
      BY <1>3
  <2>2. NWake' = NWake + 0 /\ NTry' = NTry + q /\ dl + ds + 0 + q = r
      BY <1>2, <1>3, <1>4, <2>1
  <2>3. Room' = (len + dl) + (Units(wake_sender) + ds) + (NWake + 0) + (NTry + q)
      BY Zenon, <1>1, <2>2 DEF Room, SendSem
  <2>4. Units(wake_sender) \in Int
      BY Facts
  <2>5. Room' = Room + (dl + ds + 0 + q) /\ Room \in Int
      BY <1>0, <1>2, <1>4, <2>3, <2>4, Shift DEF Room
  <2>6. PICK a \in Int, b \in Int : a = Room /\ b = Room'
      BY <1>2, <2>2, <2>5
  <2>7. b = a + r
      BY Zenon, <2>2, <2>5, <2>6
  <2>8. b >= a \/ len' >= BufferLimit
      BY <1>1, <1>2, <2>7
  <2>. QED BY Zenon, <2>6, <2>8
<1>9. l \notin {"found_none", "clear"}
    BY Zenon, <1>2 DEF SenderLabels, Resting
<1>10. Slack' = Slack \/ (sender_num' = 0 /\ Slack' = Slack + 1)
    BY <1>1, <1>6
<1>. QED BY Zenon, <1>0, <1>1, <1>2, <1>5, <1>7, <1>8, <1>9, <1>10, HandleStep DEF RecvSem, SendSem

\* A move of a receiver keeps the invariant.
LEMMA ReceiverStep ==
    ASSUME CardinalityFacts, ChannelConstants, Inv, NEW h \in Receivers, NEW k, NEW l,
           NEW dl \in {0, -1},
           NEW dr, NEW ds, NEW n, NEW u, NEW r,
           ReceiverRow(k, l, dl, dr, ds, n, u, r), ReceiverMove(h, k, l, dl, n, u, r),
           RecvSem(h, l, dr), SendSem(h, l, ds)
    PROVE  Inv'
<1>0. h \in Handles /\ h \notin Senders /\ len \in Nat /\ pc \in [Handles -> Labels]
    BY Zenon, Facts
<1>1. /\ pc[h] = k /\ pc' = [pc EXCEPT ![h] = l] /\ calls' \in 0 .. MaxCalls
      /\ len' = len + dl /\ len' \in Nat
      /\ sender_num' = sender_num /\ receiver_num' = receiver_num + n
      /\ receiver_num = 0 \/ l = "clear" => receiver_num' = 0
      /\ l = "found_none" => sender_num = 0
      /\ u = 0 \/ receiver_num' = 0 \/ (sender_num = 0 /\ len' = 0)
      /\ r >= 0 \/ receiver_num' = 0
    BY Zenon DEF ReceiverMove
<1>2. /\ l \in ReceiverLabels /\ dr \in Int /\ ds \in Int /\ n \in Int /\ u \in Int /\ r \in Int
      /\ One(l \in ReceiversLeft) = One(k \in ReceiversLeft) + n
      /\ dr - dl + One(l \in {"pop"}) - One(k \in {"pop"}) = u
      /\ dl + ds + One(l \in {"wake"}) - One(k \in {"wake"}) = r
    BY Zenon DEF ReceiverRow
<1>3. /\ One(l \in {"pop"}) \in Int /\ One(k \in {"pop"}) \in Int
      /\ One(l \in {"wake"}) \in Int /\ One(k \in {"wake"}) \in Int
      /\ One(l \in ReceiversLeft) \in Int /\ One(k \in ReceiversLeft) \in Int
    BY DEF One
<1>4. /\ NReceivers \in Nat
      /\ NReceivers' = NReceivers + One(l \in ReceiversLeft) - One(k \in ReceiversLeft)
      /\ NSenders' = NSenders
      /\ NPop \in Nat /\ NPop' = NPop + One(l \in {"pop"}) - One(k \in {"pop"})
      /\ NWake \in Nat /\ NWake' = NWake + One(l \in {"wake"}) - One(k \in {"wake"})
      /\ NPost \in Nat /\ NPost' = NPost /\ NPush \in Nat /\ NPush' = NPush
      /\ NTry \in Nat /\ NTry' = NTry
    BY Zenon, <1>0, <1>1, ReceiverMoves
<1>5. sender_num' = NSenders' /\ receiver_num' = NReceivers'
  <2>1. sender_num = NSenders /\ receiver_num = NReceivers
      BY Zenon DEF Inv, NumInv
  <2>2. NReceivers' = NReceivers + n
      BY <1>2, <1>3, <1>4
  <2>. QED BY Zenon, <1>1, <1>4, <2>1, <2>2
<1>6. \/ Slack' = Slack
      \/ receiver_num' = 0
      \/ sender_num' = 0 /\ len' = 0
  <2>1. PICK q \in Int : q = One(l \in {"pop"}) - One(k \in {"pop"})
      BY <1>3
  <2>2. NPop' = NPop + q /\ NPost' = NPost + 0 /\ dr + q + 0 - dl = u
      BY <1>2, <1>3, <1>4, <2>1
  <2>3. Slack' = (Units(wake_recv) + dr) + (NPop + q) + (NPost + 0) - (len + dl)
      BY Zenon, <1>1, <2>2 DEF Slack, RecvSem
  <2>4. Units(wake_recv) \in Int
      BY Facts
  <2>5. Slack' = Slack + (dr + q + 0 - dl) /\ Slack \in Int
      BY <1>0, <1>2, <1>4, <2>3, <2>4, Shift DEF Slack
  <2>6. u = 0 => Slack' = Slack
      BY <2>2, <2>5
  <2>. QED BY Zenon, <1>1, <2>6
<1>7. len' + NPush' <= len + NPush
  <2>1. PICK a \in Int, m \in Int : a = len /\ m = NPush
      BY <1>0, <1>4
  <2>2. (a + dl) + m <= a + m
      OBVIOUS
  <2>. QED BY Zenon, <1>1, <1>4, <2>1, <2>2
<1>8. Room' >= Room \/ receiver_num' = 0
  <2>1. PICK q \in Int : q = One(l \in {"wake"}) - One(k \in {"wake"})
      BY <1>3
  <2>2. NWake' = NWake + q /\ NTry' = NTry + 0 /\ dl + ds + q + 0 = r
      BY <1>2, <1>3, <1>4, <2>1
  <2>3. Room' = (len + dl) + (Units(wake_sender) + ds) + (NWake + q) + (NTry + 0)
      BY Zenon, <1>1, <2>2 DEF Room, SendSem
  <2>4. Units(wake_sender) \in Int
      BY Facts
  <2>5. Room' = Room + (dl + ds + q + 0) /\ Room \in Int
      BY <1>0, <1>2, <1>4, <2>3, <2>4, Shift DEF Room
  <2>6. PICK a \in Int, b \in Int : a = Room /\ b = Room'
      BY <1>2, <2>2, <2>5
  <2>7. b = a + r
      BY Zenon, <2>2, <2>5, <2>6
  <2>8. b >= a \/ receiver_num' = 0
      BY <1>1, <1>2, <2>7
  <2>. QED BY Zenon, <2>6, <2>8
<1>9. l \notin {"drop_check", "drop_post"}
    BY Zenon, <1>2 DEF ReceiverLabels, Resting
<1>. QED BY Zenon, <1>0, <1>1, <1>2, <1>5, <1>6, <1>7, <1>8, <1>9, HandleStep DEF RecvSem, SendSem

-----------------------------------------------------------------------------
(* The calls of senders.                                                   *)

\* Every step of a call of a sender, except the waits.
LEMMA SenderCalls ==
    ASSUME CardinalityFacts, ChannelConstants, Inv, NEW h \in Handles,
           \/ Send(h) \/ CheckLen(h) \/ Push(h) \/ PostRecv(h)
           \/ DropSend(h) \/ DropCheck(h) \/ DropPost(h)
    PROVE  Inv'
<1>1. ASSUME pc[h] \in {"check", "push", "post", "drop_check", "drop_post"} PROVE h \in Senders
  <2>1. pc[h] \notin ReceiverLabels
      BY Zenon, <1>1 DEF ReceiverLabels, Resting
  <2>. QED BY Zenon, <2>1, Facts
<1>2. CASE Send(h)
  <2>1. /\ pc[h] = "idle" /\ h \in Senders /\ calls' \in 0 .. MaxCalls
        /\ UNCHANGED <<len, wake_recv, wake_sender, sender_num, receiver_num>>
      BY <1>2, Facts DEF Send, StartCall, sems, nums, ChannelConstants
  <2>2. CASE receiver_num = 0
    <3>1. pc' = [pc EXCEPT ![h] = "idle"]
        BY Zenon, <1>2, <2>2 DEF Send, Goto
    <3>7. SenderMove(h, "idle", "idle", 0, 0, 0, 0, 0)
        BY <2>1, <3>1, HandleFacts DEF SenderMove
    <3>8. RecvSem(h, "idle", 0) /\ SendSem(h, "idle", 0)
        BY Zenon, <2>1, <3>1, RecvSems, SendSems
    <3>. QED BY Zenon, <3>7, <3>8, SenderRows, SenderStep, <2>1
  <2>3. CASE receiver_num # 0
    <3>1. pc' = [pc EXCEPT ![h] = "check"]
        BY Zenon, <1>2, <2>3 DEF Send, Goto
    <3>7. SenderMove(h, "idle", "check", 0, 0, 0, 0, 1)
        BY <2>1, <3>1, HandleFacts DEF SenderMove
    <3>8. RecvSem(h, "check", 0) /\ SendSem(h, "check", 0)
        BY Zenon, <2>1, <3>1, RecvSems, SendSems
    <3>. QED BY Zenon, <3>7, <3>8, SenderRows, SenderStep, <2>1
  <2>. QED BY Zenon, <2>2, <2>3
<1>3. CASE CheckLen(h)
  <2>1. /\ pc[h] = "check" /\ h \in Senders
        /\ UNCHANGED <<len, wake_recv, wake_sender, sender_num, receiver_num, calls>>
      BY Zenon, <1>1, <1>3 DEF CheckLen, sems, nums
  <2>2. CASE len >= BufferLimit /\ pc' = [pc EXCEPT ![h] = "wait"]
    <3>7. SenderMove(h, "check", "wait", 0, 0, 0, 0, -1)
        BY <2>1, <2>2, HandleFacts DEF SenderMove
    <3>8. RecvSem(h, "wait", 0) /\ SendSem(h, "wait", 0)
        BY Zenon, <2>1, <2>2, RecvSems, SendSems
    <3>. QED BY Zenon, <3>7, <3>8, SenderRows, SenderStep, <2>1
  <2>3. CASE len >= BufferLimit /\ pc' = [pc EXCEPT ![h] = "idle"]
    <3>7. SenderMove(h, "check", "idle", 0, 0, 0, 0, -1)
        BY <2>1, <2>3, HandleFacts DEF SenderMove
    <3>8. RecvSem(h, "idle", 0) /\ SendSem(h, "idle", 0)
        BY Zenon, <2>1, <2>3, RecvSems, SendSems
    <3>. QED BY Zenon, <3>7, <3>8, SenderRows, SenderStep, <2>1
  <2>4. CASE len < BufferLimit /\ pc' = [pc EXCEPT ![h] = "push"]
    <3>7. SenderMove(h, "check", "push", 0, 0, 0, 1, 0)
        BY <2>1, <2>4, HandleFacts DEF SenderMove
    <3>8. RecvSem(h, "push", 0) /\ SendSem(h, "push", 0)
        BY Zenon, <2>1, <2>4, RecvSems, SendSems
    <3>. QED BY Zenon, <3>7, <3>8, SenderRows, SenderStep, <2>1
  <2>. QED BY <1>3, <2>2, <2>3, <2>4, Facts DEF CheckLen, Goto
<1>4. CASE Push(h)
  <2>1. /\ pc[h] = "push" /\ h \in Senders /\ pc' = [pc EXCEPT ![h] = "post"] /\ len' = len + 1
        /\ UNCHANGED <<wake_recv, wake_sender, sender_num, receiver_num, calls>>
      BY Zenon, <1>1, <1>4 DEF Push, Goto, sems, nums
  <2>7. SenderMove(h, "push", "post", 1, 0, 0, 0, 0)
      BY <2>1, HandleFacts DEF SenderMove
  <2>8. RecvSem(h, "post", 0) /\ SendSem(h, "post", 0)
      BY Zenon, <2>1, RecvSems, SendSems
  <2>. QED BY Zenon, <2>7, <2>8, SenderRows, SenderStep, <2>1
<1>5. CASE PostRecv(h)
  <2>1. /\ pc[h] = "post" /\ h \in Senders /\ pc' = [pc EXCEPT ![h] = "idle"] /\ WakeRecv!Post
        /\ UNCHANGED <<len, wake_sender, sender_num, receiver_num, calls>>
      BY Zenon, <1>1, <1>5 DEF PostRecv, Goto, nums
  <2>7. SenderMove(h, "post", "idle", 0, 0, 0, 0, 0)
      BY <2>1, HandleFacts DEF SenderMove
  <2>8. RecvSem(h, "idle", 1) /\ SendSem(h, "idle", 0)
      BY Zenon, <2>1, RecvSems, SendSems
  <2>. QED BY Zenon, <2>7, <2>8, SenderRows, SenderStep, <2>1
<1>6. CASE DropSend(h)
  <2>1. /\ pc[h] = "idle" /\ h \in Senders /\ sender_num' = sender_num - 1
        /\ UNCHANGED <<len, wake_recv, wake_sender, receiver_num, calls>>
      BY Zenon, <1>6 DEF DropSend, sems
  <2>2. sender_num > 0
      BY Zenon, <2>1, Counted DEF Inv, SendersLeft, SenderLabels, Resting
  <2>3. CASE sender_num = 1 /\ pc' = [pc EXCEPT ![h] = "drop_check"]
    <3>7. SenderMove(h, "idle", "drop_check", 0, -1, 0, 0, 0)
        BY <2>1, <2>2, <2>3, HandleFacts DEF SenderMove
    <3>8. RecvSem(h, "drop_check", 0) /\ SendSem(h, "drop_check", 0)
        BY Zenon, <2>1, <2>2, <2>3, RecvSems, SendSems
    <3>. QED BY Zenon, <3>7, <3>8, SenderRows, SenderStep, <2>1
  <2>4. CASE sender_num # 1 /\ pc' = [pc EXCEPT ![h] = "gone"]
    <3>7. SenderMove(h, "idle", "gone", 0, -1, 0, 0, 0)
        BY <2>1, <2>2, <2>4, HandleFacts DEF SenderMove
    <3>8. RecvSem(h, "gone", 0) /\ SendSem(h, "gone", 0)
        BY Zenon, <2>1, <2>2, <2>4, RecvSems, SendSems
    <3>. QED BY Zenon, <3>7, <3>8, SenderRows, SenderStep, <2>1
  <2>. QED BY Zenon, <1>6, <2>3, <2>4 DEF DropSend, Goto
<1>7. CASE DropCheck(h)
  <2>1. /\ pc[h] = "drop_check" /\ h \in Senders
        /\ UNCHANGED <<len, wake_recv, wake_sender, sender_num, receiver_num, calls>>
      BY Zenon, <1>1, <1>7 DEF DropCheck, sems, nums
  <2>2. sender_num = 0
      BY Zenon, <2>1 DEF Inv, NumInv
  <2>3. CASE pc' = [pc EXCEPT ![h] = "drop_post"]
    <3>7. SenderMove(h, "drop_check", "drop_post", 0, 0, 0, 0, 0)
        BY <2>1, <2>2, <2>3, HandleFacts DEF SenderMove
    <3>8. RecvSem(h, "drop_post", 0) /\ SendSem(h, "drop_post", 0)
        BY Zenon, <2>1, <2>2, <2>3, RecvSems, SendSems
    <3>. QED BY Zenon, <3>7, <3>8, SenderRows, SenderStep, <2>1
  <2>4. CASE pc' = [pc EXCEPT ![h] = "gone"]
    <3>7. SenderMove(h, "drop_check", "gone", 0, 0, 0, 0, 0)
        BY <2>1, <2>2, <2>4, HandleFacts DEF SenderMove
    <3>8. RecvSem(h, "gone", 0) /\ SendSem(h, "gone", 0)
        BY Zenon, <2>1, <2>2, <2>4, RecvSems, SendSems
    <3>. QED BY Zenon, <3>7, <3>8, SenderRows, SenderStep, <2>1
  <2>. QED BY Zenon, <1>7, <2>3, <2>4 DEF DropCheck, Goto
<1>8. CASE DropPost(h)
  <2>1. /\ pc[h] = "drop_post" /\ h \in Senders /\ pc' = [pc EXCEPT ![h] = "drop_check"]
        /\ WakeRecv!Post /\ UNCHANGED <<len, wake_sender, sender_num, receiver_num, calls>>
      BY Zenon, <1>1, <1>8 DEF DropPost, Goto, nums
  <2>2. sender_num = 0
      BY Zenon, <2>1 DEF Inv, NumInv
  <2>7. SenderMove(h, "drop_post", "drop_check", 0, 0, 1, 0, 0)
      BY <2>1, <2>2, HandleFacts DEF SenderMove
  <2>8. RecvSem(h, "drop_check", 1) /\ SendSem(h, "drop_check", 0)
      BY Zenon, <2>1, <2>2, RecvSems, SendSems
  <2>. QED BY Zenon, <2>7, <2>8, SenderRows, SenderStep, <2>1
<1>. QED BY Zenon, <1>2, <1>3, <1>4, <1>5, <1>6, <1>7, <1>8

-----------------------------------------------------------------------------
(* The calls of receivers.                                                 *)

\* A receiver that has a unit and finds no message.
LEMMA NoMessage ==
    ASSUME CardinalityFacts, ChannelConstants, Inv, NEW h \in Receivers, pc[h] = "pop", len = 0
    PROVE  sender_num = 0
<1>1. receiver_num > 0
    BY Zenon, Counted DEF Inv, ReceiversLeft, ReceiverLabels, Resting
<1>2. IsFiniteSet(At(Receivers, {"pop"})) /\ IsFiniteSet(At(Senders, {"post"}))
    BY Zenon, CardSubset, Facts DEF At
<1>3. NPop \in Nat /\ NPop # 0 /\ NPost \in Nat
  <2>1. h \in At(Receivers, {"pop"})
      BY Zenon DEF At
  <2>. QED BY Zenon, <1>2, <2>1, CardEmpty, CardType DEF NPop, NPost
<1>4. PICK a \in Nat, b \in Nat, c \in Nat : a = Units(wake_recv) /\ b = NPop /\ c = NPost
    BY Zenon, <1>3, Facts
<1>5. Slack = a + b + c - 0 /\ b # 0
    BY Zenon, <1>3, <1>4 DEF Slack
<1>6. Slack # 0
    BY <1>5
<1>. QED BY <1>1, <1>6, Facts DEF Inv, UnitInv

\* Every step of a call of a receiver, except the waits.
LEMMA ReceiverCalls ==
    ASSUME CardinalityFacts, ChannelConstants, Inv, NEW h \in Handles,
           \/ TryRecv(h) \/ LoadSenders(h) \/ Pop(h) \/ Wake(h) \/ FoundNone(h)
           \/ DropRecv(h) \/ ClearBuffer(h)
    PROVE  Inv'
<1>1. ASSUME pc[h] \in {"load_senders", "pop", "wake", "found_none", "clear"} PROVE h \in Receivers
  <2>1. pc[h] \notin SenderLabels
      BY Zenon, <1>1 DEF SenderLabels, Resting
  <2>. QED BY Zenon, <2>1, Facts
<1>2. CASE TryRecv(h)
  <2>1. /\ pc[h] = "idle" /\ h \in Receivers /\ calls' \in 0 .. MaxCalls
        /\ UNCHANGED <<len, wake_sender, sender_num, receiver_num>>
      BY <1>2, Facts DEF TryRecv, StartCall, nums, ChannelConstants
  <2>0. receiver_num > 0
      BY Zenon, <2>1, Counted DEF Inv, ReceiversLeft, ReceiverLabels, Resting
  <2>2. CASE WakeRecv!TryWait /\ pc' = [pc EXCEPT ![h] = "pop"]
    <3>7. ReceiverMove(h, "idle", "pop", 0, 0, 0, 0)
        BY <2>0, <2>1, <2>2, HandleFacts DEF ReceiverMove
    <3>8. RecvSem(h, "pop", -1) /\ SendSem(h, "pop", 0)
        BY Zenon, <2>0, <2>1, <2>2, RecvSems, SendSems
    <3>. QED BY Zenon, <3>7, <3>8, ReceiverRows, ReceiverStep, <2>1
  <2>3. CASE wake_recv' = wake_recv /\ pc' = [pc EXCEPT ![h] = "load_senders"]
    <3>7. ReceiverMove(h, "idle", "load_senders", 0, 0, 0, 0)
        BY <2>0, <2>1, <2>3, HandleFacts DEF ReceiverMove
    <3>8. RecvSem(h, "load_senders", 0) /\ SendSem(h, "load_senders", 0)
        BY Zenon, <2>0, <2>1, <2>3, RecvSems, SendSems
    <3>. QED BY Zenon, <3>7, <3>8, ReceiverRows, ReceiverStep, <2>1
  <2>. QED BY Zenon, <1>2, <2>2, <2>3 DEF TryRecv, Goto
<1>3. CASE LoadSenders(h)
  <2>1. /\ pc[h] = "load_senders" /\ h \in Receivers
        /\ UNCHANGED <<len, wake_recv, wake_sender, sender_num, receiver_num, calls>>
      BY Zenon, <1>1, <1>3 DEF LoadSenders, sems, nums
  <2>2. CASE pc' = [pc EXCEPT ![h] = "idle"]
    <3>7. ReceiverMove(h, "load_senders", "idle", 0, 0, 0, 0)
        BY <2>1, <2>2, HandleFacts DEF ReceiverMove
    <3>8. RecvSem(h, "idle", 0) /\ SendSem(h, "idle", 0)
        BY Zenon, <2>1, <2>2, RecvSems, SendSems
    <3>. QED BY Zenon, <3>7, <3>8, ReceiverRows, ReceiverStep, <2>1
  <2>3. CASE pc' = [pc EXCEPT ![h] = "wait"]
    <3>7. ReceiverMove(h, "load_senders", "wait", 0, 0, 0, 0)
        BY <2>1, <2>3, HandleFacts DEF ReceiverMove
    <3>8. RecvSem(h, "wait", 0) /\ SendSem(h, "wait", 0)
        BY Zenon, <2>1, <2>3, RecvSems, SendSems
    <3>. QED BY Zenon, <3>7, <3>8, ReceiverRows, ReceiverStep, <2>1
  <2>. QED BY Zenon, <1>3, <2>2, <2>3 DEF LoadSenders, Goto
<1>4. CASE Pop(h)
  <2>1. /\ pc[h] = "pop" /\ h \in Receivers
        /\ UNCHANGED <<wake_recv, wake_sender, sender_num, receiver_num, calls>>
      BY Zenon, <1>1, <1>4 DEF Pop, sems, nums
  <2>2. CASE len > 0
    <3>1. len' = len + -1 /\ len' \in Nat /\ pc' = [pc EXCEPT ![h] = "wake"]
        BY <1>4, <2>2, Facts DEF Pop, Goto
    <3>7. ReceiverMove(h, "pop", "wake", -1, 0, 0, 0)
        BY <2>1, <3>1, HandleFacts DEF ReceiverMove
    <3>8. RecvSem(h, "wake", 0) /\ SendSem(h, "wake", 0)
        BY Zenon, <2>1, <3>1, RecvSems, SendSems
    <3>. QED BY Zenon, <3>7, <3>8, ReceiverRows, ReceiverStep, <2>1
  <2>3. CASE len = 0
    <3>1. len' = 0 /\ pc' = [pc EXCEPT ![h] = "found_none"]
        BY <1>4, <2>3 DEF Pop, Goto
    <3>2. sender_num = 0
        BY Zenon, <2>1, <2>3, NoMessage
    <3>7. ReceiverMove(h, "pop", "found_none", 0, 0, -1, 0)
        BY <2>1, <2>3, <3>1, <3>2, HandleFacts DEF ReceiverMove
    <3>8. RecvSem(h, "found_none", 0) /\ SendSem(h, "found_none", 0)
        BY Zenon, <2>1, <2>3, <3>1, <3>2, RecvSems, SendSems
    <3>. QED BY Zenon, <3>7, <3>8, ReceiverRows, ReceiverStep, <2>1
  <2>. QED BY <2>2, <2>3, Facts
<1>5. CASE Wake(h)
  <2>1. /\ pc[h] = "wake" /\ h \in Receivers /\ pc' = [pc EXCEPT ![h] = "idle"] /\ WakeSender!Post
        /\ UNCHANGED <<len, wake_recv, sender_num, receiver_num, calls>>
      BY Zenon, <1>1, <1>5 DEF Wake, Goto, nums
  <2>7. ReceiverMove(h, "wake", "idle", 0, 0, 0, 0)
      BY <2>1, HandleFacts DEF ReceiverMove
  <2>8. RecvSem(h, "idle", 0) /\ SendSem(h, "idle", 1)
      BY Zenon, <2>1, RecvSems, SendSems
  <2>. QED BY Zenon, <2>7, <2>8, ReceiverRows, ReceiverStep, <2>1
<1>6. CASE FoundNone(h)
  <2>1. /\ pc[h] = "found_none" /\ h \in Receivers
        /\ UNCHANGED <<len, wake_recv, wake_sender, sender_num, receiver_num, calls>>
      BY Zenon, <1>1, <1>6 DEF FoundNone, sems, nums
  <2>2. sender_num = 0
      BY Zenon, <2>1 DEF Inv, NumInv
  <2>3. pc' = [pc EXCEPT ![h] = "idle"]
      BY Zenon, <1>6, <2>2 DEF FoundNone, Goto
  <2>7. ReceiverMove(h, "found_none", "idle", 0, 0, 0, 0)
      BY <2>1, <2>2, <2>3, HandleFacts DEF ReceiverMove
  <2>8. RecvSem(h, "idle", 0) /\ SendSem(h, "idle", 0)
      BY Zenon, <2>1, <2>2, <2>3, RecvSems, SendSems
  <2>. QED BY Zenon, <2>7, <2>8, ReceiverRows, ReceiverStep, <2>1
<1>7. CASE DropRecv(h)
  <2>1. /\ pc[h] = "idle" /\ h \in Receivers /\ receiver_num' = receiver_num - 1
        /\ UNCHANGED <<len, wake_recv, wake_sender, sender_num, calls>>
      BY Zenon, <1>7 DEF DropRecv, sems
  <2>2. receiver_num > 0
      BY Zenon, <2>1, Counted DEF Inv, ReceiversLeft, ReceiverLabels, Resting
  <2>3. CASE receiver_num = 1 /\ pc' = [pc EXCEPT ![h] = "clear"]
    <3>7. ReceiverMove(h, "idle", "clear", 0, -1, 0, 0)
        BY <2>1, <2>2, <2>3, HandleFacts DEF ReceiverMove
    <3>8. RecvSem(h, "clear", 0) /\ SendSem(h, "clear", 0)
        BY Zenon, <2>1, <2>2, <2>3, RecvSems, SendSems
    <3>. QED BY Zenon, <3>7, <3>8, ReceiverRows, ReceiverStep, <2>1
  <2>4. CASE receiver_num # 1 /\ pc' = [pc EXCEPT ![h] = "gone"]
    <3>7. ReceiverMove(h, "idle", "gone", 0, -1, 0, 0)
        BY <2>1, <2>2, <2>4, HandleFacts DEF ReceiverMove
    <3>8. RecvSem(h, "gone", 0) /\ SendSem(h, "gone", 0)
        BY Zenon, <2>1, <2>2, <2>4, RecvSems, SendSems
    <3>. QED BY Zenon, <3>7, <3>8, ReceiverRows, ReceiverStep, <2>1
  <2>. QED BY Zenon, <1>7, <2>3, <2>4 DEF DropRecv, Goto
<1>8. CASE ClearBuffer(h)
  <2>1. /\ pc[h] = "clear" /\ h \in Receivers
        /\ UNCHANGED <<wake_recv, wake_sender, sender_num, receiver_num, calls>>
      BY Zenon, <1>1, <1>8 DEF ClearBuffer, sems, nums
  <2>2. receiver_num = 0
      BY Zenon, <2>1 DEF Inv, NumInv
  <2>3. CASE len > 0
    <3>1. len' = len + -1 /\ len' \in Nat /\ pc' = [pc EXCEPT ![h] = "clear"]
        BY <1>8, <2>1, <2>3, Facts DEF ClearBuffer
    <3>7. ReceiverMove(h, "clear", "clear", -1, 0, 1, -1)
        BY <2>1, <2>2, <3>1, HandleFacts DEF ReceiverMove
    <3>8. RecvSem(h, "clear", 0) /\ SendSem(h, "clear", 0)
        BY Zenon, <2>1, <2>2, <3>1, RecvSems, SendSems
    <3>. QED BY Zenon, <3>7, <3>8, ReceiverRows, ReceiverStep, <2>1
  <2>4. CASE len = 0
    <3>1. len' = len /\ pc' = [pc EXCEPT ![h] = "gone"]
        BY <1>8, <2>4 DEF ClearBuffer, Goto
    <3>7. ReceiverMove(h, "clear", "gone", 0, 0, 0, 0)
        BY <2>1, <2>2, <3>1, HandleFacts DEF ReceiverMove
    <3>8. RecvSem(h, "gone", 0) /\ SendSem(h, "gone", 0)
        BY Zenon, <2>1, <2>2, <3>1, RecvSems, SendSems
    <3>. QED BY Zenon, <3>7, <3>8, ReceiverRows, ReceiverStep, <2>1
  <2>. QED BY <2>3, <2>4, Facts
<1>. QED BY Zenon, <1>2, <1>3, <1>4, <1>5, <1>6, <1>7, <1>8

-----------------------------------------------------------------------------
(* Waits.                                                                  *)

\* Every step of a wait on one of the two semaphores.
LEMMA Waits ==
    ASSUME CardinalityFacts, ChannelConstants, Inv, NEW h \in Handles,
           WaitTry(h) \/ WaitRegister(h) \/ WaitReturn(h) \/ WaitGiveUp(h)
    PROVE  Inv'
<1>0. wake_sender.waiting \subseteq Senders /\ wake_recv.waiting \subseteq Receivers
    BY Zenon, SemFields, Facts
<1>1. CASE WaitTry(h)
  <2>0. pc[h] = "wait" /\ UNCHANGED <<len, sender_num, receiver_num, calls>>
      BY Zenon, <1>1 DEF WaitTry, nums
  <2>2. ASSUME h \in Senders, WakeSender!TryWait, wake_recv' = wake_recv,
               pc' = [pc EXCEPT ![h] = "check"]
        PROVE  Inv'
    <3>7. SenderMove(h, "wait", "check", 0, 0, 0, 0, 0)
        BY <2>0, <2>2, HandleFacts DEF SenderMove
    <3>8. RecvSem(h, "check", 0) /\ SendSem(h, "check", -1)
        BY Zenon, <2>0, <2>2, RecvSems, SendSems
    <3>. QED BY Zenon, <3>7, <3>8, SenderRows, SenderStep, <2>2
  <2>3. ASSUME h \in Receivers, WakeRecv!TryWait, wake_sender' = wake_sender,
               pc' = [pc EXCEPT ![h] = "pop"]
        PROVE  Inv'
    <3>7. ReceiverMove(h, "wait", "pop", 0, 0, 0, 0)
        BY <2>0, <2>3, HandleFacts DEF ReceiverMove
    <3>8. RecvSem(h, "pop", -1) /\ SendSem(h, "pop", 0)
        BY Zenon, <2>0, <2>3, RecvSems, SendSems
    <3>. QED BY Zenon, <3>7, <3>8, ReceiverRows, ReceiverStep, <2>3
  <2>4. ASSUME h \in Senders, UNCHANGED <<wake_recv, wake_sender>>,
               pc' = [pc EXCEPT ![h] = "register"]
        PROVE  Inv'
    <3>7. SenderMove(h, "wait", "register", 0, 0, 0, 0, 0)
        BY <2>0, <2>4, HandleFacts DEF SenderMove
    <3>8. RecvSem(h, "register", 0) /\ SendSem(h, "register", 0)
        BY Zenon, <2>0, <2>4, RecvSems, SendSems
    <3>. QED BY Zenon, <3>7, <3>8, SenderRows, SenderStep, <2>4
  <2>5. ASSUME h \in Receivers, UNCHANGED <<wake_recv, wake_sender>>,
               pc' = [pc EXCEPT ![h] = "register"]
        PROVE  Inv'
    <3>7. ReceiverMove(h, "wait", "register", 0, 0, 0, 0)
        BY <2>0, <2>5, HandleFacts DEF ReceiverMove
    <3>8. RecvSem(h, "register", 0) /\ SendSem(h, "register", 0)
        BY Zenon, <2>0, <2>5, RecvSems, SendSems
    <3>. QED BY Zenon, <3>7, <3>8, ReceiverRows, ReceiverStep, <2>5
  <2>. QED BY Zenon, <1>1, <2>2, <2>3, <2>4, <2>5, Facts DEF WaitTry, Goto, sems
<1>2. CASE WaitRegister(h)
  <2>0. /\ pc[h] = "register" /\ pc' = [pc EXCEPT ![h] = "parked"]
        /\ UNCHANGED <<len, sender_num, receiver_num, calls>>
      BY Zenon, <1>2 DEF WaitRegister, Goto, nums
  <2>2. ASSUME h \in Senders, WakeSender!Register(h), wake_recv' = wake_recv PROVE Inv'
    <3>7. SenderMove(h, "register", "parked", 0, 0, 0, 0, 0)
        BY <2>0, <2>2, HandleFacts DEF SenderMove
    <3>8. RecvSem(h, "parked", 0) /\ SendSem(h, "parked", 0)
        BY Zenon, <2>0, <2>2, RecvSems, SendSems
    <3>. QED BY Zenon, <3>7, <3>8, SenderRows, SenderStep, <2>2
  <2>3. ASSUME h \in Receivers, WakeRecv!Register(h), wake_sender' = wake_sender PROVE Inv'
    <3>7. ReceiverMove(h, "register", "parked", 0, 0, 0, 0)
        BY <2>0, <2>3, HandleFacts DEF ReceiverMove
    <3>8. RecvSem(h, "parked", 0) /\ SendSem(h, "parked", 0)
        BY Zenon, <2>0, <2>3, RecvSems, SendSems
    <3>. QED BY Zenon, <3>7, <3>8, ReceiverRows, ReceiverStep, <2>3
  <2>. QED BY Zenon, <1>2, <2>2, <2>3 DEF WaitRegister
<1>3. CASE WaitReturn(h)
  <2>0. pc[h] = "parked" /\ UNCHANGED <<len, sender_num, receiver_num, calls>>
      BY Zenon, <1>3 DEF WaitReturn, nums
  <2>2. ASSUME WakeSender!Return(h), wake_recv' = wake_recv, pc' = [pc EXCEPT ![h] = "check"]
        PROVE  Inv'
    <3>1. h \in Senders
        BY Zenon, <1>0, <2>2 DEF WakeSender!Return
    <3>7. SenderMove(h, "parked", "check", 0, 0, 0, 0, 0)
        BY <2>0, <2>2, <3>1, HandleFacts DEF SenderMove
    <3>8. RecvSem(h, "check", 0) /\ SendSem(h, "check", -1)
        BY Zenon, <2>0, <2>2, <3>1, RecvSems, SendSems
    <3>. QED BY Zenon, <3>7, <3>8, SenderRows, SenderStep, <3>1
  <2>3. ASSUME WakeRecv!Return(h), wake_sender' = wake_sender, pc' = [pc EXCEPT ![h] = "pop"]
        PROVE  Inv'
    <3>1. h \in Receivers
        BY Zenon, <1>0, <2>3 DEF WakeRecv!Return
    <3>7. ReceiverMove(h, "parked", "pop", 0, 0, 0, 0)
        BY <2>0, <2>3, <3>1, HandleFacts DEF ReceiverMove
    <3>8. RecvSem(h, "pop", -1) /\ SendSem(h, "pop", 0)
        BY Zenon, <2>0, <2>3, <3>1, RecvSems, SendSems
    <3>. QED BY Zenon, <3>7, <3>8, ReceiverRows, ReceiverStep, <3>1
  <2>. QED BY Zenon, <1>3, <2>2, <2>3 DEF WaitReturn, Goto
<1>4. CASE WaitGiveUp(h)
  <2>0. /\ pc[h] = "parked" /\ pc' = [pc EXCEPT ![h] = "idle"]
        /\ UNCHANGED <<len, sender_num, receiver_num, calls>>
      BY Zenon, <1>4 DEF WaitGiveUp, Goto, nums
  <2>2. ASSUME WakeSender!GiveUp(h), wake_recv' = wake_recv PROVE Inv'
    <3>1. h \in Senders
        BY Zenon, <1>0, <2>2 DEF WakeSender!GiveUp
    <3>7. SenderMove(h, "parked", "idle", 0, 0, 0, 0, 0)
        BY <2>0, <2>2, <3>1, HandleFacts DEF SenderMove
    <3>8. RecvSem(h, "idle", 0) /\ SendSem(h, "idle", 0)
        BY Zenon, <2>0, <2>2, <3>1, RecvSems, SendSems
    <3>. QED BY Zenon, <3>7, <3>8, SenderRows, SenderStep, <3>1
  <2>3. ASSUME WakeRecv!GiveUp(h), wake_sender' = wake_sender PROVE Inv'
    <3>1. h \in Receivers
        BY Zenon, <1>0, <2>3 DEF WakeRecv!GiveUp
    <3>7. ReceiverMove(h, "parked", "idle", 0, 0, 0, 0)
        BY <2>0, <2>3, <3>1, HandleFacts DEF ReceiverMove
    <3>8. RecvSem(h, "idle", 0) /\ SendSem(h, "idle", 0)
        BY Zenon, <2>0, <2>3, <3>1, RecvSems, SendSems
    <3>. QED BY Zenon, <3>7, <3>8, ReceiverRows, ReceiverStep, <3>1
  <2>. QED BY Zenon, <1>4, <2>2, <2>3 DEF WaitGiveUp
<1>. QED BY Zenon, <1>1, <1>2, <1>3, <1>4

-----------------------------------------------------------------------------
(* Everything else.                                                        *)

\* New handles.
LEMMA Clones ==
    ASSUME CardinalityFacts, ChannelConstants, Inv, NEW h \in Handles, NEW g \in Handles,
           CloneSend(h, g) \/ CloneRecv(h, g)
    PROVE  Inv'
<1>1. CASE CloneSend(h, g)
  <2>1. /\ h \in Senders /\ g \in Senders /\ pc[h] = "idle" /\ pc[g] = "unborn"
        /\ sender_num' = sender_num + 1 /\ pc' = [pc EXCEPT ![g] = "idle"]
        /\ UNCHANGED <<len, wake_recv, wake_sender, receiver_num, calls>>
      BY Zenon, <1>1 DEF CloneSend, Goto, sems
  <2>2. sender_num > 0
      BY Zenon, <2>1, Counted DEF Inv, SendersLeft, SenderLabels, Resting
  <2>7. SenderMove(g, "unborn", "idle", 0, 1, 0, 0, 0)
      BY <2>1, <2>2, HandleFacts DEF SenderMove
  <2>8. RecvSem(g, "idle", 0) /\ SendSem(g, "idle", 0)
      BY Zenon, <2>1, <2>2, RecvSems, SendSems
  <2>. QED BY Zenon, <2>7, <2>8, SenderRows, SenderStep, <2>1
<1>2. CASE CloneRecv(h, g)
  <2>1. /\ h \in Receivers /\ g \in Receivers /\ pc[h] = "idle" /\ pc[g] = "unborn"
        /\ receiver_num' = receiver_num + 1 /\ pc' = [pc EXCEPT ![g] = "idle"]
        /\ UNCHANGED <<len, wake_recv, wake_sender, sender_num, calls>>
      BY Zenon, <1>2 DEF CloneRecv, Goto, sems
  <2>2. receiver_num > 0
      BY Zenon, <2>1, Counted DEF Inv, ReceiversLeft, ReceiverLabels, Resting
  <2>7. ReceiverMove(g, "unborn", "idle", 0, 1, 0, 0)
      BY <2>1, <2>2, HandleFacts DEF ReceiverMove
  <2>8. RecvSem(g, "idle", 0) /\ SendSem(g, "idle", 0)
      BY Zenon, <2>1, <2>2, RecvSems, SendSems
  <2>. QED BY Zenon, <2>7, <2>8, ReceiverRows, ReceiverStep, <2>1
<1>. QED BY Zenon, <1>1, <1>2

\* Steps that move no handle.
LEMMA Still ==
    ASSUME ChannelConstants, Inv, UNCHANGED <<len, sender_num, receiver_num, pc, calls>>,
           SemOK(Receivers, wake_recv'), Units(wake_recv') = Units(wake_recv),
           wake_recv'.waiting = wake_recv.waiting,
           SemOK(Senders, wake_sender'), Units(wake_sender') = Units(wake_sender),
           wake_sender'.waiting = wake_sender.waiting
    PROVE  Inv'
<1>1. ChannelType' /\ RoleInv'
    BY Zenon DEF Inv, ChannelType, RoleInv, Parked
<1>2. \A T, L : At(T, L)' = At(T, L)
    BY Zenon DEF At
<1>3. /\ NSenders' = NSenders /\ NReceivers' = NReceivers /\ NPost' = NPost /\ NPush' = NPush
      /\ NTry' = NTry /\ NPop' = NPop /\ NWake' = NWake /\ WaitingSenders' = WaitingSenders
    BY Zenon, <1>2 DEF NSenders, NReceivers, NPost, NPush, NTry, NPop, NWake, WaitingSenders,
                SendersLeft, ReceiversLeft
<1>4. NumInv' /\ LimitInv'
    BY Zenon, <1>3 DEF Inv, NumInv, LimitInv
<1>5. Slack' = Slack /\ Room' = Room
    BY Zenon, <1>3 DEF Slack, Room
<1>6. UnitInv' /\ RoomInv'
    BY Zenon, <1>3, <1>5 DEF Inv, UnitInv, RoomInv
<1>. QED BY Zenon, <1>1, <1>4, <1>6 DEF Inv

\* A waker posts the unit of a wait that gave up again.
LEMMA Reposts ==
    ASSUME CardinalityFacts, ChannelConstants, Inv, Repost
    PROVE  Inv'
<1>1. UNCHANGED <<len, sender_num, receiver_num, pc, calls>>
    BY Zenon DEF Repost, nums
<1>2. CASE WakeSender!Repost /\ wake_recv' = wake_recv
    BY Zenon, <1>1, <1>2, WakeSenderOps, Still, Facts
<1>3. CASE WakeRecv!Repost /\ wake_sender' = wake_sender
    BY Zenon, <1>1, <1>3, WakeRecvOps, Still, Facts
<1>. QED BY Zenon, <1>2, <1>3 DEF Repost

\* Every step keeps the invariant.
LEMMA NextInv ==
    ASSUME CardinalityFacts, ChannelConstants, Inv, [Next]_vars
    PROVE  Inv'
<1>1. CASE \E h \in Handles : Step(h)
    BY Zenon, <1>1, SenderCalls, ReceiverCalls, Waits DEF Step
<1>2. CASE \E h, g \in Handles : CloneSend(h, g) \/ CloneRecv(h, g)
    BY Zenon, <1>2, Clones
<1>3. CASE Repost
    BY Zenon, <1>3, Reposts
<1>4. CASE UNCHANGED vars
  <2>1. UNCHANGED <<len, sender_num, receiver_num, pc, calls, wake_recv, wake_sender>>
      BY Zenon, <1>4 DEF vars
  <2>. QED BY Zenon, <2>1, Still, Facts
<1>. QED BY Zenon, <1>1, <1>2, <1>3, <1>4 DEF Next

-----------------------------------------------------------------------------
(* The beginning.                                                          *)

\* bounded() returns one handle of each side, an empty buffer and no units.
LEMMA InitInv ==
    ASSUME CardinalityFacts, ChannelConstants, Init
    PROVE  Inv
<1>1. /\ IsFiniteSet(Senders) /\ IsFiniteSet(Receivers) /\ Senders \cap Receivers = {}
      /\ FirstSender \in Senders /\ FirstReceiver \in Receivers
      /\ BufferLimit \in Nat /\ MaxCalls \in Nat /\ Handles = Senders \cup Receivers
    BY Zenon DEF ChannelConstants, Handles
<1>2. /\ len = 0 /\ sender_num = 1 /\ receiver_num = 1
      /\ pc \in [Handles -> {"idle", "unborn"}]
      /\ \A h \in Handles : pc[h] = "idle" <=> h \in {FirstSender, FirstReceiver}
      /\ calls \in 0 .. MaxCalls
    BY <1>1 DEF Init
<1>3. ASSUME NEW T, NEW s, s = [cnt |-> 0, waiting |-> {}, ghosts |-> 0, owed |-> 0]
      PROVE  SemOK(T, s) /\ Units(s) = 0 /\ s.waiting = {}
  <2>1. /\ s \in SemType(T) /\ Units(s) = 0 /\ s.waiting = {} /\ s.cnt = 0 /\ s.ghosts = 0
        /\ s.owed = 0
      BY <1>3 DEF SemType, Units
  <2>2. Cardinality(s.waiting) = 0
      BY Zenon, <2>1, CardEmpty
  <2>. QED BY <2>1, <2>2 DEF SemOK, Balanced
<1>4. /\ SemOK(Receivers, wake_recv) /\ Units(wake_recv) = 0 /\ wake_recv.waiting = {}
      /\ SemOK(Senders, wake_sender) /\ Units(wake_sender) = 0 /\ wake_sender.waiting = {}
    BY Zenon, <1>3 DEF Init, WakeRecv!New, WakeSender!New
<1>5. At(Senders, SendersLeft) = {FirstSender} /\ At(Receivers, ReceiversLeft) = {FirstReceiver}
    BY Zenon, <1>1, <1>2 DEF At, SendersLeft, ReceiversLeft, SenderLabels, ReceiverLabels, Resting
<1>6. NSenders = 1 /\ NReceivers = 1
    BY Zenon, <1>5, CardSingleton DEF NSenders, NReceivers
<1>7. \A T \in SUBSET Handles : \A L : "idle" \notin L /\ "unborn" \notin L => At(T, L) = {}
    BY Zenon, <1>2 DEF At
<1>8. NPost = 0 /\ NPush = 0 /\ NTry = 0 /\ NPop = 0 /\ NWake = 0 /\ WaitingSenders = {}
    BY Zenon, <1>1, <1>7, CardEmpty DEF NPost, NPush, NTry, NPop, NWake, WaitingSenders
<1>9. ChannelType
    BY Zenon, <1>2, <1>4 DEF ChannelType, Labels, Resting
<1>10. RoleInv
    BY Zenon, <1>1, <1>2, <1>4 DEF RoleInv, SenderLabels, ReceiverLabels, Resting, Parked
<1>11. NumInv
    BY Zenon, <1>1, <1>2, <1>6 DEF NumInv
<1>12. UnitInv
    BY <1>2, <1>4, <1>8 DEF UnitInv, Slack
<1>13. LimitInv
  <2>1. Cardinality(Senders) \in Nat /\ Cardinality(Senders) # 0
      BY Zenon, <1>1, CardEmpty, CardType
  <2>. QED BY <1>1, <1>2, <1>8, <2>1 DEF LimitInv
<1>14. RoomInv
    BY Zenon, <1>8 DEF RoomInv
<1>. QED BY Zenon, <1>9, <1>10, <1>11, <1>12, <1>13, <1>14 DEF Inv

-----------------------------------------------------------------------------
(* The theorems.                                                           *)

INSTANCE FiniteSetTheorems

\* The facts on finite sets that the lemmas above assume.
LEMMA CardinalityHolds == CardinalityFacts
<1>1. \A S : IsFiniteSet(S) => Cardinality(S) \in Nat
    BY Zenon, FS_CardinalityType
<1>2. \A n \in Nat : IsFiniteSet(1..n) /\ Cardinality(1..n) = n
    BY FS_Interval
<1>3. \A S, T : \A f \in Surjection(S, T) :
          IsFiniteSet(S) => IsFiniteSet(T) /\ Cardinality(T) <= Cardinality(S)
    BY Zenon, FS_Surjection
<1>4. \A S : \A T \in SUBSET S :
          IsFiniteSet(S) => /\ IsFiniteSet(T) /\ Cardinality(T) <= Cardinality(S)
                            /\ Cardinality(S) = Cardinality(T) => S = T
    BY Zenon, FS_Subset
<1>. QED
    BY ZenonT(40), <1>1, <1>2, <1>3, <1>4, FS_EmptySet, FS_Singleton, FS_AddElement,
       FS_RemoveElement
    DEF CardinalityFacts

\* The inductive invariant holds whatever the calls of the handles are.
THEOREM InvAlways ==
    ASSUME ChannelConstants
    PROVE  Spec => []Inv
<1>. USE CardinalityHolds
<1>1. Init => Inv
    BY Zenon, InitInv
<1>2. Inv /\ [Next]_vars => Inv'
    BY NextInv
<1>. QED BY <1>1, <1>2, PTL DEF Spec

\* Every variable keeps its type; in particular sender_num and receiver_num never go
\* below zero.
THEOREM TypeCorrect ==
    ASSUME ChannelConstants
    PROVE  Spec => []TypeOK
<1>. USE CardinalityHolds
<1>1. Inv => TypeOK
  <2>1. SUFFICES ASSUME Inv PROVE TypeOK
      BY Zenon
  <2>2. wake_recv \in SemType(Receivers) /\ wake_sender \in SemType(Senders)
      BY Zenon, <2>1, Facts DEF SemOK
  <2>3. WakeRecv!TypeOK /\ WakeSender!TypeOK
      BY Zenon, <2>2 DEF WakeRecv!TypeOK, WakeSender!TypeOK, SemType
  <2>. QED BY <2>1, <2>3, Facts DEF TypeOK
<1>. QED BY <1>1, InvAlways, PTL

\* recv and try_recv never reach their unreachable!: a receiver that has taken a unit
\* of wake_recv pops a message, or the last sender has gone.
THEOREM UnitHasMessageAlways ==
    ASSUME ChannelConstants
    PROVE  Spec => []UnitHasMessage
<1>. USE CardinalityHolds
<1>1. Inv => UnitHasMessage
    BY Facts DEF UnitHasMessage, SenderLabels, ReceiverLabels, Resting
<1>. QED BY <1>1, InvAlways, PTL

\* The buffer holds at most one message more than its limit for each sender but one.
THEOREM LimitBoundAlways ==
    ASSUME ChannelConstants
    PROVE  Spec => []LimitBound
<1>. USE CardinalityHolds
<1>1. Inv => LimitBound
  <2>1. SUFFICES ASSUME Inv PROVE LimitBound
      BY Zenon
  <2>2. IsFiniteSet(At(Senders, {"push"})) /\ Cardinality(Senders) \in Nat
      BY Zenon, <2>1, CardSubset, CardType, Facts DEF At
  <2>3. NPush \in Nat
      BY Zenon, <2>2, CardType DEF NPush
  <2>4. PICK a \in Nat, b \in Nat, c \in Nat : a = len /\ b = NPush /\ c = Cardinality(Senders)
      BY Zenon, <2>1, <2>2, <2>3, Facts
  <2>5. a + b <= BufferLimit + c - 1
      BY Zenon, <2>1, <2>4 DEF Inv, LimitInv
  <2>6. a <= BufferLimit + c - 1
      BY <2>1, <2>4, <2>5, Facts
  <2>. QED BY <2>4, <2>6 DEF LimitBound
<1>. QED BY <1>1, InvAlways, PTL

\* A semaphore on which somebody waits and that owes nothing has no unit.
LEMMA NoUnit ==
    ASSUME CardinalityFacts, NEW T, IsFiniteSet(T), NEW s, SemOK(T, s), s.waiting # {}, s.owed = 0
    PROVE  Units(s) = 0
<1>1. /\ s.cnt \in Int /\ s.ghosts \in Nat /\ Cardinality(s.waiting) \in Nat
      /\ IsFiniteSet(s.waiting)
    BY Zenon, SemFields
<1>2. Cardinality(s.waiting) # 0
    BY Zenon, <1>1, CardEmpty
<1>3. Cardinality(s.waiting) + s.ghosts - 0 = IF s.cnt < 0 THEN -s.cnt ELSE 0
    BY Zenon DEF SemOK, Balanced
<1>4. s.cnt < 0
    BY <1>1, <1>2, <1>3
<1>. QED BY <1>1, <1>4 DEF Units

\* No lost wake-up: when nothing is left to run, a sender is parked only while the
\* buffer is full, or because the last receiver has gone, and no message waits beside
\* a parked receiver, whatever timeouts and cancellations happened before.
THEOREM NobodyStuckAlways ==
    ASSUME ChannelConstants
    PROVE  Spec => []NobodyStuck
<1>. USE CardinalityHolds
<1>1. Inv => NobodyStuck
  <2>1. SUFFICES ASSUME Inv, Quiet
                 PROVE  /\ Parked(Senders) # {} => len >= BufferLimit \/ receiver_num = 0
                        /\ Parked(Receivers) # {} => len = 0
      BY Zenon DEF NobodyStuck
  <2>2. /\ At(Senders, {"check", "push"}) = {} /\ At(Senders, {"post"}) = {}
        /\ At(Receivers, {"pop"}) = {} /\ At(Receivers, {"wake"}) = {}
      BY Zenon, <2>1 DEF Quiet, At, Resting, Handles
  <2>3. NTry = 0 /\ NPost = 0 /\ NPop = 0 /\ NWake = 0
      BY Zenon, <2>2, CardEmpty DEF NTry, NPost, NPop, NWake
  <2>4. wake_sender.waiting = Parked(Senders) /\ wake_recv.waiting = Parked(Receivers)
      BY Zenon, <2>1 DEF Inv, RoleInv
  <2>5. ASSUME Parked(Senders) # {}, receiver_num # 0 PROVE len >= BufferLimit
    <3>1. Units(wake_sender) = 0
        BY Zenon, <2>1, <2>4, <2>5, NoUnit, Facts DEF Quiet
    <3>2. WaitingSenders # {}
        BY Zenon, <2>5 DEF WaitingSenders, At, Parked
    <3>3. receiver_num > 0
        BY <2>1, <2>5, Facts
    <3>4. Room >= BufferLimit
        BY Zenon, <2>1, <3>2, <3>3 DEF Inv, RoomInv
    <3>5. Room = len
        BY <2>1, <2>3, <3>1, Facts DEF Room
    <3>. QED BY Zenon, <3>4, <3>5
  <2>6. ASSUME Parked(Receivers) # {} PROVE len = 0
    <3>1. Units(wake_recv) = 0
        BY ZenonT(40), <2>1, <2>4, <2>6, NoUnit, Facts DEF Quiet
    <3>2. receiver_num > 0
        BY Zenon, <2>1, <2>6, Counted DEF Inv, Parked, ReceiversLeft, ReceiverLabels, Resting
    <3>3. Slack >= 0
        BY Zenon, <2>1, <3>2 DEF Inv, UnitInv
    <3>4. PICK a \in Nat : a = len
        BY Zenon, <2>1, Facts
    <3>5. Slack = 0 - a
        BY <2>3, <3>1, <3>4 DEF Slack
    <3>. QED BY <3>3, <3>4, <3>5
  <2>. QED BY <2>5, <2>6
<1>. QED BY <1>1, InvAlways, PTL
==============================================================================
