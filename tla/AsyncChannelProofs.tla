------------------------ MODULE AsyncChannelProofs ------------------------
(***************************************************************************)
(* The wakers of async_channel.rs, for any number of senders and receivers *)
(* and any capacity, and whichever of them are dropped while they wait: no *)
(* wake-up is lost but those spent on a dropped task, and what the tasks   *)
(* do to the queue are the steps of a bounded FIFO channel.                *)
(***************************************************************************)
EXTENDS AsyncChannel, FiniteSetTheorems, SequenceTheorems, TLAPS

-----------------------------------------------------------------------------
(* Counting.                                                               *)

\* A subset of a finite set has no more elements.
LEMMA CardMono ==
  ASSUME NEW A, NEW B, IsFiniteSet(B), A \subseteq B
  PROVE  /\ Cardinality(A) \in Nat
         /\ Cardinality(B) \in Nat
         /\ Cardinality(A) <= Cardinality(B)
<1>1. IsFiniteSet(A) /\ Cardinality(A) <= Cardinality(B)
  BY FS_Subset
<1> QED
  BY <1>1, FS_CardinalityType

\* A set that gains an element and loses none grows.
LEMMA CardGain ==
  ASSUME NEW A, NEW B, NEW x, IsFiniteSet(B), A \subseteq B, x \in B, x \notin A
  PROVE  /\ Cardinality(A) \in Nat
         /\ Cardinality(B) \in Nat
         /\ Cardinality(A) + 1 <= Cardinality(B)
<1>1. IsFiniteSet(A)
  BY FS_Subset
<1>2. A \cup {x} \subseteq B
  OBVIOUS
<1>3. Cardinality(A \cup {x}) = Cardinality(A) + 1
  BY <1>1, FS_AddElement
<1>4. Cardinality(A \cup {x}) <= Cardinality(B)
  BY <1>2, CardMono
<1> QED
  BY <1>1, <1>3, <1>4, FS_CardinalityType

\* A set that loses at most one element shrinks by at most one.
LEMMA CardLose ==
  ASSUME NEW A, NEW B, NEW x, IsFiniteSet(A), IsFiniteSet(B), A \ {x} \subseteq B
  PROVE  /\ Cardinality(A) \in Nat
         /\ Cardinality(B) \in Nat
         /\ Cardinality(A) - 1 <= Cardinality(B)
<1>1. Cardinality(A \ {x}) <= Cardinality(B)
  BY CardMono
<1>2. Cardinality(A \ {x}) = IF x \in A THEN Cardinality(A) - 1 ELSE Cardinality(A)
  BY FS_RemoveElement
<1>3. Cardinality(A) \in Nat /\ Cardinality(B) \in Nat
  BY FS_CardinalityType
<1> QED
  BY <1>1, <1>2, <1>3

\* The tasks of either kind that try, or that notify, are finitely many, before
\* a step and after it.
LEMMA FiniteCounts ==
  /\ IsFiniteSet(ReachedOf(Senders)) /\ IsFiniteSet(ReachedOf(Senders)')
  /\ IsFiniteSet(ReachedOf(Receivers)) /\ IsFiniteSet(ReachedOf(Receivers)')
  /\ IsFiniteSet(NotifyingOf(Senders)) /\ IsFiniteSet(NotifyingOf(Senders)')
  /\ IsFiniteSet(NotifyingOf(Receivers)) /\ IsFiniteSet(NotifyingOf(Receivers)')
<1>1. /\ ReachedOf(Senders) \subseteq Senders /\ ReachedOf(Senders)' \subseteq Senders
      /\ ReachedOf(Receivers) \subseteq Receivers /\ ReachedOf(Receivers)' \subseteq Receivers
      /\ NotifyingOf(Senders) \subseteq Senders /\ NotifyingOf(Senders)' \subseteq Senders
      /\ NotifyingOf(Receivers) \subseteq Receivers /\ NotifyingOf(Receivers)' \subseteq Receivers
  BY DEF ReachedOf, NotifyingOf
<1> QED
  BY <1>1, FS_Subset, ChannelAssumption

-----------------------------------------------------------------------------
(* Types.                                                                  *)

\* The initial state has the types.
LEMMA InitTypeOK == Init => TypeOK
<1> SUFFICES ASSUME Init PROVE TypeOK
  OBVIOUS
<1>1. Cardinality(Senders) \in Nat
  BY FS_CardinalityType, ChannelAssumption
<1>2. queue \in Seq(Senders \X Nat) /\ Len(queue) = 0
  BY DEF Init
<1> QED
  BY <1>1, <1>2, ChannelAssumption DEF Init, TypeOK, Labels, Tasks

\* Appending to a channel with room, or taking its head, keeps its type.
LEMMA QueueSteps ==
  ASSUME TypeOK
  PROVE  /\ \A s \in Senders : ~is_full =>
              LET q == Append(queue, <<s, next[s] + 1>>)
              IN  /\ q \in Seq(Senders \X Nat)
                  /\ Len(q) = Len(queue) + 1
                  /\ Len(q) <= Cap
         /\ ~is_empty => /\ Tail(queue) \in Seq(Senders \X Nat)
                         /\ Len(Tail(queue)) = Len(queue) - 1
         /\ Len(queue) \in Nat
         /\ is_empty <=> Len(queue) = 0
<1> USE DEF TypeOK
<1>1. Len(queue) \in Nat
  BY LenProperties
<1>2. ASSUME NEW s \in Senders, ~is_full
      PROVE  LET q == Append(queue, <<s, next[s] + 1>>)
             IN  q \in Seq(Senders \X Nat) /\ Len(q) = Len(queue) + 1 /\ Len(q) <= Cap
  <2>1. <<s, next[s] + 1>> \in Senders \X Nat
    OBVIOUS
  <2> QED
    BY <1>1, <1>2, <2>1, AppendProperties, ChannelAssumption DEF is_full
<1>3. ASSUME ~is_empty
      PROVE  /\ Tail(queue) \in Seq(Senders \X Nat)
             /\ Len(Tail(queue)) = Len(queue) - 1
  BY <1>3, HeadTailProperties DEF is_empty
<1>4. is_empty <=> Len(queue) = 0
  BY EmptySeq DEF is_empty
<1> QED
  BY <1>1, <1>2, <1>3, <1>4

\* notify takes and calls the waker of one task of the set, when one is armed.
LEMMA NotifyEffect ==
  ASSUME TypeOK, NEW set, set \subseteq Tasks, notify(set)
  PROVE  /\ wakers' \in [Tasks -> {"absent", "armed", "fired"}]
         /\ token' \in [Tasks -> BOOLEAN]
         /\ \/ \E t \in set : /\ wakers[t] = "armed"
                             /\ wakers' = [wakers EXCEPT ![t] = "fired"]
                             /\ token' = [token EXCEPT ![t] = TRUE]
            \/ /\ \A t \in set : wakers[t] # "armed"
               /\ wakers' = wakers /\ token' = token
<1>1. CASE /\ Armed(set) = {}
           /\ UNCHANGED <<wakers, token>>
  BY <1>1 DEF Armed, TypeOK
<1>2. ASSUME NEW t \in Armed(set),
             wakers' = [wakers EXCEPT ![t] = "fired"],
             token' = [token EXCEPT ![t] = TRUE]
      PROVE  /\ wakers' \in [Tasks -> {"absent", "armed", "fired"}]
             /\ token' \in [Tasks -> BOOLEAN]
             /\ t \in set /\ wakers[t] = "armed"
  BY <1>2 DEF Armed, TypeOK
<1> QED
  BY <1>1, <1>2 DEF notify

\* Every step keeps the types.
LEMMA NextTypeOK == TypeOK /\ [Next]_vars => TypeOK'
<1> SUFFICES ASSUME TypeOK, [Next]_vars PROVE TypeOK'
  OBVIOUS
<1> USE DEF Tasks, Goto
<1>1. CASE UNCHANGED vars
  BY <1>1 DEF vars, TypeOK
<1>2. ASSUME NEW t \in Tasks, LeftoverWake(t) \/ Poll(t) PROVE TypeOK'
  BY <1>2 DEF TypeOK, LeftoverWake, Poll, Labels
<1>3. ASSUME NEW s \in Senders, StartSend(s) \/ SendRemove(s) \/ SendInsert(s) \/ SendCheck(s)
      PROVE  TypeOK'
  BY <1>3 DEF TypeOK, StartSend, SendRemove, SendInsert, SendCheck, Labels, insert, remove
<1>4. ASSUME NEW s \in Senders, TrySend(s) PROVE TypeOK'
  <2>1. queue' \in Seq(Senders \X Nat) /\ Len(queue') <= Cap
    BY <1>4, QueueSteps DEF TypeOK, TrySend
  <2> QED
    BY <1>4, <2>1 DEF TypeOK, TrySend, Labels
<1>5. ASSUME NEW s \in Senders, SendNotify(s) PROVE TypeOK'
  <2>1. /\ wakers' \in [Tasks -> {"absent", "armed", "fired"}]
        /\ token' \in [Tasks -> BOOLEAN]
    BY <1>5, NotifyEffect, Receivers \subseteq Tasks DEF SendNotify
  <2>2. /\ pc' = [pc EXCEPT ![s] = "idle"]
        /\ next' = [next EXCEPT ![s] = @ + 1]
        /\ queue' = queue /\ sender_count' = sender_count
    BY <1>5 DEF SendNotify
  <2> QED
    BY <2>1, <2>2 DEF TypeOK, Labels
<1>6. ASSUME NEW s \in Senders, DropSender(s) PROVE TypeOK'
  BY <1>6 DEF TypeOK, DropSender, disconnect, Labels
<1>7. ASSUME NEW r \in Receivers, StartRecv(r) \/ RecvRemove(r) \/ RecvInsert(r) \/ RecvCheck(r)
      PROVE  TypeOK'
  BY <1>7 DEF TypeOK, StartRecv, RecvRemove, RecvInsert, RecvCheck, Labels, insert, remove
<1>8. ASSUME NEW r \in Receivers, TryRecv(r) \/ Drain(r) PROVE TypeOK'
  <2>1. queue' \in Seq(Senders \X Nat) /\ Len(queue') <= Cap
    <3>1. CASE ~is_empty /\ queue' = Tail(queue)
      BY <3>1, QueueSteps, ChannelAssumption DEF TypeOK
    <3>2. CASE queue' = queue
      BY <3>2 DEF TypeOK
    <3> QED
      BY <1>8, <3>1, <3>2 DEF TryRecv, Drain
  <2> QED
    BY <1>8, <2>1 DEF TypeOK, TryRecv, Drain, Labels
<1>9. ASSUME NEW r \in Receivers, RecvNotify(r) PROVE TypeOK'
  <2>1. /\ wakers' \in [Tasks -> {"absent", "armed", "fired"}]
        /\ token' \in [Tasks -> BOOLEAN]
    BY <1>9, NotifyEffect, Senders \subseteq Tasks DEF RecvNotify
  <2> QED
    BY <1>9, <2>1 DEF TypeOK, RecvNotify, Labels
<1>10. ASSUME NEW t \in Tasks, Cancel(t) PROVE TypeOK'
  <2>1. /\ pc' = [pc EXCEPT ![t] = "dropped"]
        /\ UNCHANGED <<queue, wakers, token, next>>
        /\ sender_count' = sender_count - 1 \/ sender_count' = sender_count - 0
    BY <1>10 DEF Cancel, cancel
  <2> QED
    BY <2>1 DEF TypeOK, Labels
<1> QED
  BY <1>1, <1>2, <1>3, <1>4, <1>5, <1>6, <1>7, <1>8, <1>9, <1>10
  DEF Next, SenderStep, ReceiverStep, Tasks

\* Every variable keeps its type and the channel never exceeds its capacity,
\* whatever order the futures of async_channel.rs are polled in.
THEOREM TypeCorrect == Safety => []TypeOK
  BY InitTypeOK, NextTypeOK, PTL DEF Safety

-----------------------------------------------------------------------------
(* The wakers of waiting tasks.                                            *)

\* No task waits at first.
LEMMA InitWakersInPlace == Init => WakersInPlace
  BY DEF Init, WakersInPlace

\* A task enters the wait only after inserting its waker, and leaves the set
\* only by its own remove or by a notify that calls the waker.
LEMMA NextWakersInPlace == TypeOK /\ WakersInPlace /\ [Next]_vars => WakersInPlace'
<1> SUFFICES ASSUME TypeOK, WakersInPlace, [Next]_vars PROVE WakersInPlace'
  OBVIOUS
<1> USE DEF Tasks, Goto, WakersInPlace
<1>1. CASE UNCHANGED vars
  BY <1>1 DEF vars
<1>2. ASSUME NEW t \in Tasks, LeftoverWake(t) \/ Poll(t) \/ Cancel(t) PROVE WakersInPlace'
  <2>1. CASE LeftoverWake(t)
    BY <2>1 DEF TypeOK, LeftoverWake
  <2>2. CASE Poll(t)
    BY <2>2 DEF TypeOK, Poll
  <2>3. CASE Cancel(t)
    BY <2>3 DEF TypeOK, Cancel, cancel
  <2> QED
    BY <1>2, <2>1, <2>2, <2>3
<1>3. ASSUME NEW s \in Senders,
             \/ StartSend(s) \/ SendRemove(s) \/ TrySend(s)
             \/ SendInsert(s) \/ SendCheck(s)
      PROVE  WakersInPlace'
  <2>1. CASE StartSend(s)
    BY <2>1 DEF TypeOK, StartSend
  <2>2. CASE SendRemove(s)
    BY <2>2 DEF TypeOK, SendRemove, remove
  <2>3. CASE TrySend(s)
    BY <2>3 DEF TypeOK, TrySend
  <2>4. CASE SendInsert(s)
    BY <2>4 DEF TypeOK, SendInsert, insert
  <2>5. CASE SendCheck(s)
    BY <2>5 DEF TypeOK, SendCheck
  <2> QED
    BY <1>3, <2>1, <2>2, <2>3, <2>4, <2>5
<1>4. ASSUME NEW s \in Senders, SendNotify(s) PROVE WakersInPlace'
  <2>1. /\ pc[s] = "notify"
        /\ pc' = [pc EXCEPT ![s] = "idle"]
    BY <1>4 DEF SendNotify
  <2>2. \/ wakers' = wakers /\ token' = token
        \/ \E t \in Receivers : /\ wakers[t] = "armed"
                                /\ wakers' = [wakers EXCEPT ![t] = "fired"]
                                /\ token' = [token EXCEPT ![t] = TRUE]
    BY <1>4, NotifyEffect, Receivers \subseteq Tasks DEF SendNotify
  <2> QED
    BY <2>1, <2>2 DEF TypeOK
<1>5. ASSUME NEW s \in Senders, DropSender(s) PROVE WakersInPlace'
  BY <1>5 DEF TypeOK, DropSender, disconnect
<1>6. ASSUME NEW r \in Receivers,
             \/ StartRecv(r) \/ RecvRemove(r) \/ TryRecv(r)
             \/ RecvInsert(r) \/ RecvCheck(r) \/ Drain(r)
      PROVE  WakersInPlace'
  <2>1. CASE StartRecv(r)
    BY <2>1 DEF TypeOK, StartRecv
  <2>2. CASE RecvRemove(r)
    BY <2>2 DEF TypeOK, RecvRemove, remove
  <2>3. CASE TryRecv(r)
    BY <2>3 DEF TypeOK, TryRecv
  <2>4. CASE RecvInsert(r)
    BY <2>4 DEF TypeOK, RecvInsert, insert
  <2>5. CASE RecvCheck(r)
    BY <2>5 DEF TypeOK, RecvCheck
  <2>6. CASE Drain(r)
    BY <2>6 DEF TypeOK, Drain
  <2> QED
    BY <1>6, <2>1, <2>2, <2>3, <2>4, <2>5, <2>6
<1>7. ASSUME NEW r \in Receivers, RecvNotify(r) PROVE WakersInPlace'
  <2>1. /\ pc[r] = "notify"
        /\ pc' = [pc EXCEPT ![r] = IF r \in Drainers THEN "drain" ELSE "idle"]
    BY <1>7 DEF RecvNotify
  <2>2. \/ wakers' = wakers /\ token' = token
        \/ \E t \in Senders : /\ wakers[t] = "armed"
                              /\ wakers' = [wakers EXCEPT ![t] = "fired"]
                              /\ token' = [token EXCEPT ![t] = TRUE]
    BY <1>7, NotifyEffect, Senders \subseteq Tasks DEF RecvNotify
  <2> QED
    BY <2>1, <2>2 DEF TypeOK
<1> QED
  BY <1>1, <1>2, <1>3, <1>4, <1>5, <1>6, <1>7 DEF Next, SenderStep, ReceiverStep

\* A task that sleeps can be found by a notify: poll_recv and SendFuture::poll
\* return Pending only with the task's waker in its set, or called already.
THEOREM SleepersAreArmed == Safety => []SleeperIsArmed
<1>1. WakersInPlace => SleeperIsArmed
  BY DEF WakersInPlace, SleeperIsArmed, Asleep
<1> QED
  BY <1>1, InitTypeOK, NextTypeOK, InitWakersInPlace, NextWakersInPlace, PTL DEF Safety

-----------------------------------------------------------------------------
(* No lost wake-up on the send side.                                       *)

\* No sender sleeps at first.
LEMMA InitNoLostSendWakeup == Init => NoLostSendWakeup
  BY DEF Init, NoLostSendWakeup, Asleep, Tasks

\* A step that frees no slot, stops no sender from trying and no receiver from
\* notifying, and puts no sender to sleep, loses no wake-up.
LEMMA SendQuiet ==
  ASSUME NoLostSendWakeup, TypeOK, TypeOK',
         \A u \in Senders : Asleep(u)' => Asleep(u),
         Len(queue') >= Len(queue),
         ReachedOf(Senders) \subseteq ReachedOf(Senders)',
         NotifyingOf(Receivers) \subseteq NotifyingOf(Receivers)'
  PROVE  NoLostSendWakeup'
<1>1. /\ Cardinality(ReachedOf(Senders)) \in Nat
      /\ Cardinality(ReachedOf(Senders)') \in Nat
      /\ Cardinality(ReachedOf(Senders)) <= Cardinality(ReachedOf(Senders)')
      /\ Cardinality(NotifyingOf(Receivers)) \in Nat
      /\ Cardinality(NotifyingOf(Receivers)') \in Nat
      /\ Cardinality(NotifyingOf(Receivers)) <= Cardinality(NotifyingOf(Receivers)')
  BY FiniteCounts, CardMono
<1>2. Len(queue) \in Nat /\ Len(queue') \in Nat
  BY LenProperties DEF TypeOK
<1> QED
  BY <1>1, <1>2, ChannelAssumption DEF NoLostSendWakeup

\* A step after which the channel is full loses no wake-up of a sender.
LEMMA SendFull ==
  ASSUME TypeOK', Len(queue') = Cap
  PROVE  NoLostSendWakeup'
<1>1. /\ Cardinality(ReachedOf(Senders)') \in Nat
      /\ Cardinality(NotifyingOf(Receivers)') \in Nat
  BY FiniteCounts, FS_CardinalityType
<1> QED
  BY <1>1, ChannelAssumption DEF NoLostSendWakeup

\* While no receiver drains, every step keeps one trying sender or notifying
\* receiver for each free slot a sleeping sender could use.
LEMMA NextNoLostSendWakeup ==
  ASSUME Drainers = {}, TypeOK, TypeOK', WakersInPlace, NoLostSendWakeup, [Next]_vars
  PROVE  NoLostSendWakeup'
<1> USE DEF Tasks, Goto
<1> DEFINE T == ReachedOf(Senders)
           N == NotifyingOf(Receivers)
<1>0. Senders \cap Receivers = {}
  BY ChannelAssumption
<1>1. CASE UNCHANGED vars
  BY <1>1 DEF vars, NoLostSendWakeup, Asleep, ReachedOf, Trying, Spent, NotifyingOf
<1>2. ASSUME NEW t \in Tasks, LeftoverWake(t) \/ Poll(t) \/ Cancel(t) PROVE NoLostSendWakeup'
  <2>1. /\ \A u \in Senders : Asleep(u)' => Asleep(u)
        /\ queue' = queue
        /\ T \subseteq T'
        /\ N \subseteq N'
    BY <1>2 DEF TypeOK, WakersInPlace, LeftoverWake, Poll, Cancel, cancel,
                Asleep, ReachedOf, Trying, Spent, NotifyingOf
  <2> QED
    BY <2>1, SendQuiet, LenProperties DEF TypeOK
<1>3. ASSUME NEW s \in Senders, StartSend(s) \/ SendRemove(s) \/ SendInsert(s)
      PROVE  NoLostSendWakeup'
  <2>1. /\ \A u \in Senders : Asleep(u)' => Asleep(u)
        /\ queue' = queue
        /\ T \subseteq T'
        /\ N \subseteq N'
    BY <1>0, <1>3
    DEF TypeOK, StartSend, SendRemove, SendInsert, insert, remove,
        Asleep, ReachedOf, Trying, Spent, NotifyingOf
  <2> QED
    BY <2>1, SendQuiet, LenProperties DEF TypeOK
<1>4. ASSUME NEW s \in Senders, TrySend(s) PROVE NoLostSendWakeup'
  <2>1. CASE is_full
    <3>1. Len(queue') = Cap
      BY <1>4, <2>1 DEF TrySend, is_full
    <3> QED
      BY <3>1, SendFull
  <2>2. CASE ~is_full
    <3>1. /\ \A u \in Senders : Asleep(u)' => Asleep(u)
          /\ T \ {s} \subseteq T'
          /\ N \subseteq N'
      BY <1>0, <1>4, <2>2 DEF TypeOK, TrySend, Asleep, ReachedOf, Trying, Spent, NotifyingOf
    <3>2. Len(queue) \in Nat /\ Len(queue') = Len(queue) + 1
      BY <1>4, <2>2, QueueSteps DEF TrySend
    <3>3. /\ Cardinality(T) \in Nat /\ Cardinality(T') \in Nat
          /\ Cardinality(T) - 1 <= Cardinality(T')
      BY <3>1, FiniteCounts, CardLose
    <3>4. /\ Cardinality(N) \in Nat /\ Cardinality(N') \in Nat
          /\ Cardinality(N) <= Cardinality(N')
      BY <3>1, FiniteCounts, CardMono
    <3> QED
      BY <3>1, <3>2, <3>3, <3>4, ChannelAssumption DEF NoLostSendWakeup
  <2> QED
    BY <2>1, <2>2
<1>5. ASSUME NEW s \in Senders, SendNotify(s) PROVE NoLostSendWakeup'
  <2>1. /\ pc[s] = "notify" /\ pc' = [pc EXCEPT ![s] = "idle"]
        /\ queue' = queue
    BY <1>5 DEF SendNotify
  <2>2. \A u \in Senders : wakers'[u] = wakers[u] /\ token'[u] = token[u]
    <3>1. \/ wakers' = wakers /\ token' = token
          \/ \E t \in Receivers : /\ wakers' = [wakers EXCEPT ![t] = "fired"]
                                  /\ token' = [token EXCEPT ![t] = TRUE]
      BY <1>5, NotifyEffect, Receivers \subseteq Tasks DEF SendNotify
    <3> QED
      BY <1>0, <3>1 DEF TypeOK
  <2>3. /\ \A u \in Senders : Asleep(u)' => Asleep(u)
        /\ T \subseteq T'
        /\ N \subseteq N'
    BY <1>0, <2>1, <2>2 DEF TypeOK, Asleep, ReachedOf, Trying, Spent, NotifyingOf
  <2> QED
    BY <2>1, <2>3, SendQuiet, LenProperties DEF TypeOK
<1>6. ASSUME NEW s \in Senders, SendCheck(s) PROVE NoLostSendWakeup'
  <2>1. CASE is_full
    <3>1. Len(queue') = Cap
      BY <1>6, <2>1 DEF SendCheck, is_full
    <3> QED
      BY <3>1, SendFull
  <2>2. CASE ~is_full
    <3>1. /\ \A u \in Senders : Asleep(u)' => Asleep(u)
          /\ queue' = queue
          /\ T \subseteq T'
          /\ N \subseteq N'
      BY <1>0, <1>6, <2>2 DEF TypeOK, SendCheck, Asleep, ReachedOf, Trying, Spent, NotifyingOf
    <3> QED
      BY <3>1, SendQuiet, LenProperties DEF TypeOK
  <2> QED
    BY <2>1, <2>2
<1>7. ASSUME NEW s \in Senders, DropSender(s) PROVE NoLostSendWakeup'
  <2>1. /\ \A u \in Senders : Asleep(u)' => Asleep(u)
        /\ queue' = queue
        /\ T \subseteq T'
        /\ N \subseteq N'
    BY <1>0, <1>7 DEF TypeOK, DropSender, disconnect, Asleep, ReachedOf, Trying, Spent, NotifyingOf
  <2> QED
    BY <2>1, SendQuiet, LenProperties DEF TypeOK
<1>8. ASSUME NEW r \in Receivers,
             StartRecv(r) \/ RecvRemove(r) \/ RecvInsert(r) \/ RecvCheck(r)
      PROVE  NoLostSendWakeup'
  <2>1. /\ \A u \in Senders : Asleep(u)' => Asleep(u)
        /\ queue' = queue
        /\ T \subseteq T'
        /\ N \subseteq N'
    BY <1>0, <1>8
    DEF TypeOK, StartRecv, RecvRemove, RecvInsert, RecvCheck, insert, remove,
        Asleep, ReachedOf, Trying, Spent, NotifyingOf
  <2> QED
    BY <2>1, SendQuiet, LenProperties DEF TypeOK
<1>9. ASSUME NEW r \in Receivers, TryRecv(r) PROVE NoLostSendWakeup'
  <2>1. /\ \A u \in Senders : Asleep(u)' => Asleep(u)
        /\ T \subseteq T'
        /\ N \subseteq N'
    BY <1>0, <1>9 DEF TypeOK, TryRecv, Asleep, ReachedOf, Trying, Spent, NotifyingOf
  <2>2. CASE is_empty
    BY <1>9, <2>1, <2>2, SendQuiet, LenProperties DEF TypeOK, TryRecv
  <2>3. CASE ~is_empty
    <3>1. r \in N' /\ r \notin N
      BY <1>9, <2>3 DEF TypeOK, TryRecv, NotifyingOf
    <3>2. Len(queue) \in Nat /\ Len(queue') = Len(queue) - 1
      BY <1>9, <2>3, QueueSteps DEF TryRecv
    <3>3. /\ Cardinality(T) \in Nat /\ Cardinality(T') \in Nat
          /\ Cardinality(T) <= Cardinality(T')
      BY <2>1, FiniteCounts, CardMono
    <3>4. /\ Cardinality(N) \in Nat /\ Cardinality(N') \in Nat
          /\ Cardinality(N) + 1 <= Cardinality(N')
      BY <2>1, <3>1, FiniteCounts, CardGain
    <3> QED
      BY <2>1, <3>2, <3>3, <3>4, ChannelAssumption DEF NoLostSendWakeup
  <2> QED
    BY <2>2, <2>3
<1>10. ASSUME NEW r \in Receivers, RecvNotify(r) PROVE NoLostSendWakeup'
  <2>1. /\ pc[r] = "notify" /\ pc' = [pc EXCEPT ![r] = "idle"]
        /\ queue' = queue /\ Len(queue) \in Nat
    BY <1>10, LenProperties DEF RecvNotify, TypeOK
  <2>2. N \ {r} \subseteq N'
    BY <2>1 DEF TypeOK, NotifyingOf
  <2>3. ASSUME NEW t \in Senders, wakers[t] = "armed",
               wakers' = [wakers EXCEPT ![t] = "fired"],
               token' = [token EXCEPT ![t] = TRUE]
        PROVE  NoLostSendWakeup'
    <3>1. pc[t] \in {"check", "remove", "parked", "dropped"}
      BY <2>3 DEF WakersInPlace
    <3>2. /\ \A u \in Senders : Asleep(u)' => Asleep(u)
          /\ T \subseteq T' /\ t \in T' /\ t \notin T
      BY <1>0, <2>1, <2>3, <3>1 DEF TypeOK, Asleep, ReachedOf, Trying, Spent
    <3>3. /\ Cardinality(T) \in Nat /\ Cardinality(T') \in Nat
          /\ Cardinality(T) + 1 <= Cardinality(T')
      BY <3>2, FiniteCounts, CardGain
    <3>4. /\ Cardinality(N) \in Nat /\ Cardinality(N') \in Nat
          /\ Cardinality(N) - 1 <= Cardinality(N')
      BY <2>2, FiniteCounts, CardLose
    <3> QED
      BY <2>1, <3>2, <3>3, <3>4, ChannelAssumption DEF NoLostSendWakeup
  <2>4. ASSUME \A t \in Senders : wakers[t] # "armed",
               wakers' = wakers, token' = token
        PROVE  NoLostSendWakeup'
    <3>1. \A u \in Senders : ~Asleep(u)'
      BY <1>0, <2>1, <2>4 DEF TypeOK, WakersInPlace, Asleep
    <3> QED
      BY <3>1 DEF NoLostSendWakeup
  <2> QED
    BY <1>10, <2>3, <2>4, NotifyEffect, Senders \subseteq Tasks DEF RecvNotify
<1>11. ASSUME NEW r \in Receivers, Drain(r) PROVE NoLostSendWakeup'
  BY <1>11 DEF Drain, WakersInPlace
<1> QED
  BY <1>1, <1>2, <1>3, <1>4, <1>5, <1>6, <1>7, <1>8, <1>9, <1>10, <1>11
  DEF Next, SenderStep, ReceiverStep

-----------------------------------------------------------------------------
(* No lost wake-up on the receive side.                                    *)

\* No receiver sleeps at first.
LEMMA InitNoLostRecvWakeup == Init => NoLostRecvWakeup
  BY DEF Init, NoLostRecvWakeup, Asleep, Tasks

\* A step that adds no message, stops no receiver from trying and no sender from
\* notifying, and puts no receiver to sleep, loses no wake-up.
LEMMA RecvQuiet ==
  ASSUME NoLostRecvWakeup, TypeOK, TypeOK',
         \A u \in Receivers : Asleep(u)' => Asleep(u),
         Len(queue') <= Len(queue),
         ReachedOf(Receivers) \subseteq ReachedOf(Receivers)',
         NotifyingOf(Senders) \subseteq NotifyingOf(Senders)'
  PROVE  NoLostRecvWakeup'
<1>1. /\ Cardinality(ReachedOf(Receivers)) \in Nat
      /\ Cardinality(ReachedOf(Receivers)') \in Nat
      /\ Cardinality(ReachedOf(Receivers)) <= Cardinality(ReachedOf(Receivers)')
      /\ Cardinality(NotifyingOf(Senders)) \in Nat
      /\ Cardinality(NotifyingOf(Senders)') \in Nat
      /\ Cardinality(NotifyingOf(Senders)) <= Cardinality(NotifyingOf(Senders)')
  BY FiniteCounts, CardMono
<1>2. Len(queue) \in Nat /\ Len(queue') \in Nat
  BY LenProperties DEF TypeOK
<1> QED
  BY <1>1, <1>2 DEF NoLostRecvWakeup

\* A step after which the channel is empty loses no wake-up of a receiver.
LEMMA RecvEmpty ==
  ASSUME Len(queue') = 0
  PROVE  NoLostRecvWakeup'
<1>1. /\ Cardinality(ReachedOf(Receivers)') \in Nat
      /\ Cardinality(NotifyingOf(Senders)') \in Nat
  BY FiniteCounts, FS_CardinalityType
<1> QED
  BY <1>1 DEF NoLostRecvWakeup

\* Every step keeps one trying receiver or notifying sender for each message a
\* sleeping receiver could take; a drain only takes messages away.
LEMMA NextNoLostRecvWakeup ==
  ASSUME TypeOK, TypeOK', WakersInPlace, NoLostRecvWakeup, [Next]_vars
  PROVE  NoLostRecvWakeup'
<1> USE DEF Tasks, Goto
<1> DEFINE T == ReachedOf(Receivers)
           N == NotifyingOf(Senders)
<1>0. Senders \cap Receivers = {}
  BY ChannelAssumption
<1>1. CASE UNCHANGED vars
  BY <1>1 DEF vars, NoLostRecvWakeup, Asleep, ReachedOf, Trying, Spent, NotifyingOf
<1>2. ASSUME NEW t \in Tasks, LeftoverWake(t) \/ Poll(t) \/ Cancel(t) PROVE NoLostRecvWakeup'
  <2>1. /\ \A u \in Receivers : Asleep(u)' => Asleep(u)
        /\ queue' = queue
        /\ T \subseteq T'
        /\ N \subseteq N'
    BY <1>2 DEF TypeOK, WakersInPlace, LeftoverWake, Poll, Cancel, cancel,
                Asleep, ReachedOf, Trying, Spent, NotifyingOf
  <2> QED
    BY <2>1, RecvQuiet, LenProperties DEF TypeOK
<1>3. ASSUME NEW s \in Senders,
             StartSend(s) \/ SendRemove(s) \/ SendInsert(s) \/ SendCheck(s)
      PROVE  NoLostRecvWakeup'
  <2>1. /\ \A u \in Receivers : Asleep(u)' => Asleep(u)
        /\ queue' = queue
        /\ T \subseteq T'
        /\ N \subseteq N'
    BY <1>0, <1>3
    DEF TypeOK, StartSend, SendRemove, SendInsert, SendCheck, insert, remove,
        Asleep, ReachedOf, Trying, Spent, NotifyingOf
  <2> QED
    BY <2>1, RecvQuiet, LenProperties DEF TypeOK
<1>4. ASSUME NEW s \in Senders, TrySend(s) PROVE NoLostRecvWakeup'
  <2>1. /\ \A u \in Receivers : Asleep(u)' => Asleep(u)
        /\ T \subseteq T'
        /\ N \subseteq N'
    BY <1>0, <1>4 DEF TypeOK, TrySend, Asleep, ReachedOf, Trying, Spent, NotifyingOf
  <2>2. CASE is_full
    BY <1>4, <2>1, <2>2, RecvQuiet, LenProperties DEF TypeOK, TrySend
  <2>3. CASE ~is_full
    <3>1. s \in N' /\ s \notin N
      BY <1>4, <2>3 DEF TypeOK, TrySend, NotifyingOf
    <3>2. Len(queue) \in Nat /\ Len(queue') = Len(queue) + 1
      BY <1>4, <2>3, QueueSteps DEF TrySend
    <3>3. /\ Cardinality(T) \in Nat /\ Cardinality(T') \in Nat
          /\ Cardinality(T) <= Cardinality(T')
      BY <2>1, FiniteCounts, CardMono
    <3>4. /\ Cardinality(N) \in Nat /\ Cardinality(N') \in Nat
          /\ Cardinality(N) + 1 <= Cardinality(N')
      BY <2>1, <3>1, FiniteCounts, CardGain
    <3> QED
      BY <2>1, <3>2, <3>3, <3>4 DEF NoLostRecvWakeup
  <2> QED
    BY <2>2, <2>3
<1>5. ASSUME NEW s \in Senders, SendNotify(s) PROVE NoLostRecvWakeup'
  <2>1. /\ pc[s] = "notify" /\ pc' = [pc EXCEPT ![s] = "idle"]
        /\ queue' = queue /\ Len(queue) \in Nat
    BY <1>5, LenProperties DEF SendNotify, TypeOK
  <2>2. N \ {s} \subseteq N'
    BY <2>1 DEF TypeOK, NotifyingOf
  <2>3. ASSUME NEW t \in Receivers, wakers[t] = "armed",
               wakers' = [wakers EXCEPT ![t] = "fired"],
               token' = [token EXCEPT ![t] = TRUE]
        PROVE  NoLostRecvWakeup'
    <3>1. pc[t] \in {"check", "remove", "parked", "dropped"}
      BY <2>3 DEF WakersInPlace
    <3>2. /\ \A u \in Receivers : Asleep(u)' => Asleep(u)
          /\ T \subseteq T' /\ t \in T' /\ t \notin T
      BY <1>0, <2>1, <2>3, <3>1 DEF TypeOK, Asleep, ReachedOf, Trying, Spent
    <3>3. /\ Cardinality(T) \in Nat /\ Cardinality(T') \in Nat
          /\ Cardinality(T) + 1 <= Cardinality(T')
      BY <3>2, FiniteCounts, CardGain
    <3>4. /\ Cardinality(N) \in Nat /\ Cardinality(N') \in Nat
          /\ Cardinality(N) - 1 <= Cardinality(N')
      BY <2>2, FiniteCounts, CardLose
    <3> QED
      BY <2>1, <3>2, <3>3, <3>4 DEF NoLostRecvWakeup
  <2>4. ASSUME \A t \in Receivers : wakers[t] # "armed",
               wakers' = wakers, token' = token
        PROVE  NoLostRecvWakeup'
    <3>1. \A u \in Receivers : ~Asleep(u)'
      BY <1>0, <2>1, <2>4 DEF TypeOK, WakersInPlace, Asleep
    <3> QED
      BY <3>1 DEF NoLostRecvWakeup
  <2> QED
    BY <1>5, <2>3, <2>4, NotifyEffect, Receivers \subseteq Tasks DEF SendNotify
<1>6. ASSUME NEW s \in Senders, DropSender(s) PROVE NoLostRecvWakeup'
  <2>1. /\ \A u \in Receivers : Asleep(u)' => Asleep(u)
        /\ queue' = queue
        /\ T \subseteq T'
        /\ N \subseteq N'
    BY <1>0, <1>6 DEF TypeOK, DropSender, disconnect, Asleep, ReachedOf, Trying, Spent, NotifyingOf
  <2> QED
    BY <2>1, RecvQuiet, LenProperties DEF TypeOK
<1>7. ASSUME NEW r \in Receivers, StartRecv(r) \/ RecvRemove(r) \/ RecvInsert(r)
      PROVE  NoLostRecvWakeup'
  <2>1. /\ \A u \in Receivers : Asleep(u)' => Asleep(u)
        /\ queue' = queue
        /\ T \subseteq T'
        /\ N \subseteq N'
    BY <1>0, <1>7
    DEF TypeOK, StartRecv, RecvRemove, RecvInsert, insert, remove,
        Asleep, ReachedOf, Trying, Spent, NotifyingOf
  <2> QED
    BY <2>1, RecvQuiet, LenProperties DEF TypeOK
<1>8. ASSUME NEW r \in Receivers, RecvCheck(r) PROVE NoLostRecvWakeup'
  <2>1. CASE is_empty
    BY <1>8, <2>1, QueueSteps, RecvEmpty DEF RecvCheck
  <2>2. CASE ~is_empty
    <3>1. /\ \A u \in Receivers : Asleep(u)' => Asleep(u)
          /\ queue' = queue
          /\ T \subseteq T'
          /\ N \subseteq N'
      BY <1>0, <1>8, <2>2 DEF TypeOK, RecvCheck, Asleep, ReachedOf, Trying, Spent, NotifyingOf
    <3> QED
      BY <3>1, RecvQuiet, LenProperties DEF TypeOK
  <2> QED
    BY <2>1, <2>2
<1>9. ASSUME NEW r \in Receivers, TryRecv(r) PROVE NoLostRecvWakeup'
  <2>1. CASE is_empty
    BY <1>9, <2>1, QueueSteps, RecvEmpty DEF TryRecv
  <2>2. CASE ~is_empty
    <3>1. /\ \A u \in Receivers : Asleep(u)' => Asleep(u)
          /\ T \ {r} \subseteq T'
          /\ N \subseteq N'
      BY <1>0, <1>9, <2>2 DEF TypeOK, TryRecv, Asleep, ReachedOf, Trying, Spent, NotifyingOf
    <3>2. Len(queue) \in Nat /\ Len(queue') = Len(queue) - 1
      BY <1>9, <2>2, QueueSteps DEF TryRecv
    <3>3. /\ Cardinality(T) \in Nat /\ Cardinality(T') \in Nat
          /\ Cardinality(T) - 1 <= Cardinality(T')
      BY <3>1, FiniteCounts, CardLose
    <3>4. /\ Cardinality(N) \in Nat /\ Cardinality(N') \in Nat
          /\ Cardinality(N) <= Cardinality(N')
      BY <3>1, FiniteCounts, CardMono
    <3> QED
      BY <3>1, <3>2, <3>3, <3>4 DEF NoLostRecvWakeup
  <2> QED
    BY <2>1, <2>2
<1>10. ASSUME NEW r \in Receivers, RecvNotify(r) PROVE NoLostRecvWakeup'
  <2>1. /\ pc[r] = "notify"
        /\ pc' = [pc EXCEPT ![r] = IF r \in Drainers THEN "drain" ELSE "idle"]
        /\ queue' = queue
    BY <1>10 DEF RecvNotify
  <2>2. \A u \in Receivers : wakers'[u] = wakers[u] /\ token'[u] = token[u]
    <3>1. \/ wakers' = wakers /\ token' = token
          \/ \E t \in Senders : /\ wakers' = [wakers EXCEPT ![t] = "fired"]
                                /\ token' = [token EXCEPT ![t] = TRUE]
      BY <1>10, NotifyEffect, Senders \subseteq Tasks DEF RecvNotify
    <3> QED
      BY <1>0, <3>1 DEF TypeOK
  <2>3. /\ \A u \in Receivers : Asleep(u)' => Asleep(u)
        /\ T \subseteq T'
        /\ N \subseteq N'
    BY <1>0, <2>1, <2>2 DEF TypeOK, Asleep, ReachedOf, Trying, Spent, NotifyingOf
  <2> QED
    BY <2>1, <2>3, RecvQuiet, LenProperties DEF TypeOK
<1>11. ASSUME NEW r \in Receivers, Drain(r) PROVE NoLostRecvWakeup'
  <2>1. /\ \A u \in Receivers : Asleep(u)' => Asleep(u)
        /\ T \subseteq T'
        /\ N \subseteq N'
    BY <1>0, <1>11 DEF TypeOK, Drain, Asleep, ReachedOf, Trying, Spent, NotifyingOf
  <2>2. Len(queue') <= Len(queue)
    BY <1>11, QueueSteps DEF Drain
  <2> QED
    BY <2>1, <2>2, RecvQuiet
<1> QED
  BY <1>1, <1>2, <1>3, <1>4, <1>5, <1>6, <1>7, <1>8, <1>9, <1>10, <1>11
  DEF Next, SenderStep, ReceiverStep

\* The receive side of async_channel.rs never loses a wake-up, whether or not
\* the receivers also drain the channel with try_recv.
THEOREM RecvWakeups == Safety => []NoLostRecvWakeup
  BY InitTypeOK, NextTypeOK, InitWakersInPlace, NextWakersInPlace,
     InitNoLostRecvWakeup, NextNoLostRecvWakeup, PTL DEF Safety

\* The send side never loses a wake-up when nobody takes a message with
\* try_recv.
THEOREM SendWakeups ==
  ASSUME Drainers = {}
  PROVE  Safety => []NoLostSendWakeup
<1>1. TypeOK /\ TypeOK' /\ WakersInPlace /\ NoLostSendWakeup /\ [Next]_vars
        => NoLostSendWakeup'
  BY NextNoLostSendWakeup
<1> QED
  BY <1>1, InitTypeOK, NextTypeOK, InitWakersInPlace, NextWakersInPlace,
     InitNoLostSendWakeup, PTL DEF Safety

-----------------------------------------------------------------------------
(* Nobody waits for nothing.                                               *)

\* When some sender and some receiver sleep, nobody else is under way, and no
\* wake went to a dropped task, one of the two wake-up invariants fails.
LEMMA WakeupsPreventStandoff ==
  ASSUME TypeOK, NoLostSendWakeup, NoLostRecvWakeup
  PROVE  NoStandoff
<1> SUFFICES ASSUME Standoff,
                    \A t \in Tasks : ~Spent(t)
             PROVE  FALSE
  BY DEF NoStandoff
<1>1. /\ \A t \in Tasks : Asleep(t) \/ pc[t] \in {"idle", "dropped"}
      /\ \E s \in Senders : Asleep(s)
      /\ \E r \in Receivers : Asleep(r)
  BY DEF Standoff
<1>2. ReachedOf(Senders) = {} /\ ReachedOf(Receivers) = {}
  BY <1>1 DEF ReachedOf, Trying, Asleep, Tasks
<1>3. NotifyingOf(Senders) = {} /\ NotifyingOf(Receivers) = {}
  BY <1>1 DEF NotifyingOf, Asleep, Tasks
<1>4. Cardinality({}) = 0
  BY FS_EmptySet
<1>5. Len(queue) \in Nat
  BY LenProperties DEF TypeOK
<1>6. Len(queue) <= 0
  BY <1>1, <1>2, <1>3, <1>4 DEF NoLostRecvWakeup
<1>7. Cap - Len(queue) <= 0
  BY <1>1, <1>2, <1>3, <1>4 DEF NoLostSendWakeup
<1> QED
  BY <1>5, <1>6, <1>7, ChannelAssumption

\* Without try_recv, the senders and the receivers of a channel never all wait
\* for each other, unless a notify called the waker that a dropped task left.
THEOREM NeverAllAsleep ==
  ASSUME Drainers = {}
  PROVE  Safety => []NoStandoff
<1>1. TypeOK /\ NoLostSendWakeup /\ NoLostRecvWakeup => NoStandoff
  BY WakeupsPreventStandoff
<1> QED
  BY <1>1, TypeCorrect, SendWakeups, RecvWakeups, PTL

-----------------------------------------------------------------------------
(* The queue.                                                              *)

\* A future under way always carries a message of its sender's.
LEMMA NextSendsBounded == TypeOK /\ SendsBounded /\ [Next]_vars => SendsBounded'
<1> SUFFICES ASSUME TypeOK, SendsBounded, [Next]_vars PROVE SendsBounded'
  OBVIOUS
<1> USE ChannelAssumption DEF Tasks, Goto, SendsBounded, TypeOK
<1>1. CASE UNCHANGED vars
  BY <1>1 DEF vars
<1>2. ASSUME NEW t \in Tasks, LeftoverWake(t) \/ Poll(t) \/ Cancel(t) PROVE SendsBounded'
  BY <1>2 DEF LeftoverWake, Poll, Cancel, cancel
<1>3. ASSUME NEW s \in Senders,
             \/ StartSend(s) \/ SendRemove(s) \/ TrySend(s)
             \/ SendInsert(s) \/ SendCheck(s) \/ DropSender(s)
      PROVE  SendsBounded'
  BY <1>3 DEF StartSend, SendRemove, TrySend, SendInsert, SendCheck, DropSender
<1>4. ASSUME NEW s \in Senders, SendNotify(s) PROVE SendsBounded'
  <2>1. /\ pc[s] = "notify" /\ pc' = [pc EXCEPT ![s] = "idle"]
        /\ next' = [next EXCEPT ![s] = @ + 1]
    BY <1>4 DEF SendNotify
  <2> QED
    BY <2>1
<1>5. ASSUME NEW r \in Receivers,
             \/ StartRecv(r) \/ RecvRemove(r) \/ TryRecv(r) \/ RecvNotify(r)
             \/ RecvInsert(r) \/ RecvCheck(r) \/ Drain(r)
      PROVE  SendsBounded'
  <2>1. /\ next' = next
        /\ \A s \in Senders : pc'[s] = pc[s]
    BY <1>5 DEF StartRecv, RecvRemove, TryRecv, RecvNotify, RecvInsert, RecvCheck, Drain
  <2> QED
    BY <2>1
<1> QED
  BY <1>1, <1>2, <1>3, <1>4, <1>5 DEF Next, SenderStep, ReceiverStep

\* No sender has sent anything at first.
LEMMA InitSendsBounded == Init => SendsBounded
  BY ChannelAssumption DEF Init, SendsBounded, Tasks

\* The types, the wakers' places, the senders' counts and both wake-up counts
\* hold together, and a step of any task keeps them, however tasks are dropped
\* while they wait in async_channel.rs.
THEOREM WakeupInvariant ==
  ASSUME Drainers = {}
  PROVE  Safety => []WakeupInv
<1>1. Init => WakeupInv
  BY InitTypeOK, InitWakersInPlace, InitSendsBounded,
     InitNoLostSendWakeup, InitNoLostRecvWakeup DEF WakeupInv
<1>2. WakeupInv /\ [Next]_vars => WakeupInv'
  BY NextTypeOK, NextWakersInPlace, NextSendsBounded,
     NextNoLostSendWakeup, NextNoLostRecvWakeup DEF WakeupInv
<1> QED
  BY <1>1, <1>2, PTL DEF Safety

\* The initial states are those of a bounded FIFO channel.
LEMMA InitImplements == Init => BC!Init
  BY DEF Init, BC!Init, Tasks

\* A step puts one message at the end of a queue with room, takes the first, or
\* leaves the queue alone.
LEMMA NextImplements ==
  ASSUME TypeOK, SendsBounded, [Next]_vars
  PROVE  [BC!Next]_BC!vars
<1> USE DEF Tasks, Goto
<1> DEFINE Sent == [s \in Senders |-> next[s] + IF pc[s] = "notify" THEN 1 ELSE 0]
<1>0. Senders \cap Receivers = {}
  BY ChannelAssumption
<1>1. SUFFICES ASSUME ~(queue' = queue /\ Sent' = Sent) PROVE BC!Next
  BY DEF BC!vars
<1>2. CASE UNCHANGED vars
  BY <1>1, <1>2 DEF vars
<1>3. ASSUME NEW t \in Tasks, LeftoverWake(t) \/ Poll(t) \/ Cancel(t) PROVE FALSE
  <2>1. /\ queue' = queue /\ next' = next
        /\ \A s \in Senders : pc'[s] = "notify" <=> pc[s] = "notify"
    BY <1>3 DEF LeftoverWake, Poll, Cancel, cancel, TypeOK
  <2> QED
    BY <1>1, <2>1
<1>4. ASSUME NEW s \in Senders,
             \/ StartSend(s) \/ SendRemove(s) \/ SendInsert(s)
             \/ SendCheck(s) \/ DropSender(s)
      PROVE  FALSE
  <2>1. /\ queue' = queue /\ next' = next
        /\ \A u \in Senders : pc'[u] = "notify" <=> pc[u] = "notify"
    BY <1>4 DEF StartSend, SendRemove, SendInsert, SendCheck, DropSender, disconnect, TypeOK
  <2> QED
    BY <1>1, <2>1
<1>5. ASSUME NEW s \in Senders, TrySend(s) PROVE BC!Next
  <2>1. CASE is_full
    <3>1. /\ queue' = queue /\ next' = next
          /\ \A u \in Senders : pc'[u] = "notify" <=> pc[u] = "notify"
      BY <1>5, <2>1 DEF TrySend, TypeOK
    <3> QED
      BY <1>1, <3>1
  <2>2. CASE ~is_full
    <3>1. /\ pc[s] = "try" /\ pc' = [pc EXCEPT ![s] = "notify"]
          /\ next' = next /\ next[s] < MaxSend /\ next[s] \in Nat
          /\ queue' = Append(queue, <<s, next[s] + 1>>)
      BY <1>5, <2>2 DEF TrySend, SendsBounded, TypeOK
    <3>2. Sent[s] = next[s]
      BY <3>1
    <3>3. Sent' = [Sent EXCEPT ![s] = @ + 1]
      BY <3>1, <3>2 DEF TypeOK
    <3>4. Len(queue) < Cap
      BY <2>2, LenProperties, ChannelAssumption DEF is_full, TypeOK
    <3>5. BC!Put(s)
      BY <3>1, <3>2, <3>3, <3>4 DEF BC!Put
    <3> QED
      BY <3>5 DEF BC!Next
  <2> QED
    BY <2>1, <2>2
<1>6. ASSUME NEW s \in Senders, SendNotify(s) PROVE FALSE
  <2>1. /\ pc[s] = "notify" /\ pc' = [pc EXCEPT ![s] = "idle"]
        /\ next' = [next EXCEPT ![s] = @ + 1]
        /\ queue' = queue
    BY <1>6 DEF SendNotify
  <2>2. Sent' = Sent
    BY <2>1 DEF TypeOK
  <2> QED
    BY <1>1, <2>1, <2>2
<1>7. ASSUME NEW r \in Receivers, TryRecv(r) \/ Drain(r) PROVE BC!Next
  <2>1. /\ next' = next
        /\ \A u \in Senders : pc'[u] = pc[u]
        /\ queue' = queue \/ (queue # <<>> /\ queue' = Tail(queue))
    BY <1>0, <1>7 DEF TryRecv, Drain, is_empty, TypeOK
  <2>2. Sent' = Sent
    BY <2>1
  <2>3. BC!Take
    BY <1>1, <2>1, <2>2 DEF BC!Take
  <2> QED
    BY <2>3 DEF BC!Next
<1>8. ASSUME NEW r \in Receivers,
             \/ StartRecv(r) \/ RecvRemove(r) \/ RecvNotify(r)
             \/ RecvInsert(r) \/ RecvCheck(r)
      PROVE  FALSE
  <2>1. /\ queue' = queue /\ next' = next
        /\ \A u \in Senders : pc'[u] = pc[u]
    BY <1>0, <1>8 DEF StartRecv, RecvRemove, RecvNotify, RecvInsert, RecvCheck, TypeOK
  <2> QED
    BY <1>1, <2>1
<1> QED
  BY <1>2, <1>3, <1>4, <1>5, <1>6, <1>7, <1>8 DEF Next, SenderStep, ReceiverStep

\* Whatever the wakers do, the channel is a bounded FIFO queue in which every
\* message is put once, in its sender's order, and taken once.
THEOREM ImplementsQueue == Safety => BC!Safety
<1>1. Init => SendsBounded
  BY InitSendsBounded
<1>2. TypeOK /\ SendsBounded /\ [Next]_vars => [BC!Next]_BC!vars
  BY NextImplements
<1> QED
  BY <1>1, <1>2, InitTypeOK, NextTypeOK, NextSendsBounded, InitImplements, PTL
  DEF Safety, BC!Safety
=============================================================================
