--------------------------- MODULE AsyncLaneProofs ---------------------------
(***************************************************************************)
(* AsyncLane keeps the invariant of Driver: whom the wakers wake, and when *)
(* an element goes on without being woken, decides when its steps happen   *)
(* and never what they do.  And no task sleeps that has something to do.   *)
(* That the steps do happen is for TLC to check.                           *)
(***************************************************************************)
EXTENDS AsyncLaneInvariant, ElementProofs

\* A step of a task is one of its element, or leaves Driver where it is.
LEMMA LaneSteps ==
  ASSUME NEW e \in Elements, TaskStep(e)
  PROVE  UNCHANGED vars \/ (ElementStep(e, {e}, Held) /\ UNCHANGED driverVars)
<1>1. Receive(e, {e}) \/ handle_action(e) \/ handle_notification(e) \/ UNCHANGED vars
  BY DEF TaskStep, Recv, TryRecv, Act, ParkRecv, ParkSend
<1> QED
  BY <1>1 DEF TaskStep, ElementStep

\* A step of the main thread is one of Driver, or it waits.
LEMMA LaneMainSteps ==
  ASSUME MainStep
  PROVE  \/ SetupElement("recv") \/ SetupLane \/ SetupNotifier
         \/ Run \/ RunSend \/ RunWait(Channels)
         \/ DropHead \/ DropNotifier
         \/ UNCHANGED vars
BY DEF MainStep, MainSend, MainRecv, MainLocal, ParkSend, ParkRecv

\* Every step keeps the invariant.
LEMMA LaneNext == DriverInv /\ [Next]_allVars => DriverInv'
<1> SUFFICES ASSUME DriverInv, [Next]_allVars PROVE DriverInv'
  OBVIOUS
<1>1. CASE UNCHANGED vars
  BY <1>1, DriverStutter
<1>2. CASE MainStep
  <2>1. CASE SetupElement("recv")
    BY <2>1, SetupElementInv
  <2>2. CASE SetupLane
    BY <2>2, SetupLaneInv
  <2>3. CASE SetupNotifier
    BY <2>3, SetupNotifierInv
  <2>4. CASE Run
    BY <2>4, RunInv
  <2>5. CASE RunSend
    BY <2>5, RunSendInv
  <2>6. CASE RunWait(Channels)
    BY <2>6, RunWaitInv
  <2>7. CASE DropHead
    BY <2>7, DropHeadInv
  <2>8. CASE DropNotifier
    BY <2>8, DropNotifierInv
  <2> QED
    BY <1>1, <1>2, <2>1, <2>2, <2>3, <2>4, <2>5, <2>6, <2>7, <2>8, LaneMainSteps
<1>3. ASSUME NEW e \in Elements, TaskStep(e) PROVE DriverInv'
  <2>1. {e} \subseteq Elements /\ e \in {e}
    OBVIOUS
  <2> QED
    BY <1>1, <1>3, <2>1, LaneSteps, ElementStepInv
<1> QED
  BY <1>1, <1>2, <1>3 DEF Next, allVars

\* The invariant of the crossbeam_async driver: DriverInv is inductive for it too.
THEOREM LaneInvariant == Spec => []DriverInv
<1>1. Init => DriverInv
  BY InitInv DEF Init
<1>2. DriverInv /\ [Next]_allVars => DriverInv'
  BY LaneNext
<1> QED
  BY <1>1, <1>2, PTL DEF Spec, Safety

\* No task meets a sequence error, so every channel of the model stays open.
THEOREM LaneSequence == Spec => []NoSequenceError
BY LaneInvariant, InvNoSequenceError, PTL

\* No message is lost or duplicated, at any position of any lane.
THEOREM LaneNothingLost == Spec => []LaneConservation
BY LaneInvariant, InvLaneConservation, PTL

\* A run that returned left nothing behind.
THEOREM LaneQuiescence == Spec => []QuiescentBetweenRuns
BY LaneInvariant, InvQuiescentBetweenRuns, PTL

\* The driver is notified once per run, when all its messages are at the end.
THEOREM LaneNotification == Spec => []NotifiedOnlyWhenDone
BY LaneInvariant, InvNotifiedOnlyWhenDone, PTL

\* Whenever crossbeam_async's runs return, they have kept the promise of
\* ExperimentDriver, step by step.
THEOREM LaneImplementsExperiment == Spec => Promise!Safety
<1>1. Init => Promise!Init
  BY PromiseInit DEF Init
<1>2. DriverInv /\ [Next]_allVars => [Promise!Next]_(Promise!vars)
  <2> SUFFICES ASSUME DriverInv, [Next]_allVars PROVE [Promise!Next]_(Promise!vars)
    OBVIOUS
  <2>1. CASE UNCHANGED vars
    BY <2>1, PromiseStutter DEF vars
  <2>2. CASE MainStep
    BY <2>1, <2>2, LaneMainSteps, PromiseMain
  <2>3. ASSUME NEW e \in Elements, TaskStep(e) PROVE [Promise!Next]_(Promise!vars)
    <3>1. {e} \subseteq Elements /\ e \in {e}
      OBVIOUS
    <3> QED
      BY <2>1, <2>3, <3>1, LaneSteps, PromiseElement
  <2> QED
    BY <2>1, <2>2, <2>3 DEF Next, allVars
<1> QED
  BY <1>1, <1>2, LaneInvariant, PTL DEF Spec, Safety, Promise!Safety

-----------------------------------------------------------------------------
(* Who sleeps, and where.                                                  *)

\* The tasks are many and different, and each receives from one channel.
LEMMA Tasks ==
  /\ Main \notin Elements /\ Main \in AllTasks /\ Elements \subseteq AllTasks
  /\ IsFiniteSet(AllTasks)
  /\ \A c \in Channels : Receiver(c) \in AllTasks
  /\ \A c \in Channels : \A d \in Channels : Receiver(c) = Receiver(d) => c = d
  /\ \A e \in Elements : Receiver(e) = e
  /\ Receiver(Notifier) = Main
<1>1. Main \notin Elements
  BY DEF Main, Elements, LaneElements, Concentrator
<1>2. IsFiniteSet(AllTasks)
  <2>1. IsFiniteSet(1..Lanes) /\ IsFiniteSet(1..Pipelines)
    BY FS_Interval, PipelineAssumption
  <2>2. IsFiniteSet(LaneElements)
    BY <2>1, FS_Product DEF LaneElements
  <2>3. IsFiniteSet({Concentrator}) /\ IsFiniteSet({Main})
    BY FS_Singleton
  <2>4. IsFiniteSet(Elements)
    BY <2>2, <2>3, FS_Union DEF Elements
  <2> QED
    BY <2>3, <2>4, FS_Union DEF AllTasks
<1> QED
  BY <1>1, <1>2, Names DEF AllTasks, Receiver

\* A task sends to a channel, or to none.
LEMMA TargetFound ==
  ASSUME DriverInv, NEW t \in AllTasks
  PROVE  SendTarget(t) \in Channels \cup {None}
<1> USE PipelineAssumption
<1>1. Types /\ Control
  BY DEF DriverInv
<1>2. CASE t = Main
  <2>1. Main \notin Elements /\ Concentrator \in Channels
    BY Tasks, Names
  <2>2. phase = "setup" /\ lane <= Lanes /\ id > 1 => <<lane, id - 1>> \in Channels
    <3> SUFFICES ASSUME phase = "setup", lane <= Lanes, id > 1 PROVE Slot(lane, id - 1) \in Channels
      BY DEF Slot
    <3>1. lane \in 1..Lanes /\ id - 1 \in 1..Pipelines
      BY <1>1 DEF Types, Control
    <3> QED
      BY <3>1, Slots
  <2>3. phase = "sending" => <<lane, 1>> \in Channels
    <3> SUFFICES ASSUME phase = "sending" PROVE Slot(lane, 1) \in Channels
      BY DEF Slot
    <3>1. lane \in 1..Lanes /\ 1 \in 1..Pipelines
      BY <1>1 DEF Types, Control
    <3> QED
      BY <3>1, Slots
  <2> QED
    BY <1>2, <2>1, <2>2, <2>3 DEF SendTarget
<1>3. CASE t \in Elements
  <2>1. t # Main /\ fwd[t] \in Forwarders /\ todo[t] \in Seq(LaneElements)
    BY <1>1, <1>3, Tasks DEF Types
  <2>2. fwd[t].notify_sender \in Channels \cup {None}
    BY <2>1, Names DEF Forwarders
  <2>3. todo[t] # <<>> => Head(todo[t]) \in Channels
    BY <2>1, Names
  <2> QED
    BY <1>3, <2>1, <2>2, <2>3 DEF SendTarget
<1> QED
  BY <1>2, <1>3 DEF AllTasks

\* Where an element's next send goes, by what it is about to do.
LEMMA ElementTarget ==
  ASSUME DriverInv, NEW e \in Elements
  PROVE  /\ pc[e] # "action" => SendTarget(e) = None
         /\ handle_action(e) => SendTarget(e) = Head(todo[e])
         /\ handle_notification(e) /\ notification_due(fwd[e]) =>
              SendTarget(e) = fwd[e].notify_sender
         /\ handle_notification(e) /\ ~notification_due(fwd[e]) => SendTarget(e) = None
BY Tasks DEF SendTarget, handle_action, handle_notification

\* The same for the main thread.
LEMMA MainTarget ==
  ASSUME DriverInv
  PROVE  /\ phase \notin {"setup", "sending"} => SendTarget(Main) = None
         /\ phase = "sending" => SendTarget(Main) = Slot(lane, 1)
         /\ phase = "setup" /\ ~(lane <= Lanes) => SendTarget(Main) = Concentrator
         /\ phase = "setup" /\ lane <= Lanes /\ id > 1 => SendTarget(Main) = Slot(lane, id - 1)
         /\ phase = "setup" /\ lane <= Lanes /\ ~(id > 1) => SendTarget(Main) = None
<1>1. lane \in Nat /\ Lanes \in Nat
  BY PipelineAssumption DEF DriverInv, Types
<1> QED
  BY <1>1, Tasks DEF SendTarget, Slot

\* Who is woken is in the set no longer, and nobody else left or entered it.
LEMMA NotifyOne ==
  ASSUME NEW set, set \in [Channels -> SUBSET AllTasks], NEW setNew, NEW c \in Channels,
         IF set[c] = {} THEN setNew = set
                        ELSE \E t \in set[c] : setNew = [set EXCEPT ![c] = @ \ {t}]
  PROVE  /\ setNew \in [Channels -> SUBSET AllTasks]
         /\ \A d \in Channels : setNew[d] \subseteq set[d]
         /\ \A d \in Channels : d # c => setNew[d] = set[d]
         /\ \/ set[c] = {} /\ setNew[c] = {}
            \/ \E t \in set[c] : setNew[c] = set[c] \ {t}
BY Zenon

\* What a task may not send to, when the data of a run fits into a channel: only
\* the configuration is ever in its way, and the notifier never.
LEMMA Blocked ==
  ASSUME DriverInv, Messages <= Cap,
         NEW t \in AllTasks, NEW c \in Channels, SendTarget(t) = c, Full(c)
  PROVE  /\ c # Notifier
         /\ c \in LaneElements => HasConfig(queue[c]) /\ t = Feeder(c)
<1> USE PipelineAssumption
<1>1. Types /\ Control
  BY DEF DriverInv
<1>2. ASSUME NEW l \in 1..Lanes, NEW i \in 1..Pipelines, c = Slot(l, i),
             Passed(l, i - 1) < Done + Messages
      PROVE  HasConfig(queue[c])
  <2>1. Done \in Nat /\ Done <= delivered[l] /\ delivered[l] = Accepted(l, Pipelines)
    BY SentFacts, SlotCounts DEF DriverInv, LaneNotices
  <2>2. Pipelines \in i..Pipelines
    OBVIOUS
  <2>3. Accepted(l, Pipelines) <= Accepted(l, i)
    BY <2>2 DEF DriverInv, Order
  <2>4. /\ Accepted(l, i) \in Nat /\ Passed(l, i - 1) \in Nat
        /\ NData(queue[c]) \in Nat /\ Accepted(l, Pipelines) \in Nat
    <3>1. /\ Accepted(l, i) \in Nat /\ Passed(l, i - 1) \in Nat
          /\ NData(queue[c]) \in Nat
      BY <1>2, CountTypes
    <3>2. Accepted(l, Pipelines) \in Nat
      BY Slots, CountTypes
    <3> QED
      BY <3>1, <3>2
  <2>5. Passed(l, i - 1) = Accepted(l, i) + NData(queue[c])
    BY <1>2 DEF DriverInv, Hops
  <2>6. NData(queue[c]) < Messages
    BY <1>2, <2>1, <2>3, <2>4, <2>5
  <2>7. NData(queue[c]) # Len(queue[c])
    BY <2>4, <2>6 DEF Full
  <2> QED
    BY <2>7 DEF NData
<1>3. CASE t = Main
  <2>1. phase \in {"setup", "sending"}
    BY <1>3, MainTarget, Names
  <2>2. CASE phase = "setup" /\ ~(lane <= Lanes)
    BY <1>3, <2>2, MainTarget, Names
  <2>3. CASE phase = "setup" /\ lane <= Lanes
    <3>1. id > 1 /\ c = Slot(lane, id - 1)
      BY <1>3, <2>3, MainTarget, Names
    <3>2. lane \in 1..Lanes /\ id - 1 \in 1..Pipelines
      BY <1>1, <2>3, <3>1 DEF Types, Control
    <3>3. c \in Elements /\ c[1] = lane /\ c[2] = id - 1
      BY <3>1, <3>2, Slots
    <3>4. ~ConfigSent(c)
      BY <2>3, <3>2, <3>3 DEF ConfigSent
    <3>5. queue[c] = <<>>
      BY <2>3, <3>3, <3>4, OpenInSetup DEF DriverInv, Configuration
    <3> QED
      BY <3>5 DEF Full
  <2>4. CASE phase = "sending"
    <3>1. c = Slot(lane, 1) /\ lane \in 1..Lanes /\ 1 \in 1..Pipelines /\ id \in Nat /\ id < Messages
      BY <1>1, <1>3, <2>4, MainTarget DEF Types, Control
    <3>2. t = Feeder(c) /\ c # Notifier
      BY <1>3, <3>1, Slots DEF Feeder
    <3>3. SentTo(lane) = Done + InRun(lane) /\ Done \in Nat
      BY <3>1, SentFacts DEF DriverInv
    <3>4. InRun(lane) = id
      BY <2>4, <3>1 DEF InRun
    <3>5. Passed(lane, 1 - 1) = SentTo(lane)
      BY SlotCounts
    <3>6. Passed(lane, 1 - 1) < Done + Messages
      BY <3>1, <3>3, <3>4, <3>5
    <3> QED
      BY <1>2, <3>1, <3>2, <3>6
  <2> QED
    BY <2>1, <2>2, <2>3, <2>4
<1>4. CASE t \in Elements
  <2>1. pc[t] = "action"
    BY <1>4, ElementTarget, Names
  <2>2. /\ Configured(t) /\ fwd[t] \in Forwarders /\ fwd[t].received_count >= 1
        /\ todo[t] # <<>> => todo[t] = fwd[t].senders
    BY <1>4, <2>1, ActionFacts
  <2>3. CASE t = Concentrator
    <3>1. todo[t] = <<>> /\ fwd[t].notify_sender = Notifier /\ fwd[t].notify_count = Lanes
      BY <2>2, <2>3, ConfiguredSlots
    <3>2. c = Notifier /\ notification_due(fwd[t])
      BY <1>4, <2>1, <3>1, Tasks, Names DEF SendTarget
    <3>3. fwd[Concentrator].received_count >= 1 /\ fwd[Concentrator].received_count = Lanes
      BY <2>2, <2>3, <3>1, <3>2 DEF notification_due
    <3>4. queue[Notifier] = <<>>
      BY <3>3 DEF DriverInv, ConcentratorNotices
    <3> QED
      BY <3>2, <3>4 DEF Full
  <2>4. CASE t # Concentrator
    <3>1. PICK l \in 1..Lanes, i \in 1..Pipelines : t = Slot(l, i)
      BY <1>4, <2>4, Slots
    <3>2. CASE todo[t] # <<>>
      <4>1. i # Pipelines /\ todo[t] = <<Slot(l, i + 1)>>
        BY <2>2, <3>1, <3>2, ConfiguredSlots
      <4>2. c = Slot(l, i + 1)
        BY <1>4, <2>1, <3>2, <4>1, Tasks DEF SendTarget
      <4>3. i + 1 \in 1..Pipelines /\ i + 1 # 1 /\ (i + 1) - 1 = i /\ i < Pipelines
        BY <4>1
      <4>4. t = Feeder(c) /\ c # Notifier
        BY <3>1, <4>2, <4>3, Slots DEF Feeder
      <4>5. Accepted(l, i) = Passed(l, i) + Len(todo[t]) /\ Accepted(l, i) <= SentTo(l)
        BY <3>1, <4>3 DEF DriverInv, Hops, Order
      <4>6. Len(todo[t]) = 1
        BY <4>1
      <4>7. /\ SentTo(l) = Done + InRun(l) /\ InRun(l) \in 0..Messages
            /\ Done \in Nat /\ SentTo(l) \in Nat
            /\ Accepted(l, i) \in Nat /\ Passed(l, i) \in Nat
        BY SentFacts, CountTypes DEF DriverInv
      <4>8. Passed(l, i) < Done + Messages
        BY <4>5, <4>6, <4>7
      <4> QED
        BY <1>2, <4>2, <4>3, <4>4, <4>8
    <3>3. CASE todo[t] = <<>>
      <4>1. notification_due(fwd[t]) /\ c = fwd[t].notify_sender
        BY <1>4, <2>1, <3>3, Tasks, Names DEF SendTarget
      <4>2. i = Pipelines
        BY <2>2, <3>1, <4>1, ConfiguredSlots DEF notification_due
      <4>3. c = Concentrator
        BY <2>2, <3>1, <4>1, <4>2, ConfiguredSlots
      <4> QED
        BY <4>3, Names
    <3> QED
      BY <3>2, <3>3
  <2> QED
    BY <2>3, <2>4
<1> QED
  BY <1>3, <1>4 DEF AllTasks

\* A set of tasks that loses one at most is smaller by one at most.
LEMMA OneFewer ==
  ASSUME NEW A, IsFiniteSet(A), NEW S \in SUBSET A, NEW T \in SUBSET A, NEW t, S \ {t} \subseteq T
  PROVE  /\ Cardinality(S) \in Nat /\ Cardinality(T) \in Nat
         /\ Cardinality(S) <= Cardinality(T) + 1
<1>1. IsFiniteSet(S) /\ IsFiniteSet(T) /\ IsFiniteSet(S \ {t})
  BY FS_Subset
<1>2. Cardinality(S) \in Nat /\ Cardinality(T) \in Nat /\ Cardinality(S \ {t}) \in Nat
  BY <1>1, FS_CardinalityType
<1>3. Cardinality(S \ {t}) <= Cardinality(T)
  BY <1>1, FS_Subset
<1>4. Cardinality(S) <= Cardinality(S \ {t}) + 1
  BY <1>1, <1>2, FS_RemoveElement
<1> QED
  BY <1>2, <1>3, <1>4

\* A set of tasks that loses none, and one that gains one besides.
LEMMA NoneFewer ==
  ASSUME NEW A, IsFiniteSet(A), NEW S \in SUBSET A, NEW T \in SUBSET A, S \subseteq T
  PROVE  /\ Cardinality(S) \in Nat /\ Cardinality(T) \in Nat
         /\ Cardinality(S) <= Cardinality(T)
         /\ \A t \in T : t \notin S => Cardinality(S) + 1 <= Cardinality(T)
<1>1. IsFiniteSet(S) /\ IsFiniteSet(T)
  BY FS_Subset
<1>2. Cardinality(S) \in Nat /\ Cardinality(T) \in Nat
  BY <1>1, FS_CardinalityType
<1>3. Cardinality(S) <= Cardinality(T)
  BY <1>1, FS_Subset
<1>4. ASSUME NEW t \in T, t \notin S PROVE Cardinality(S) + 1 <= Cardinality(T)
  <2>1. Cardinality(S \cup {t}) = Cardinality(S) + 1
    BY <1>1, <1>4, FS_AddElement
  <2>2. Cardinality(S \cup {t}) <= Cardinality(T)
    BY <1>1, <1>4, FS_Subset
  <2> QED
    BY <2>1, <2>2
<1> QED
  BY <1>2, <1>3, <1>4

-----------------------------------------------------------------------------
(* What each kind of step does to the sleepers.                            *)

\* The next send of a task is its own business.
LEMMA TargetFrame ==
  ASSUME NEW t \in AllTasks,
         t = Main => UNCHANGED <<phase, lane, id>>,
         t \in Elements => /\ pc'[t] = "action" <=> pc[t] = "action"
                           /\ todo'[t] = todo[t] /\ fwd'[t] = fwd[t]
  PROVE  SendTarget(t)' = SendTarget(t)
BY Tasks DEF AllTasks, SendTarget

\* Wakers that are taken put nobody to sleep.
LEMMA AwakeStays ==
  ASSUME \A d \in Channels : /\ sendWakers'[d] \subseteq sendWakers[d]
                             /\ recvWakers'[d] \subseteq recvWakers[d]
  PROVE  \A t : ~Sleeping(t) => ~Sleeping(t)'
BY DEF Sleeping

\* A task that sends wakes the receiver, and gives up its claim on a free slot with
\* the slot itself.
LEMMA SendKeeps ==
  ASSUME DriverInv, WakerInv, NEW t \in AllTasks, ~Sleeping(t), NEW c, c = SendTarget(t),
         \/ c = None /\ queue' = queue
         \/ c # None /\ \E m : send_cmd(c, m),
         SendReady(c), draining' = draining,
         \A x \in AllTasks : x # t => SendTarget(x)' = SendTarget(x),
         NoneEnds', Draining'
  PROVE  WakerInv'
<1> USE PipelineAssumption
<1>1. LaneTypes /\ Types /\ sendWakers' = sendWakers
  BY DEF DriverInv, WakerInv, SendReady
<1>2. c = None \/ c \in Channels
  BY TargetFound
<1>3. \A d \in Channels : t \notin sendWakers[d] /\ t \notin recvWakers[d]
  BY DEF Sleeping
<1>4. /\ recvWakers' \in [Channels -> SUBSET AllTasks]
      /\ \A d \in Channels : recvWakers'[d] \subseteq recvWakers[d]
      /\ c # None => recvWakers'[c] = {}
  <2>1. CASE c = None
    BY <1>1, <2>1 DEF SendReady, LaneTypes
  <2>2. CASE c # None
    <3>1. c \in Channels /\ recvWakers \in [Channels -> SUBSET AllTasks]
      BY <1>1, <1>2, <2>2 DEF LaneTypes
    <3>2. IF recvWakers[c] = {} THEN recvWakers' = recvWakers
            ELSE \E x \in recvWakers[c] : recvWakers' = [recvWakers EXCEPT ![c] = @ \ {x}]
      BY <2>2 DEF SendReady, notify
    <3>3. /\ recvWakers' \in [Channels -> SUBSET AllTasks]
          /\ \A d \in Channels : recvWakers'[d] \subseteq recvWakers[d]
          /\ \/ recvWakers[c] = {} /\ recvWakers'[c] = {}
             \/ \E x \in recvWakers[c] : recvWakers'[c] = recvWakers[c] \ {x}
      BY <3>1, <3>2, NotifyOne
    <3>4. recvWakers[c] # {} => recvWakers[c] = {Receiver(c)}
      BY <3>1 DEF WakerInv, Receivers
    <3> QED
      BY <3>3, <3>4
  <2> QED
    BY <2>1, <2>2
<1>5. /\ \A d \in Channels : d # c => queue'[d] = queue[d]
      /\ c \in Elements => ~Full(c) /\ Len(queue'[c]) = Len(queue[c]) + 1
  <2>1. CASE c = None
    BY <2>1, Names
  <2>2. CASE c # None
    <3>1. c \in Channels /\ queue \in [Channels -> Seq(Message)]
      BY <1>1, <1>2, <2>2 DEF Types
    <3>2. PICK m : send_cmd(c, m)
      BY <2>2
    <3>3. \/ Open(c) /\ Len(queue[c]) < Cap /\ queue' = [queue EXCEPT ![c] = Append(@, m)]
          \/ ~Open(c) /\ queue' = queue
      BY <3>2 DEF send_cmd
    <3>4. c \in Elements => Open(c)
      BY DEF WakerInv, NoneEnds
    <3>5. queue[c] \in Seq(Message) /\ Len(queue[c]) \in Nat
      BY <3>1, LenProperties
    <3>6. \A d \in Channels : d # c => queue'[d] = queue[d]
      BY <3>1, <3>3
    <3>7. ASSUME c \in Elements PROVE ~Full(c) /\ Len(queue'[c]) = Len(queue[c]) + 1
      <4>1. Len(queue[c]) < Cap /\ queue'[c] = Append(queue[c], m)
        BY <3>1, <3>3, <3>4, <3>7
      <4>2. Len(Append(queue[c], m)) = Len(queue[c]) + 1
        BY <3>5
      <4> QED
        BY <3>5, <4>1, <4>2 DEF Full
    <3> QED
      BY <3>6, <3>7
  <2> QED
    BY <2>1, <2>2
<1>6. LaneTypes'
  BY <1>1, <1>4 DEF LaneTypes
<1>7. Receivers'
  <2> SUFFICES ASSUME NEW d \in Channels, recvWakers'[d] # {}
               PROVE  /\ recvWakers'[d] = {Receiver(d)} /\ queue'[d] = <<>>
                      /\ SendTarget(Receiver(d))' = None
    BY DEF Receivers, Receiver
  <2>1. d # c /\ recvWakers[d] # {}
    BY <1>2, <1>4, Names
  <2>2. recvWakers[d] = {Receiver(d)} /\ queue[d] = <<>> /\ SendTarget(Receiver(d)) = None
    BY <2>1 DEF WakerInv, Receivers
  <2>3. Receiver(d) # t /\ Receiver(d) \in AllTasks
    BY <1>3, <2>2, Tasks
  <2>4. recvWakers'[d] = {Receiver(d)}
    BY <1>4, <2>2
  <2>5. queue'[d] = <<>>
    BY <1>5, <2>1, <2>2
  <2>6. SendTarget(Receiver(d))' = None
    BY <2>2, <2>3 DEF Receiver
  <2> QED
    BY <2>4, <2>5, <2>6
<1>8. Targets'
  <2> SUFFICES ASSUME NEW d \in Channels, NEW x \in sendWakers[d]
               PROVE  SendTarget(x)' = d
    BY <1>1 DEF Targets
  <2>1. SendTarget(x) = d /\ x \in AllTasks /\ x # t
    BY <1>1, <1>3 DEF WakerInv, Targets, LaneTypes
  <2> QED
    BY <2>1
<1>9. ASSUME Messages <= Cap PROVE Senders'
  <2>1. Senders
    BY <1>9 DEF WakerInv
  <2>2. ASSUME NEW d \in LaneElements, sendWakers'[d] # {}
        PROVE  sendWakers'[d] = {Feeder(d)} /\ Full(d)' /\ HasConfig(queue'[d])
    <3>1. sendWakers[d] = {Feeder(d)} /\ Full(d) /\ HasConfig(queue[d])
      BY <1>1, <2>1, <2>2 DEF Senders
    <3>2. d # c /\ d \in Channels
      BY <1>5, <3>1, Names
    <3>3. queue'[d] = queue[d]
      BY <1>5, <3>2
    <3> QED
      BY <1>1, <3>1, <3>3 DEF Full
  <2>3. ASSUME sendWakers'[Concentrator] # {}
        PROVE  Cap - Len(queue'[Concentrator]) <= Cardinality(Coming(Concentrator)')
    <3> DEFINE S == Coming(Concentrator)
               T == Coming(Concentrator)'
    <3>1. Cap - Len(queue[Concentrator]) <= Cardinality(S)
      BY <1>1, <2>1, <2>3 DEF Senders
    <3>2. S \subseteq AllTasks /\ T \subseteq AllTasks
      BY DEF Coming
    <3>3. S \ {t} \subseteq T
      <4>1. \A x : ~Sleeping(x) => ~Sleeping(x)'
        BY <1>1, <1>4, AwakeStays
      <4> QED
        BY <4>1 DEF Coming
    <3>4. Concentrator \in Elements /\ Concentrator \in Channels /\ queue[Concentrator] \in Seq(Message)
      BY <1>1, Names DEF Types
    <3>5. Len(queue[Concentrator]) \in Nat
      BY <3>4, LenProperties
    <3>6. CASE c = Concentrator
      <4>1. /\ Cardinality(S) \in Nat /\ Cardinality(T) \in Nat
            /\ Cardinality(S) <= Cardinality(T) + 1
        BY <3>2, <3>3, Tasks, OneFewer
      <4>2. Len(queue'[Concentrator]) = Len(queue[Concentrator]) + 1
        BY <1>5, <3>4, <3>6
      <4> HIDE DEF S, T
      <4>3. Cap - Len(queue'[Concentrator]) <= Cardinality(T)
        BY <3>1, <3>5, <4>1, <4>2
      <4> QED
        BY <4>3 DEF T
    <3>7. CASE c # Concentrator
      <4>1. t \notin S
        BY <3>7 DEF Coming
      <4>2. S \subseteq T
        BY <3>3, <4>1
      <4>3. /\ Cardinality(S) \in Nat /\ Cardinality(T) \in Nat
            /\ Cardinality(S) <= Cardinality(T)
        BY <3>2, <4>2, Tasks, NoneFewer
      <4>4. queue'[Concentrator] = queue[Concentrator]
        BY <1>5, <3>4, <3>7
      <4> HIDE DEF S, T
      <4>5. Cap - Len(queue'[Concentrator]) <= Cardinality(T)
        BY <3>1, <3>5, <4>3, <4>4
      <4> QED
        BY <4>5 DEF T
    <3> QED
      BY <3>6, <3>7
  <2>4. sendWakers'[Notifier] = {}
    BY <1>1, <2>1 DEF Senders
  <2> QED
    BY <2>2, <2>3, <2>4 DEF Senders, Feeder
<1> QED
  BY <1>6, <1>7, <1>8, <1>9 DEF WakerInv

\* A task that receives with recv wakes a sender; try_recv needs to wake nobody.
LEMMA ReceiveKeeps ==
  ASSUME DriverInv, WakerInv, NEW c \in Channels,
         ~Sleeping(Receiver(c)), SendTarget(Receiver(c)) = None,
         queue[c] # <<>>, TakeHead(c),
         \/ RecvReady(c)
         \/ c \in LaneElements /\ draining[c] /\ UNCHANGED <<sendWakers, recvWakers>>,
         draining' \in [Elements -> BOOLEAN],
         \A x \in AllTasks : x # Receiver(c) => SendTarget(x)' = SendTarget(x),
         NoneEnds', Draining'
  PROVE  WakerInv'
<1> USE PipelineAssumption
<1> DEFINE t == Receiver(c)
<1>1. LaneTypes /\ Types /\ recvWakers' = recvWakers /\ t \in AllTasks
  BY Tasks DEF DriverInv, WakerInv, RecvReady
<1>2. recvWakers[c] = {} /\ \A d \in Channels : t \notin sendWakers[d] /\ t \notin recvWakers[d]
  <2>1. \A d \in Channels : t \notin sendWakers[d] /\ t \notin recvWakers[d]
    BY DEF Sleeping
  <2>2. recvWakers[c] # {} => recvWakers[c] = {t}
    BY DEF WakerInv, Receivers
  <2> QED
    BY <2>1, <2>2
<1>3. /\ \A d \in Channels : d # c => queue'[d] = queue[d]
      /\ Len(queue'[c]) = Len(queue[c]) - 1 /\ Len(queue[c]) \in Nat
  <2>1. queue \in [Channels -> Seq(Message)] /\ queue' = [queue EXCEPT ![c] = Tail(@)]
    BY <1>1 DEF Types, TakeHead
  <2>2. queue'[c] = Tail(queue[c]) /\ \A d \in Channels : d # c => queue'[d] = queue[d]
    BY <2>1
  <2>3. queue[c] \in Seq(Message)
    BY <2>1
  <2>4. Len(Tail(queue[c])) = Len(queue[c]) - 1 /\ Len(queue[c]) \in Nat
    BY <2>3, HeadTailProperties, LenProperties
  <2> QED
    BY <2>2, <2>4
<1>4. /\ sendWakers' \in [Channels -> SUBSET AllTasks]
      /\ \A d \in Channels : sendWakers'[d] \subseteq sendWakers[d]
      /\ \A d \in Channels : d # c => sendWakers'[d] = sendWakers[d]
      /\ \/ sendWakers[c] = {} /\ sendWakers'[c] = {}
         \/ \E u \in sendWakers[c] : sendWakers'[c] = sendWakers[c] \ {u}
         \/ c \in LaneElements /\ draining[c] /\ sendWakers'[c] = sendWakers[c]
  <2>1. CASE RecvReady(c)
    <3>1. sendWakers \in [Channels -> SUBSET AllTasks]
      BY <1>1 DEF LaneTypes
    <3>2. IF sendWakers[c] = {} THEN sendWakers' = sendWakers
            ELSE \E x \in sendWakers[c] : sendWakers' = [sendWakers EXCEPT ![c] = @ \ {x}]
      BY <2>1 DEF RecvReady, notify
    <3> QED
      BY <3>1, <3>2, NotifyOne
  <2>2. CASE c \in LaneElements /\ draining[c] /\ UNCHANGED <<sendWakers, recvWakers>>
    BY <1>1, <2>2 DEF LaneTypes
  <2> QED
    BY <2>1, <2>2
<1>5. LaneTypes'
  BY <1>1, <1>4 DEF LaneTypes
<1>6. Receivers'
  <2> SUFFICES ASSUME NEW d \in Channels, recvWakers[d] # {}
               PROVE  /\ recvWakers[d] = {Receiver(d)} /\ queue'[d] = <<>>
                      /\ SendTarget(Receiver(d))' = None
    BY <1>1 DEF Receivers, Receiver
  <2>1. d # c
    BY <1>2
  <2>2. recvWakers[d] = {Receiver(d)} /\ queue[d] = <<>> /\ SendTarget(Receiver(d)) = None
    BY DEF WakerInv, Receivers
  <2>3. Receiver(d) # t /\ Receiver(d) \in AllTasks
    BY <1>2, <2>2, Tasks
  <2>4. queue'[d] = <<>>
    BY <1>3, <2>1, <2>2
  <2>5. SendTarget(Receiver(d))' = None
    BY <2>2, <2>3 DEF Receiver
  <2> QED
    BY <2>2, <2>4, <2>5
<1>7. Targets'
  <2> SUFFICES ASSUME NEW d \in Channels, NEW x \in sendWakers'[d]
               PROVE  SendTarget(x)' = d
    BY DEF Targets
  <2>1. x \in sendWakers[d]
    BY <1>4
  <2>2. SendTarget(x) = d /\ x \in AllTasks /\ x # t
    BY <1>1, <1>2, <2>1 DEF WakerInv, Targets, LaneTypes
  <2> QED
    BY <2>2
<1>8. ASSUME Messages <= Cap PROVE Senders'
  <2>1. Senders
    BY <1>8 DEF WakerInv
  <2>2. ASSUME NEW d \in LaneElements, sendWakers'[d] # {}
        PROVE  sendWakers'[d] = {Feeder(d)} /\ Full(d)' /\ HasConfig(queue'[d])
    <3>1. d \in Channels
      BY Names
    <3>2. sendWakers[d] = {Feeder(d)} /\ Full(d) /\ HasConfig(queue[d])
      BY <1>4, <2>1, <2>2, <3>1 DEF Senders
    <3>3. d # c
      <4> SUFFICES ASSUME d = c PROVE FALSE
        OBVIOUS
      <4>1. \A u \in sendWakers[c] : sendWakers[c] \ {u} = {}
        BY <3>2
      <4>2. draining[c]
        BY <1>4, <2>2, <4>1
      <4>3. ~HasConfig(queue[c])
        BY <4>2, Names DEF WakerInv, Draining
      <4> QED
        BY <3>2, <4>3
    <3>4. queue'[d] = queue[d] /\ sendWakers'[d] = sendWakers[d]
      BY <1>3, <1>4, <3>1, <3>3
    <3> QED
      BY <3>2, <3>4 DEF Full
  <2>3. ASSUME sendWakers'[Concentrator] # {}
        PROVE  Cap - Len(queue'[Concentrator]) <= Cardinality(Coming(Concentrator)')
    <3> DEFINE S == Coming(Concentrator)
               T == Coming(Concentrator)'
    <3>1. Concentrator \in Channels /\ Concentrator \notin LaneElements
      BY Names
    <3>2. Cap - Len(queue[Concentrator]) <= Cardinality(S)
      BY <1>4, <2>1, <2>3, <3>1 DEF Senders
    <3>3. S \subseteq AllTasks /\ T \subseteq AllTasks
      BY DEF Coming
    <3>4. S \subseteq T
      <4>1. \A x : ~Sleeping(x) => ~Sleeping(x)'
        BY <1>1, <1>4, AwakeStays
      <4>2. t \notin S
        BY <3>1, Names DEF Coming
      <4>3. \A x \in S : x \in AllTasks /\ x # t /\ ~Sleeping(x) /\ SendTarget(x) = Concentrator
        BY <4>2 DEF Coming
      <4>4. \A x \in S : SendTarget(x)' = Concentrator /\ ~Sleeping(x)' /\ x \in AllTasks
        BY <4>1, <4>3
      <4> QED
        BY <4>4 DEF Coming
    <3>5. /\ Cardinality(S) \in Nat /\ Cardinality(T) \in Nat
          /\ Cardinality(S) <= Cardinality(T)
          /\ \A x \in T : x \notin S => Cardinality(S) + 1 <= Cardinality(T)
      BY <3>3, <3>4, Tasks, NoneFewer
    <3>6. Len(queue[Concentrator]) \in Nat
      <4>1. queue[Concentrator] \in Seq(Message)
        BY <1>1, <3>1 DEF Types
      <4> QED
        BY <4>1, LenProperties
    <3>7. CASE c = Concentrator
      <4>1. sendWakers[c] # {}
        BY <1>4, <2>3, <3>7
      <4>2. PICK u \in sendWakers[c] : sendWakers'[c] = sendWakers[c] \ {u}
        BY <1>4, <3>1, <3>7, <4>1
      <4>3. SendTarget(u) = c /\ u \in AllTasks /\ Sleeping(u) /\ u # t
        BY <1>1, <1>2, <4>2 DEF WakerInv, Targets, LaneTypes, Sleeping
      <4>4. u \notin S
        BY <4>3 DEF Coming
      <4>5. SendTarget(u)' = Concentrator
        BY <3>7, <4>3
      <4>6. ASSUME NEW d \in Channels PROVE u \notin sendWakers'[d] /\ u \notin recvWakers'[d]
        <5>1. d # c => u \notin sendWakers[d]
          BY <4>3 DEF WakerInv, Targets
        <5>2. u \notin sendWakers'[d]
          BY <1>4, <4>2, <5>1
        <5>3. u \notin recvWakers[d]
          BY <3>1, <3>7, <4>3, Names DEF WakerInv, Receivers
        <5> QED
          BY <1>1, <5>2, <5>3
      <4>7. u \in T
        BY <4>3, <4>5, <4>6 DEF Coming, Sleeping
      <4>8. Cardinality(S) + 1 <= Cardinality(T)
        BY <3>5, <4>4, <4>7
      <4>9. Len(queue'[Concentrator]) = Len(queue[Concentrator]) - 1
        BY <1>3, <3>7
      <4>10. Cardinality(S) \in Nat /\ Cardinality(T) \in Nat
        BY <3>5
      <4> HIDE DEF S, T
      <4>11. Cap - Len(queue'[Concentrator]) <= Cardinality(T)
        BY <3>2, <3>6, <4>8, <4>9, <4>10
      <4> QED
        BY <4>11 DEF T
    <3>8. CASE c # Concentrator
      <4>1. queue'[Concentrator] = queue[Concentrator]
        BY <1>3, <3>1, <3>8
      <4> HIDE DEF S, T
      <4>2. Cap - Len(queue'[Concentrator]) <= Cardinality(T)
        BY <3>2, <3>5, <3>6, <4>1
      <4> QED
        BY <4>2 DEF T
    <3> QED
      BY <3>7, <3>8
  <2>4. sendWakers'[Notifier] = {}
    BY <1>4, <2>1, Names DEF Senders
  <2> QED
    BY <2>2, <2>3, <2>4 DEF Senders, Feeder
<1> QED
  BY <1>5, <1>6, <1>7, <1>8 DEF WakerInv

\* A task goes to sleep on a full channel, where no free slot is owed to anyone.
LEMMA ParkSendKeeps ==
  ASSUME DriverInv, WakerInv, NEW t \in AllTasks, ~Sleeping(t), ParkSend(t)
  PROVE  WakerInv'
<1> USE PipelineAssumption
<1> DEFINE c == SendTarget(t)
<1>1. /\ c \in Channels /\ Full(c) /\ LaneTypes /\ Types
      /\ sendWakers' = [sendWakers EXCEPT ![c] = @ \cup {t}]
      /\ UNCHANGED <<vars, recvWakers, draining>>
  BY DEF DriverInv, WakerInv, ParkSend
<1>2. UNCHANGED <<queue, fwd, pc, todo, phase, iteration, lane, id>>
  BY <1>1 DEF vars
<1> HIDE DEF c
<1>3. /\ sendWakers' \in [Channels -> SUBSET AllTasks]
      /\ sendWakers'[c] = sendWakers[c] \cup {t}
      /\ \A d \in Channels : d # c => sendWakers'[d] = sendWakers[d]
  BY <1>1 DEF LaneTypes
<1>4. \A x : SendTarget(x)' = SendTarget(x)
  BY <1>2 DEF SendTarget
<1>5. LaneTypes' /\ NoneEnds' /\ Draining' /\ Receivers'
  <2>1. LaneTypes'
    BY <1>1, <1>3 DEF LaneTypes
  <2>2. NoneEnds'
    BY <1>2 DEF WakerInv, NoneEnds, Open
  <2>3. Draining'
    BY <1>1, <1>2 DEF WakerInv, Draining, ConfigSent
  <2>4. Receivers'
    BY <1>1, <1>2, <1>4 DEF WakerInv, Receivers, Receiver
  <2> QED
    BY <2>1, <2>2, <2>3, <2>4
<1>6. Targets'
  <2> SUFFICES ASSUME NEW d \in Channels, NEW x \in sendWakers'[d] PROVE SendTarget(x) = d
    BY <1>4 DEF Targets
  <2>1. x \in sendWakers[d] \/ (d = c /\ x = t)
    BY <1>3
  <2> QED
    BY <2>1 DEF WakerInv, Targets, c
<1>7. ASSUME Messages <= Cap PROVE Senders'
  <2>1. Senders
    BY <1>7 DEF WakerInv
  <2>2. c # Notifier /\ (c \in LaneElements => HasConfig(queue[c]) /\ t = Feeder(c))
    BY <1>1, <1>7, Blocked DEF c
  <2>3. ASSUME NEW d \in LaneElements, sendWakers'[d] # {}
        PROVE  sendWakers'[d] = {Feeder(d)} /\ Full(d) /\ HasConfig(queue[d])
    <3>1. sendWakers[d] # {} => sendWakers[d] = {Feeder(d)} /\ Full(d) /\ HasConfig(queue[d])
      BY <2>1 DEF Senders
    <3>2. CASE d = c
      BY <1>1, <1>3, <2>2, <3>1, <3>2
    <3>3. CASE d # c
      BY <1>3, <2>3, <3>1, <3>3, Names
    <3> QED
      BY <3>2, <3>3
  <2>4. ASSUME sendWakers'[Concentrator] # {}
        PROVE  Cap - Len(queue'[Concentrator]) <= Cardinality(Coming(Concentrator)')
    <3> DEFINE S == Coming(Concentrator)
               T == Coming(Concentrator)'
    <3>1. Concentrator \in Channels
      BY Names
    <3>2. S \subseteq AllTasks /\ T \subseteq AllTasks
      BY DEF Coming
    <3>3. Cardinality(T) \in Nat
      BY <3>2, Tasks, NoneFewer
    <3>4. queue[Concentrator] \in Seq(Message) /\ Len(queue[Concentrator]) \in Nat
      BY <1>1, <3>1, LenProperties DEF Types
    <3>5. CASE c = Concentrator
      <4>1. Len(queue[Concentrator]) = Cap
        BY <1>1, <3>5 DEF Full
      <4> HIDE DEF S, T
      <4>2. Cap - Len(queue'[Concentrator]) <= Cardinality(T)
        BY <1>2, <3>3, <4>1
      <4> QED
        BY <4>2 DEF T
    <3>6. CASE c # Concentrator
      <4>1. Cap - Len(queue[Concentrator]) <= Cardinality(S)
        BY <1>3, <2>1, <2>4, <3>1, <3>6 DEF Senders
      <4>2. ASSUME NEW x \in S PROVE x \in T
        <5>1. x \in AllTasks /\ ~Sleeping(x) /\ SendTarget(x) = Concentrator /\ x # t
          BY <3>6 DEF Coming, c
        <5>2. \A d \in Channels : x \notin sendWakers'[d] /\ x \notin recvWakers'[d]
          BY <1>1, <1>3, <5>1 DEF Sleeping
        <5> QED
          BY <1>4, <5>1, <5>2 DEF Coming, Sleeping
      <4>3. Cardinality(S) \in Nat /\ Cardinality(S) <= Cardinality(T)
        BY <3>2, <4>2, Tasks, NoneFewer
      <4> HIDE DEF S, T
      <4>4. Cap - Len(queue'[Concentrator]) <= Cardinality(T)
        BY <1>2, <3>3, <3>4, <4>1, <4>3
      <4> QED
        BY <4>4 DEF T
    <3> QED
      BY <3>5, <3>6
  <2>5. sendWakers'[Notifier] = {}
    BY <1>3, <2>1, <2>2, Names DEF Senders
  <2> QED
    BY <1>2, <2>3, <2>4, <2>5 DEF Senders, Feeder, Full
<1> QED
  BY <1>5, <1>6, <1>7 DEF WakerInv

\* A task goes to sleep on its own empty channel.
LEMMA ParkRecvKeeps ==
  ASSUME DriverInv, WakerInv, NEW c \in Channels,
         ~Sleeping(Receiver(c)), SendTarget(Receiver(c)) = None, ParkRecv(Receiver(c), c)
  PROVE  WakerInv'
<1> DEFINE t == Receiver(c)
<1>1. /\ queue[c] = <<>> /\ LaneTypes /\ t \in AllTasks
      /\ recvWakers' = [recvWakers EXCEPT ![c] = @ \cup {t}]
      /\ UNCHANGED <<vars, sendWakers, draining>>
  BY Tasks DEF WakerInv, ParkRecv
<1>2. UNCHANGED <<queue, fwd, pc, todo, phase, iteration, lane, id>>
  BY <1>1 DEF vars
<1>3. /\ recvWakers' \in [Channels -> SUBSET AllTasks]
      /\ recvWakers'[c] = recvWakers[c] \cup {t}
      /\ \A d \in Channels : d # c => recvWakers'[d] = recvWakers[d]
  BY <1>1 DEF LaneTypes
<1>4. \A x : SendTarget(x)' = SendTarget(x)
  BY <1>2 DEF SendTarget
<1>5. LaneTypes' /\ NoneEnds' /\ Draining' /\ Targets'
  <2>1. LaneTypes'
    BY <1>1, <1>3 DEF LaneTypes
  <2>2. NoneEnds'
    BY <1>2 DEF WakerInv, NoneEnds, Open
  <2>3. Draining'
    BY <1>1, <1>2 DEF WakerInv, Draining, ConfigSent
  <2>4. Targets'
    BY <1>1, <1>4 DEF WakerInv, Targets
  <2> QED
    BY <2>1, <2>2, <2>3, <2>4
<1>6. Receivers'
  <2> SUFFICES ASSUME NEW d \in Channels, recvWakers'[d] # {}
               PROVE  /\ recvWakers'[d] = {Receiver(d)} /\ queue[d] = <<>>
                      /\ SendTarget(Receiver(d)) = None
    BY <1>2, <1>4 DEF Receivers, Receiver
  <2>1. recvWakers[d] # {} =>
          recvWakers[d] = {Receiver(d)} /\ queue[d] = <<>> /\ SendTarget(Receiver(d)) = None
    BY DEF WakerInv, Receivers
  <2>2. CASE d = c
    BY <1>1, <1>3, <2>1, <2>2
  <2>3. CASE d # c
    BY <1>3, <2>1, <2>3
  <2> QED
    BY <2>2, <2>3
<1>7. ASSUME Messages <= Cap PROVE Senders'
  <2>1. Senders
    BY <1>7 DEF WakerInv
  <2>2. Concentrator \in Channels
    BY Names
  <2>3. Coming(Concentrator)' = Coming(Concentrator)
    <3>1. ASSUME NEW x \in AllTasks, SendTarget(x) = Concentrator
          PROVE  Sleeping(x)' <=> Sleeping(x)
      <4>1. x # t
        BY <2>2, <3>1, Names
      <4>2. \A d \in Channels : x \in recvWakers'[d] <=> x \in recvWakers[d]
        BY <1>3, <4>1
      <4> QED
        BY <1>1, <4>2 DEF Sleeping
    <3> QED
      BY <1>4, <3>1 DEF Coming
  <2> QED
    BY <1>1, <1>2, <2>1, <2>3 DEF Senders, Feeder, Full
<1> QED
  BY <1>5, <1>6, <1>7 DEF WakerInv

\* Whatever leaves the wakers and the channels of the elements alone, and takes no
\* send away.
LEMMA LocalKeeps ==
  ASSUME DriverInv, WakerInv, UNCHANGED <<sendWakers, recvWakers>>,
         draining' \in [Elements -> BOOLEAN],
         NEW t \in AllTasks, ~Sleeping(t), SendTarget(t) = None,
         \A x \in AllTasks : x # t => SendTarget(x)' = SendTarget(x),
         \A e \in Elements : queue'[e] = queue[e],
         queue'[Notifier] = queue[Notifier] \/ queue'[Notifier] = <<>>,
         NoneEnds', Draining'
  PROVE  WakerInv'
<1>1. LaneTypes'
  BY DEF WakerInv, LaneTypes
<1>2. \A d \in Channels : t \notin sendWakers[d] /\ t \notin recvWakers[d]
  BY DEF Sleeping
<1>3. Receivers'
  <2> SUFFICES ASSUME NEW d \in Channels, recvWakers[d] # {}
               PROVE  /\ recvWakers[d] = {Receiver(d)} /\ queue'[d] = <<>>
                      /\ SendTarget(Receiver(d))' = None
    BY DEF Receivers, Receiver
  <2>1. recvWakers[d] = {Receiver(d)} /\ queue[d] = <<>> /\ SendTarget(Receiver(d)) = None
    BY DEF WakerInv, Receivers
  <2>2. Receiver(d) # t /\ Receiver(d) \in AllTasks
    BY <1>2, <2>1, Tasks
  <2>3. queue'[d] = <<>>
    BY <2>1, Names
  <2>4. SendTarget(Receiver(d))' = None
    BY <2>1, <2>2 DEF Receiver
  <2> QED
    BY <2>1, <2>3, <2>4
<1>4. Targets'
  <2> SUFFICES ASSUME NEW d \in Channels, NEW x \in sendWakers[d] PROVE SendTarget(x)' = d
    BY DEF Targets
  <2>1. SendTarget(x) = d /\ x \in AllTasks /\ x # t
    BY <1>2 DEF WakerInv, Targets, LaneTypes
  <2> QED
    BY <2>1
<1>5. ASSUME Messages <= Cap PROVE Senders'
  <2>1. Senders
    BY <1>5 DEF WakerInv
  <2>2. LaneElements \subseteq Elements /\ Concentrator \in Elements /\ Concentrator \in Channels
    BY Names
  <2>3. \A d \in LaneElements : sendWakers'[d] # {} =>
          sendWakers'[d] = {Feeder(d)} /\ Full(d)' /\ HasConfig(queue'[d])
    BY <2>1, <2>2 DEF Senders, Full
  <2>4. ASSUME sendWakers[Concentrator] # {}
        PROVE  Cap - Len(queue'[Concentrator]) <= Cardinality(Coming(Concentrator)')
    <3> DEFINE S == Coming(Concentrator)
               T == Coming(Concentrator)'
    <3>1. Cap - Len(queue[Concentrator]) <= Cardinality(S)
      BY <2>1, <2>4 DEF Senders
    <3>2. S \subseteq AllTasks /\ T \subseteq AllTasks
      BY DEF Coming
    <3>3. ASSUME NEW x \in S PROVE x \in T
      <4>1. x \in AllTasks /\ ~Sleeping(x) /\ SendTarget(x) = Concentrator /\ x # t
        BY <2>2, Names DEF Coming
      <4>2. SendTarget(x)' = Concentrator /\ ~Sleeping(x)'
        BY <4>1 DEF Sleeping
      <4> QED
        BY <4>1, <4>2 DEF Coming
    <3>4. /\ Cardinality(S) \in Nat /\ Cardinality(T) \in Nat
          /\ Cardinality(S) <= Cardinality(T)
      BY <3>2, <3>3, Tasks, NoneFewer
    <3>5. queue[Concentrator] \in Seq(Message) /\ Len(queue[Concentrator]) \in Nat
      BY <2>2, LenProperties DEF DriverInv, Types
    <3> HIDE DEF S, T
    <3>6. Cap - Len(queue'[Concentrator]) <= Cardinality(T)
      BY <2>2, <3>1, <3>4, <3>5, PipelineAssumption
    <3> QED
      BY <3>6 DEF T
  <2>5. sendWakers'[Notifier] = {}
    BY <2>1 DEF Senders
  <2> QED
    BY <2>3, <2>4, <2>5 DEF Senders, Feeder
<1> QED
  BY <1>1, <1>3, <1>4, <1>5 DEF WakerInv

-----------------------------------------------------------------------------
(* The steps of the tasks.                                                 *)

\* A receive takes the head of the element's channel, and the rest is data.
LEMMA ReceiveStep ==
  ASSUME DriverInv, WakerInv, NEW e \in Elements, pc[e] = "recv", Receive(e, {e}),
         UNCHANGED driverVars
  PROVE  /\ queue[e] # <<>> /\ TakeHead(e)
         /\ \A d \in Channels : d # e => queue'[d] = queue[d]
         /\ ConfigSent(e)' /\ ~HasConfig(queue'[e])
         /\ \A x : ConfigSent(x)' <=> ConfigSent(x)
         /\ \A x \in AllTasks : x # e => SendTarget(x)' = SendTarget(x)
         /\ NoneEnds'
<1>1. Types /\ e \in Channels /\ e \in {e}
  BY Names DEF DriverInv
<1>2. ReceiveConfig(e, {e}) \/ ReceiveData(e, {e})
  BY <1>1, SequenceErrorNever DEF Receive
<1>3. queue[e] # <<>> /\ TakeHead(e) /\ queue[e] \in Seq(Message) /\ DataBehind(queue[e])
  BY <1>1, <1>2 DEF DriverInv, Configuration, Types, ReceiveConfig, ReceiveData, Receiving
<1>4. queue'[e] = Tail(queue[e]) /\ \A d \in Channels : d # e => queue'[d] = queue[d]
  BY <1>1, <1>3 DEF Types, TakeHead
<1>5. ~HasConfig(queue'[e])
  <2>1. CASE HasConfig(queue[e])
    BY <1>3, <1>4, <2>1, TakeConfig
  <2>2. CASE ~HasConfig(queue[e])
    BY <1>3, <1>4, <2>2, TakeData
  <2> QED
    BY <2>1, <2>2
<1>6. \A x : ConfigSent(x)' <=> ConfigSent(x)
  BY DEF driverVars, ConfigSent
<1>7. ConfigSent(e)
  <2>1. Open(e)
    BY DEF WakerInv, NoneEnds
  <2> QED
    BY <1>3, <2>1 DEF DriverInv, Configuration
<1>8. \A x \in Elements : x # e => pc'[x] = pc[x] /\ todo'[x] = todo[x] /\ fwd'[x] = fwd[x]
  <2>1. \A x \in Channels : x # e => pc'[x] = pc[x]
    BY <1>1, <1>2 DEF Types, ReceiveConfig, ReceiveData
  <2>2. \A x \in Elements : x # e => todo'[x] = todo[x]
    BY <1>1, <1>2 DEF Types, ReceiveConfig, ReceiveData
  <2>3. \A x \in Elements : x # e => fwd'[x] = fwd[x]
    BY <1>1, <1>2 DEF Types, ReceiveConfig, ReceiveData
  <2> QED
    BY <2>1, <2>2, <2>3, Names
<1>9. \A x \in AllTasks : x # e => SendTarget(x)' = SendTarget(x)
  BY <1>8, TargetFrame DEF driverVars
<1>10. NoneEnds'
  <2>1. pc'[e] \in {"recv", "action"}
    BY <1>1, <1>2 DEF Types, ReceiveConfig, ReceiveData
  <2> QED
    BY <1>8, <2>1 DEF WakerInv, NoneEnds, Open
<1> QED
  BY <1>3, <1>4, <1>5, <1>6, <1>7, <1>9, <1>10

\* A turn of handle_action or handle_notification makes one send at most, of data.
LEMMA ActStep ==
  ASSUME DriverInv, WakerInv, NEW e \in Elements,
         handle_action(e) \/ handle_notification(e), UNCHANGED driverVars
  PROVE  LET c == SendTarget(e)
         IN  /\ \/ c = None /\ queue' = queue
                \/ c # None /\ \E n \in Nat : send_cmd(c, TestData(n))
             /\ \A x \in AllTasks : x # e => SendTarget(x)' = SendTarget(x)
             /\ \A x : ConfigSent(x)' <=> ConfigSent(x)
             /\ NoneEnds'
<1> DEFINE c == SendTarget(e)
<1>1. Types /\ e \in Channels /\ fwd[e] \in Forwarders
  BY Names DEF DriverInv, Types
<1>2. \/ c = None /\ queue' = queue
      \/ c # None /\ \E n \in Nat : send_cmd(c, TestData(n))
  <2>1. CASE handle_action(e)
    <3>1. c = Head(todo[e]) /\ send_cmd(c, TestData(fwd[e].send_count))
      BY <2>1, ElementTarget DEF handle_action
    <3>2. c # None
      <4>1. todo[e] \in Seq(LaneElements) /\ todo[e] # <<>>
        BY <1>1, <2>1 DEF Types, handle_action
      <4> QED
        BY <3>1, <4>1, Names
    <3>3. fwd[e].send_count \in Nat
      BY <1>1 DEF Forwarders
    <3> QED
      BY <3>1, <3>2, <3>3
  <2>2. CASE handle_notification(e) /\ notification_due(fwd[e])
    <3>1. c = fwd[e].notify_sender /\ send_cmd(c, TestData(fwd[e].received_count))
      BY <2>2, ElementTarget DEF handle_notification
    <3>2. fwd[e].received_count \in Nat
      BY <1>1 DEF Forwarders
    <3>3. c # None
      <4>1. pc[e] = "action"
        BY <2>2 DEF handle_notification
      <4>2. Configured(e) /\ fwd[e].received_count >= 1
        BY <4>1, ActionFacts
      <4>3. CASE e = Concentrator
        BY <3>1, <4>2, <4>3, ConfiguredSlots, Names
      <4>4. CASE e # Concentrator
        <5>1. PICK l \in 1..Lanes, i \in 1..Pipelines : e = Slot(l, i)
          BY <4>4, Slots
        <5>2. i = Pipelines
          BY <2>2, <4>2, <5>1, ConfiguredSlots DEF notification_due
        <5> QED
          BY <3>1, <4>2, <5>1, <5>2, ConfiguredSlots, Names
      <4> QED
        BY <4>3, <4>4
    <3> QED
      BY <3>1, <3>2, <3>3
  <2>3. CASE handle_notification(e) /\ ~notification_due(fwd[e])
    BY <2>3, ElementTarget DEF handle_notification
  <2> QED
    BY <2>1, <2>2, <2>3
<1>3. \A x \in Elements : x # e => pc'[x] = pc[x] /\ todo'[x] = todo[x] /\ fwd'[x] = fwd[x]
  <2>1. \A x \in Channels : x # e => pc'[x] = pc[x]
    BY <1>1 DEF Types, handle_action, handle_notification
  <2>2. \A x \in Elements : x # e => todo'[x] = todo[x]
    BY <1>1 DEF Types, handle_action, handle_notification
  <2>3. \A x \in Elements : x # e => fwd'[x] = fwd[x]
    BY <1>1 DEF Types, handle_action, handle_notification
  <2> QED
    BY <2>1, <2>2, <2>3, Names
<1>4. \A x \in AllTasks : x # e => SendTarget(x)' = SendTarget(x)
  BY <1>3, TargetFrame DEF driverVars
<1>5. NoneEnds'
  <2>1. pc'[e] \in {"recv", "action"}
    BY <1>1 DEF Types, handle_action, handle_notification
  <2> QED
    BY <1>3, <2>1 DEF WakerInv, NoneEnds, Open
<1>6. \A x : ConfigSent(x)' <=> ConfigSent(x)
  BY DEF driverVars, ConfigSent
<1> QED
  BY <1>2, <1>4, <1>5, <1>6

\* Data puts no configuration into a channel.
LEMMA DataSent ==
  ASSUME DriverInv, NEW c \in Channels, NEW n \in Nat, send_cmd(c, TestData(n))
  PROVE  \A d \in Channels : HasConfig(queue'[d]) <=> HasConfig(queue[d])
<1>1. CASE Open(c)
  BY <1>1, SendStep
<1>2. CASE ~Open(c)
  BY <1>2 DEF send_cmd
<1> QED
  BY <1>1, <1>2

\* The task of an element keeps the sleepers' reasons.
LEMMA TaskKeeps ==
  ASSUME DriverInv, WakerInv, NEW e \in Elements, TaskStep(e)
  PROVE  WakerInv'
<1>1. /\ ~Sleeping(e) /\ UNCHANGED driverVars /\ Receiver(e) = e
      /\ e \in Channels /\ e \in AllTasks /\ draining \in [Elements -> BOOLEAN]
  BY Tasks, Names DEF TaskStep, WakerInv, LaneTypes
<1>2. ASSUME pc[e] = "recv", Receive(e, {e}),
             \/ RecvReady(e) /\ draining' = [draining EXCEPT ![e] = e \in LaneElements]
             \/ draining[e] /\ UNCHANGED laneVars
      PROVE  WakerInv'
  <2>1. /\ queue[e] # <<>> /\ TakeHead(e)
        /\ \A d \in Channels : d # e => queue'[d] = queue[d]
        /\ ConfigSent(e)' /\ ~HasConfig(queue'[e])
        /\ \A x : ConfigSent(x)' <=> ConfigSent(x)
        /\ \A x \in AllTasks : x # e => SendTarget(x)' = SendTarget(x)
        /\ NoneEnds'
    BY <1>1, <1>2, ReceiveStep
  <2>2. SendTarget(e) = None
    BY <1>2, ElementTarget
  <2>3. \A x \in Elements : draining[x] => x \in LaneElements /\ ConfigSent(x) /\ ~HasConfig(queue[x])
    BY DEF WakerInv, Draining
  <2>4. /\ draining' \in [Elements -> BOOLEAN]
        /\ draining'[e] => e \in LaneElements
        /\ \A x \in Elements : x # e => draining'[x] = draining[x]
    <3>1. CASE draining' = [draining EXCEPT ![e] = e \in LaneElements]
      <4> DEFINE b == e \in LaneElements
      <4>1. b \in BOOLEAN /\ draining \in [Elements -> BOOLEAN] /\ (b => e \in LaneElements)
        BY <1>1
      <4>2. draining' = [draining EXCEPT ![e] = b]
        BY <3>1
      <4> HIDE DEF b
      <4>3. draining' \in [Elements -> BOOLEAN]
        BY <4>1, <4>2
      <4>4. draining'[e] = b /\ \A x \in Elements : x # e => draining'[x] = draining[x]
        BY <4>1, <4>2, Zenon
      <4> QED
        BY <4>1, <4>3, <4>4
    <3>2. CASE draining[e] /\ draining' = draining
      BY <1>1, <2>3, <3>2
    <3> QED
      BY <1>2, <3>1, <3>2 DEF laneVars
  <2>5. Draining'
    BY <2>1, <2>3, <2>4, Names DEF Draining
  <2>6. RecvReady(e) \/ (e \in LaneElements /\ draining[e] /\ UNCHANGED <<sendWakers, recvWakers>>)
    BY <1>2, <2>3 DEF laneVars
  <2> QED
    BY <1>1, <2>1, <2>2, <2>4, <2>5, <2>6, ReceiveKeeps
<1>3. CASE Recv(e)
  <2>1. CASE ParkRecv(e, e)
    BY <1>1, <1>3, <2>1, ElementTarget, ParkRecvKeeps DEF Recv
  <2> QED
    BY <1>2, <1>3, <2>1 DEF Recv
<1>4. CASE TryRecv(e)
  <2>1. CASE /\ draining' = [draining EXCEPT ![e] = FALSE]
             /\ UNCHANGED <<vars, sendWakers, recvWakers>>
    <3>1. UNCHANGED <<queue, fwd, pc, todo, phase, iteration, lane, id>>
      BY <2>1 DEF vars
    <3>2. SendTarget(e) = None /\ \A x : SendTarget(x)' = SendTarget(x)
      BY <1>4, <3>1, ElementTarget DEF TryRecv, SendTarget
    <3>3. NoneEnds' /\ Draining' /\ draining' \in [Elements -> BOOLEAN]
      BY <1>1, <2>1, <3>1 DEF WakerInv, NoneEnds, Open, Draining, ConfigSent
    <3> QED
      BY <1>1, <2>1, <3>1, <3>2, <3>3, LocalKeeps
  <2> QED
    BY <1>2, <1>4, <2>1 DEF TryRecv
<1>5. CASE Act(e)
  <2>1. CASE /\ handle_action(e) \/ handle_notification(e)
             /\ SendReady(SendTarget(e))
             /\ UNCHANGED draining
    <3> DEFINE c == SendTarget(e)
    <3>1. /\ \/ c = None /\ queue' = queue
             \/ c # None /\ \E n \in Nat : send_cmd(c, TestData(n))
          /\ \A x \in AllTasks : x # e => SendTarget(x)' = SendTarget(x)
          /\ \A x : ConfigSent(x)' <=> ConfigSent(x)
          /\ NoneEnds'
      BY <1>1, <2>1, ActStep
    <3>2. c \in Channels \cup {None}
      BY <1>1, TargetFound
    <3> HIDE DEF c
    <3>3. \A d \in Channels : HasConfig(queue'[d]) <=> HasConfig(queue[d])
      BY <3>1, <3>2, DataSent
    <3>4. Draining'
      BY <2>1, <3>1, <3>3, Names DEF WakerInv, Draining
    <3>5. \/ c = None /\ queue' = queue
          \/ c # None /\ \E m : send_cmd(c, m)
      BY <3>1
    <3>6. c = SendTarget(e) /\ SendReady(c)
      BY <2>1 DEF c
    <3> QED
      BY <1>1, <2>1, <3>1, <3>4, <3>5, <3>6, SendKeeps
  <2>2. CASE ParkSend(e)
    BY <1>1, <2>2, ParkSendKeeps
  <2> QED
    BY <1>5, <2>1, <2>2 DEF Act
<1> QED
  BY <1>3, <1>4, <1>5 DEF TaskStep

\* The main thread touches the receivers, counters and loops of no element, but for
\* the element that it makes, which does not act.
LEMMA MainFrame ==
  ASSUME DriverInv, WakerInv,
         \/ SetupElement("recv") \/ SetupLane \/ SetupNotifier
         \/ Run \/ RunSend \/ RunWait(Channels) \/ DropHead \/ DropNotifier
  PROVE  /\ \A x \in AllTasks : x # Main => SendTarget(x)' = SendTarget(x)
         /\ NoneEnds'
         /\ \A e \in Elements : ConfigSent(e) => ConfigSent(e)'
<1> USE PipelineAssumption
<1>1. Types /\ Control /\ UNCHANGED <<fwd, todo>>
  BY DEF DriverInv, SetupElement, SetupLane, SetupNotifier, Run, RunSend, RunWait,
         DropHead, DropNotifier
<1>2. \A e \in Elements : (pc'[e] = "action" <=> pc[e] = "action") /\ (Open(e) => Open(e)')
  <2>1. CASE SetupElement("recv")
    <3>1. /\ pc' = [pc EXCEPT ![<<lane, id>>] = "recv"] 
          /\ pc \in [Channels -> {"unborn", "recv", "action", "exited", "panicked"}]
          /\ lane \in 1..Lanes /\ id \in 1..Pipelines /\ phase = "setup"
      BY <1>1, <2>1 DEF SetupElement, Types, Control
    <3> DEFINE f == Slot(lane, id)
    <3>2. f \in Elements /\ f # Concentrator /\ f[1] = lane /\ f[2] = id
      BY <3>1, Slots
    <3>3. pc' = [pc EXCEPT ![f] = "recv"]
      BY <3>1 DEF Slot
    <3> HIDE DEF f
    <3>4. ~Created(f)
      BY <3>1, <3>2 DEF Created
    <3>5. pc[f] = "unborn"
      BY <3>2, <3>4 DEF DriverInv, Lifetimes
    <3>6. pc'[f] = "recv" /\ \A d \in Channels : d # f => pc'[d] = pc[d]
      BY <3>1, <3>2, <3>3, Names
    <3> QED
      BY <3>5, <3>6, Names DEF Open
  <2>2. CASE pc' = pc \/ \E s : pc' = [pc EXCEPT ![Notifier] = s]
    <3>1. \A e \in Elements : pc'[e] = pc[e]
      BY <1>1, <2>2, Names DEF Types
    <3> QED
      BY <3>1 DEF Open
  <2> QED
    BY <2>1, <2>2 DEF SetupLane, SetupNotifier, Run, RunSend, RunWait, DropHead, DropNotifier
<1>3. ASSUME NEW x \in AllTasks, x # Main PROVE SendTarget(x)' = SendTarget(x)
  BY <1>1, <1>2, <1>3, TargetFrame
<1>4. NoneEnds'
  BY <1>2 DEF WakerInv, NoneEnds
<1>5. ASSUME NEW e \in Elements, ConfigSent(e) PROVE ConfigSent(e)'
  <2>1. CASE phase # "setup"
    <3>1. phase' # "setup"
      BY <2>1 DEF SetupElement, SetupLane, SetupNotifier, Run, RunSend, RunWait,
                  DropHead, DropNotifier
    <3> QED
      BY <3>1, AllSent
  <2>2. CASE phase = "setup"
    <3>1. \/ e[1] \in 1..(lane - 1)
          \/ e[1] = lane /\ e[2] < id - 1
      BY <1>5, <2>2 DEF ConfigSent
    <3>2. \/ lane' = lane /\ id' = id + 1 /\ phase' = phase
          \/ lane' = lane + 1
          \/ phase' # "setup"
      BY <2>2 DEF SetupElement, SetupLane, SetupNotifier, Run, RunSend, RunWait,
                  DropHead, DropNotifier
    <3>3. lane \in Nat /\ id \in Nat /\ lane >= 1
      BY <1>1 DEF Types
    <3>4. CASE e[1] \in 1..(lane - 1)
      BY <3>2, <3>3, <3>4 DEF ConfigSent
    <3>5. CASE e[1] = lane /\ e[2] < id - 1
      <4>1. e[2] \in Nat
        BY Names, PipelineAssumption DEF Elements
      <4> QED
        BY <3>2, <3>3, <3>5, <4>1 DEF ConfigSent
    <3> QED
      BY <3>1, <3>4, <3>5
  <2> QED
    BY <2>1, <2>2
<1> QED
  BY <1>3, <1>4, <1>5

\* A send of the main thread configures an element that nothing was sent to, or is
\* data for a head.
LEMMA MainSends ==
  ASSUME DriverInv, WakerInv,
         \/ SetupElement("recv") \/ SetupLane
         \/ id = 1 /\ SetupNotifier
         \/ RunSend
  PROVE  LET c == SendTarget(Main)
         IN  /\ \/ c = None /\ queue' = queue
                \/ c # None /\ \E m : send_cmd(c, m)
             /\ \A e \in Elements : ConfigSent(e) /\ ~HasConfig(queue[e]) =>
                                      ~HasConfig(queue'[e])
<1> USE PipelineAssumption
<1> DEFINE c == SendTarget(Main)
<1>1. Types /\ Control /\ Main \in AllTasks
  BY Tasks DEF DriverInv
<1>2. c \in Channels \cup {None}
  BY <1>1, TargetFound
<1>3. CASE SetupElement("recv") \/ SetupLane \/ SetupNotifier
  <2>1. phase = "setup" /\ id \in 1..(Pipelines + 1) /\ lane \in 1..(Lanes + 1)
    BY <1>1, <1>3 DEF SetupElement, SetupLane, SetupNotifier, Control, Types
  <2>2. CASE SetupElement("recv") /\ id = 1
    <3>1. c = None
      BY <2>1, <2>2, MainTarget DEF SetupElement
    <3>2. queue' = queue
      BY <2>2 DEF SetupElement
    <3> QED
      BY <3>1, <3>2
  <2>3. ASSUME c # None, \E m : send_cmd(c, m),
               c \in Elements => ~ConfigSent(c)
        PROVE  /\ \E m : send_cmd(c, m)
               /\ \A e \in Elements : ConfigSent(e) /\ ~HasConfig(queue[e]) =>
                                        ~HasConfig(queue'[e])
    <3> HIDE DEF c
    <3>1. c \in Channels /\ queue \in [Channels -> Seq(Message)]
      BY <1>1, <1>2, <2>3 DEF Types
    <3>2. \A d \in Channels : d # c => queue'[d] = queue[d]
      BY <2>3, <3>1 DEF send_cmd
    <3> QED
      BY <2>3, <3>2, Names
  <2>4. CASE SetupElement("recv") /\ id # 1
    <3>1. id > 1 /\ lane <= Lanes /\ lane \in 1..Lanes /\ id - 1 \in 1..Pipelines
      BY <2>1, <2>4 DEF SetupElement
    <3>2. c = Slot(lane, id - 1)
      BY <2>1, <3>1, MainTarget
    <3>3. c # None /\ c[1] = lane /\ c[2] = id - 1
      BY <3>1, <3>2, Slots, Names
    <3>4. ~ConfigSent(c)
      BY <2>1, <3>1, <3>3 DEF ConfigSent
    <3>5. \E m : send_cmd(c, m)
      BY <2>4, <3>2 DEF SetupElement, Slot
    <3> QED
      BY <2>3, <3>3, <3>4, <3>5
  <2>5. CASE SetupLane
    <3>1. id > 1 /\ lane <= Lanes /\ lane \in 1..Lanes /\ id - 1 = Pipelines /\ id - 1 \in 1..Pipelines
      BY <2>1, <2>5 DEF SetupLane
    <3>2. c = Slot(lane, id - 1)
      BY <2>1, <3>1, MainTarget
    <3>3. c # None /\ c[1] = lane /\ c[2] = id - 1
      BY <3>1, <3>2, Slots, Names
    <3>4. ~ConfigSent(c)
      BY <2>1, <3>1, <3>3 DEF ConfigSent
    <3>5. c = <<lane, Pipelines>>
      BY <3>1, <3>2 DEF Slot
    <3>6. \E m : send_cmd(c, m)
      BY <2>5, <3>5 DEF SetupLane
    <3> QED
      BY <2>3, <3>3, <3>4, <3>6
  <2>6. CASE SetupNotifier
    <3>1. lane = Lanes + 1 /\ ~(lane <= Lanes)
      BY <2>6 DEF SetupNotifier
    <3>2. c = Concentrator /\ c # None
      BY <2>1, <3>1, MainTarget, Names
    <3>3. ~ConfigSent(c)
      BY <2>1, <3>1, <3>2, Names DEF ConfigSent
    <3>4. \E m : send_cmd(c, m)
      BY <2>6, <3>2 DEF SetupNotifier
    <3> QED
      BY <2>3, <3>2, <3>3, <3>4
  <2> QED
    BY <1>3, <2>2, <2>4, <2>5, <2>6
<1>4. CASE RunSend
  <2>1. c = Slot(lane, 1) /\ id \in Nat /\ c = <<lane, 1>>
    BY <1>1, <1>4, MainTarget DEF RunSend, Types, Slot
  <2>2. send_cmd(c, TestData(id)) /\ c # None
    <3>1. lane \in 1..Lanes /\ 1 \in 1..Pipelines
      BY <1>1, <1>4 DEF RunSend, Types, Control
    <3>2. c # None
      BY <2>1, <3>1, Slots, Names
    <3> QED
      BY <1>4, <2>1, <3>2 DEF RunSend
  <2> HIDE DEF c
  <2>3. \A d \in Channels : HasConfig(queue'[d]) <=> HasConfig(queue[d])
    BY <1>2, <2>1, <2>2, DataSent
  <2> QED
    BY <2>2, <2>3, Names DEF c
<1> QED
  BY <1>3, <1>4

\* The main thread keeps the sleepers' reasons.
LEMMA MainKeeps == ASSUME DriverInv, WakerInv, MainStep PROVE WakerInv'
<1>1. /\ ~Sleeping(Main) /\ Main \in AllTasks /\ Notifier \in Channels
      /\ Receiver(Notifier) = Main /\ draining \in [Elements -> BOOLEAN]
  BY Tasks, Names DEF MainStep, WakerInv, LaneTypes
<1>2. \A x \in Elements : draining[x] => x \in LaneElements /\ ConfigSent(x) /\ ~HasConfig(queue[x])
  BY DEF WakerInv, Draining
<1>3. CASE MainSend
  <2>1. CASE /\ \/ SetupElement("recv") \/ SetupLane
                \/ id = 1 /\ SetupNotifier
                \/ RunSend
             /\ SendReady(SendTarget(Main))
             /\ UNCHANGED draining
    <3> DEFINE c == SendTarget(Main)
    <3>1. /\ \/ c = None /\ queue' = queue
             \/ c # None /\ \E m : send_cmd(c, m)
          /\ \A e \in Elements : ConfigSent(e) /\ ~HasConfig(queue[e]) => ~HasConfig(queue'[e])
      BY <2>1, MainSends
    <3>2. /\ \A x \in AllTasks : x # Main => SendTarget(x)' = SendTarget(x)
          /\ NoneEnds'
          /\ \A e \in Elements : ConfigSent(e) => ConfigSent(e)'
      BY <2>1, MainFrame
    <3>3. Draining'
      BY <1>2, <2>1, <3>1, <3>2 DEF Draining
    <3>4. c = SendTarget(Main) /\ SendReady(c)
      BY <2>1
    <3> HIDE DEF c
    <3> QED
      BY <1>1, <2>1, <3>1, <3>2, <3>3, <3>4, SendKeeps
  <2>2. CASE ParkSend(Main)
    BY <1>1, <2>2, ParkSendKeeps
  <2> QED
    BY <1>3, <2>1, <2>2 DEF MainSend
<1>4. CASE MainRecv
  <2>1. SendTarget(Main) = None
    BY <1>4, MainTarget DEF MainRecv
  <2>2. CASE RunWait(Channels) /\ RecvReady(Notifier) /\ UNCHANGED draining
    <3>1. queue[Notifier] # <<>> /\ TakeHead(Notifier)
      BY <1>1, <2>2 DEF RunWait, Disconnected
    <3>2. \A e \in Elements : queue'[e] = queue[e]
      BY <3>1, Names DEF DriverInv, Types, TakeHead
    <3>3. /\ \A x \in AllTasks : x # Main => SendTarget(x)' = SendTarget(x)
          /\ NoneEnds'
          /\ \A e \in Elements : ConfigSent(e) => ConfigSent(e)'
      BY <2>2, MainFrame
    <3>4. Draining' /\ draining' \in [Elements -> BOOLEAN]
      BY <1>1, <1>2, <2>2, <3>2, <3>3 DEF Draining
    <3> QED
      BY <1>1, <2>1, <2>2, <3>1, <3>3, <3>4, ReceiveKeeps
  <2>3. CASE ParkRecv(Main, Notifier)
    BY <1>1, <2>1, <2>3, ParkRecvKeeps
  <2> QED
    BY <1>4, <2>2, <2>3 DEF MainRecv
<1>5. CASE MainLocal
  <2>1. SendTarget(Main) = None
    BY <1>5, MainTarget DEF MainLocal, Run, DropHead, DropNotifier
  <2>2. /\ \A x \in AllTasks : x # Main => SendTarget(x)' = SendTarget(x)
        /\ NoneEnds'
        /\ \A e \in Elements : ConfigSent(e) => ConfigSent(e)'
    BY <1>5, MainFrame DEF MainLocal
  <2>3. queue' = queue \/ queue' = [queue EXCEPT ![Notifier] = <<>>]
    BY <1>5 DEF MainLocal, Run, DropHead, DropNotifier
  <2>4. /\ \A e \in Elements : queue'[e] = queue[e]
        /\ queue'[Notifier] = queue[Notifier] \/ queue'[Notifier] = <<>>
    BY <1>1, <2>3, Names DEF DriverInv, Types
  <2>5. UNCHANGED <<sendWakers, recvWakers, draining>>
    BY <1>5 DEF MainLocal, laneVars
  <2>6. Draining' /\ draining' \in [Elements -> BOOLEAN]
    BY <1>1, <1>2, <2>2, <2>4, <2>5 DEF Draining
  <2> QED
    BY <1>1, <2>1, <2>2, <2>4, <2>5, <2>6, LocalKeeps
<1> QED
  BY <1>3, <1>4, <1>5 DEF MainStep

\* Nobody sleeps at first.
LEMMA InitWakers == Init => WakerInv
<1> SUFFICES ASSUME Init PROVE WakerInv
  OBVIOUS
<1>1. LaneTypes
  BY DEF Init, LaneTypes
<1>2. Receivers /\ Targets /\ Draining
  BY DEF Init, Receivers, Targets, Draining
<1>3. NoneEnds
  BY Names DEF Init, PipelineInit, NoneEnds, Open
<1>4. Senders
  BY Names DEF Init, Senders
<1> QED
  BY <1>1, <1>2, <1>3, <1>4 DEF WakerInv

\* Nothing that the wakers depend on changes.
LEMMA WakerStutter == ASSUME WakerInv, UNCHANGED allVars PROVE WakerInv'
<1>1. UNCHANGED <<queue, fwd, pc, todo, phase, lane, id, sendWakers, recvWakers, draining>>
  BY DEF allVars, vars, laneVars
<1>2. /\ \A t : SendTarget(t)' = SendTarget(t)
      /\ \A t : Sleeping(t)' <=> Sleeping(t)
      /\ \A e : ConfigSent(e)' <=> ConfigSent(e)
  BY <1>1 DEF SendTarget, Sleeping, ConfigSent
<1>3. Coming(Concentrator)' = Coming(Concentrator)
  BY <1>2 DEF Coming
<1>4. LaneTypes' /\ NoneEnds' /\ Targets' /\ Draining'
  BY <1>1, <1>2 DEF WakerInv, LaneTypes, NoneEnds, Open, Targets, Draining
<1>5. Receivers'
  BY <1>1, <1>2 DEF WakerInv, Receivers, Receiver
<1>6. Messages <= Cap => Senders'
  BY <1>1, <1>3 DEF WakerInv, Senders, Feeder, Full
<1> QED
  BY <1>4, <1>5, <1>6 DEF WakerInv

\* The invariant of the crossbeam_async driver with its wakers.
THEOREM LaneWakers == Spec => []LaneInv
<1>1. Init => LaneInv
  BY InitInv, InitWakers DEF Init, LaneInv
<1>2. LaneInv /\ [Next]_allVars => LaneInv'
  <2> SUFFICES ASSUME DriverInv, WakerInv, [Next]_allVars PROVE WakerInv'
    BY LaneNext DEF LaneInv
  <2> QED
    BY MainKeeps, TaskKeeps, WakerStutter DEF Next
<1> QED
  BY <1>1, <1>2, PTL DEF Spec, Safety

\* A task that waits to receive, on a channel of whatever capacity, waits for
\* something that is still to be sent: no wake-up of a receiver is lost.
THEOREM LaneReceivers == Spec => []Receivers
<1>1. LaneInv => Receivers
  BY DEF LaneInv, WakerInv
<1> QED
  BY <1>1, LaneWakers, PTL

\* When the channels hold the messages of a run, draining them with try_recv leaves
\* no sender asleep that has room.
THEOREM LaneSleepers ==
  ASSUME Messages <= Cap
  PROVE  Spec => []SleepersHaveReason
<1>1. LaneInv => SleepersHaveReason
  <2> SUFFICES ASSUME LaneInv, NEW c \in Channels
               PROVE  /\ sendWakers[c] # {} => Cap - Len(queue[c]) <= Cardinality(Coming(c))
                      /\ recvWakers[c] # {} => queue[c] = <<>>
    BY DEF SleepersHaveReason
  <2>1. recvWakers[c] # {} => queue[c] = <<>>
    BY DEF LaneInv, WakerInv, Receivers
  <2>2. Senders
    BY DEF LaneInv, WakerInv
  <2>3. CASE c \in LaneElements
    <3> SUFFICES ASSUME sendWakers[c] # {} PROVE Cap - Len(queue[c]) <= Cardinality(Coming(c))
      BY <2>1
    <3>1. Len(queue[c]) = Cap
      BY <2>2, <2>3 DEF Senders, Full
    <3>2. Coming(c) \in SUBSET AllTasks
      BY DEF Coming
    <3>3. Cardinality(Coming(c)) \in Nat
      BY <3>2, Tasks, NoneFewer
    <3> QED
      BY <3>1, <3>3, PipelineAssumption
  <2>4. CASE c \notin LaneElements
    BY <2>1, <2>2, <2>4, Names DEF Senders
  <2> QED
    BY <2>3, <2>4
<1> QED
  BY <1>1, LaneWakers, PTL
=============================================================================
