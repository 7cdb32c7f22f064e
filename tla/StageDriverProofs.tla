------------------------- MODULE StageDriverProofs -------------------------
(***************************************************************************)
(* What the runs check of StageDriver, for any number of lanes, elements,  *)
(* messages and runs and any capacity: that a thread serves a position of  *)
(* all the lanes at once breaks none of what Driver promises.              *)
(***************************************************************************)
EXTENDS StageDriver, ElementProofs

\* The elements of a position.
LEMMA Stages ==
  ASSUME NEW i \in 1..Pipelines
  PROVE  /\ Stage(i) \subseteq Elements
         /\ \A e \in Stage(i) : e[1] \in 1..Lanes
         /\ Notifier \notin Stage(i) /\ Concentrator \notin Stage(i)
BY Names DEF Stage, LaneElements

\* Before the first run no element has a message to act on.
LEMMA NoneActsInSetup ==
  ASSUME DriverInv, phase = "setup", NEW e \in Elements
  PROVE  pc[e] # "action"
<1> USE PipelineAssumption
<1> SUFFICES ASSUME fwd[e].received_count >= 1 PROVE FALSE
  BY DEF DriverInv, Actions
<1>1. e # Concentrator
  BY Drained
<1>2. PICK l \in 1..Lanes, i \in 1..Pipelines : e = Slot(l, i)
  BY <1>1, Slots
<1>3. Done = 0
  BY DEF DriverInv, Control, Done
<1>4. SentTo(l) = 0 /\ delivered[l] = SentTo(l)
  BY <1>3, Quiet
<1>5. CASE i = Pipelines
  BY <1>2, <1>5, Drained DEF Last
<1>6. CASE i # Pipelines
  BY <1>2, <1>4, <1>6, LaneDrained, SlotCounts
<1> QED
  BY <1>5, <1>6

\* The thread of a position starts, with whatever is in its channels by then.
LEMMA SpawnStageInv == ASSUME DriverInv, SpawnStage PROVE DriverInv'
<1> USE PipelineAssumption, DriverAssumption
<1>1. /\ Types /\ Control /\ phase = "setup" /\ lane = Lanes + 1 /\ id \in 1..Pipelines
      /\ pc' = [c \in Channels |-> IF c \in Stage(id) THEN "recv" ELSE pc[c]]
      /\ id' = id + 1
      /\ UNCHANGED <<queue, fwd, todo, delivered, phase, iteration, lane>>
  BY DEF DriverInv, SpawnStage, Control
<1>2. /\ Stage(id) \subseteq Elements
      /\ \A e \in Stage(id) : e[1] \in 1..Lanes
      /\ Notifier \notin Stage(id)
  BY <1>1, Stages
<1>3. Types' /\ Control'
  <2>1. pc' \in [Channels -> {"unborn", "recv", "action", "exited", "panicked"}]
    BY <1>1 DEF Types
  <2>2. id' \in Nat /\ id' \in 1..(Pipelines + 1)
    BY <1>1
  <2>3. Types'
    BY <1>1, <2>1, <2>2 DEF Types
  <2>4. Control'
    BY <1>1, <2>2 DEF Control
  <2> QED
    BY <2>3, <2>4
<1>4. ASSUME NEW e \in Elements
      PROVE  /\ pc'[e] = IF e \in Stage(id) THEN "recv" ELSE pc[e]
             /\ pc[e] \notin {"action", "exited", "panicked"}
             /\ Created(e)
             /\ Created(e)'
             /\ ConfigSent(e)' <=> ConfigSent(e)
  <2>1. e \in Channels
    BY Names
  <2>2. pc'[e] = IF e \in Stage(id) THEN "recv" ELSE pc[e]
    BY <1>1, <2>1
  <2>3. pc[e] \notin {"action", "exited", "panicked"}
    BY <1>1, NoneActsInSetup DEF DriverInv, Lifetimes
  <2>4. e = Concentrator \/ e[1] \in 1..Lanes
    BY Names
  <2>5. Created(e) /\ Created(e)'
    BY <1>1, <2>4 DEF Created
  <2>6. e[1] # lane
    BY <1>1, <2>4, Names
  <2>7. ConfigSent(e)' <=> ConfigSent(e)
    BY <1>1, <2>6 DEF ConfigSent
  <2> QED
    BY <2>2, <2>3, <2>5, <2>7
<1>5. Lifetimes'
  <2>1. pc'[Notifier] = pc[Notifier]
    BY <1>1, <1>2, Names
  <2> QED
    BY <1>1, <1>4, <2>1 DEF DriverInv, Lifetimes
<1>6. Configuration' /\ Actions'
  <2>1. \A e \in Elements : /\ Open(e)' <=> Open(e)
                            /\ pc'[e] = "action" <=> pc[e] = "action"
    BY <1>4 DEF Open
  <2> QED
    BY <1>1, <1>4, <2>1, ConfigFrame
<1>7. Done' = Done /\ \A l \in 1..Lanes : SentTo(l)' = SentTo(l)
  BY <1>1 DEF Done, SentTo
<1>8. Hops' /\ Order' /\ Numbers' /\ LaneNotices' /\ ConcentratorNotices'
  BY <1>1, <1>4, <1>7, DataFrame
<1> QED
  BY <1>3, <1>5, <1>6, <1>8 DEF DriverInv

\* The steps of the main thread keep the invariant.
LEMMA StageMainInv == ASSUME DriverInv, MainStep PROVE DriverInv'
<1>1. CASE SetupElement("unborn")
  BY <1>1, SetupElementInv
<1>2. CASE SetupLane
  BY <1>2, SetupLaneInv
<1>3. CASE SpawnStage
  BY <1>3, SpawnStageInv
<1>4. CASE SetupNotifier
  BY <1>4, SetupNotifierInv
<1>5. CASE Run
  BY <1>5, RunInv
<1>6. CASE RunSend
  BY <1>6, RunSendInv
<1>7. CASE RunWait(Held)
  BY <1>7, RunWaitInv
<1>8. CASE DropHead
  BY <1>8, DropHeadInv
<1>9. CASE DropNotifier
  BY <1>9, DropNotifierInv
<1> QED
  BY <1>1, <1>2, <1>3, <1>4, <1>5, <1>6, <1>7, <1>8, <1>9 DEF MainStep

\* A step of a thread is a step of one of the elements that it serves.
LEMMA ThreadSteps ==
  ASSUME ConcentratorStep \/ \E i \in 1..Pipelines : ThreadStep(i)
  PROVE  /\ UNCHANGED driverVars
         /\ \E crew \in SUBSET Elements : \E e \in crew : ElementStep(e, crew, Held)
<1>1. ASSUME NEW i \in 1..Pipelines, ThreadStep(i)
      PROVE  /\ UNCHANGED driverVars
             /\ \E crew \in SUBSET Elements : \E e \in crew : ElementStep(e, crew, Held)
  <2>1. Stage(i) \in SUBSET Elements
    BY Stages
  <2> QED
    BY <1>1, <2>1 DEF ThreadStep
<1>2. ASSUME ConcentratorStep
      PROVE  /\ UNCHANGED driverVars
             /\ \E crew \in SUBSET Elements : \E e \in crew : ElementStep(e, crew, Held)
  <2>1. {Concentrator} \in SUBSET Elements
    BY Names
  <2> QED
    BY <1>2, <2>1 DEF ConcentratorStep
<1> QED
  BY <1>1, <1>2

\* Every step keeps the invariant.
LEMMA StageNext == DriverInv /\ [Next]_vars => DriverInv'
<1> SUFFICES ASSUME DriverInv, [Next]_vars PROVE DriverInv'
  OBVIOUS
<1>1. CASE MainStep
  BY <1>1, StageMainInv
<1>2. CASE ConcentratorStep \/ \E i \in 1..Pipelines : ThreadStep(i)
  <2>1. PICK crew \in SUBSET Elements : \E e \in crew : ElementStep(e, crew, Held)
    BY <1>2, ThreadSteps
  <2>2. PICK e \in crew : ElementStep(e, crew, Held)
    BY <2>1
  <2> QED
    BY <1>2, <2>2, ThreadSteps, ElementStepInv
<1>3. CASE UNCHANGED vars
  BY <1>3, DriverStutter
<1> QED
  BY <1>1, <1>2, <1>3 DEF Next

\* The invariant of the crossbeam driver: DriverInv is inductive for it too.
THEOREM StageInvariant == Spec => []DriverInv
<1>1. Init => DriverInv
  BY InitInv DEF Init
<1>2. DriverInv /\ [Next]_vars => DriverInv'
  BY StageNext
<1> QED
  BY <1>1, <1>2, PTL DEF Spec, Safety

\* No thread meets a sequence error, which would end all its lanes.
THEOREM StageSequence == Spec => []NoSequenceError
BY StageInvariant, InvNoSequenceError, PTL

\* No message is lost or duplicated, at any position of any lane.
THEOREM StageConservation == Spec => []LaneConservation
BY StageInvariant, InvLaneConservation, PTL

\* A run that returned left nothing behind.
THEOREM StageQuiescence == Spec => []QuiescentBetweenRuns
BY StageInvariant, InvQuiescentBetweenRuns, PTL

\* The driver is notified once per run, when all its messages are at the end.
THEOREM StageNotification == Spec => []NotifiedOnlyWhenDone
BY StageInvariant, InvNotifiedOnlyWhenDone, PTL

\* The crossbeam driver keeps the promise of ExperimentDriver, step by step.
THEOREM StageImplementsExperiment == Spec => Promise!Safety
<1>1. Init => Promise!Init
  BY PromiseInit DEF Init
<1>2. DriverInv /\ [Next]_vars => [Promise!Next]_(Promise!vars)
  <2> SUFFICES ASSUME DriverInv, [Next]_vars PROVE [Promise!Next]_(Promise!vars)
    OBVIOUS
  <2>1. CASE MainStep
    <3>1. SpawnStage => [Promise!Next]_(Promise!vars)
      BY PromiseStutter DEF SpawnStage
    <3> QED
      BY <2>1, <3>1, PromiseMain DEF MainStep
  <2>2. CASE ConcentratorStep \/ \E i \in 1..Pipelines : ThreadStep(i)
    <3>1. PICK crew \in SUBSET Elements : \E e \in crew : ElementStep(e, crew, Held)
      BY <2>2, ThreadSteps
    <3>2. PICK e \in crew : ElementStep(e, crew, Held)
      BY <3>1
    <3> QED
      BY <2>2, <3>2, ThreadSteps, PromiseElement
  <2>3. CASE UNCHANGED vars
    BY <2>3, PromiseStutter DEF vars
  <2> QED
    BY <2>1, <2>2, <2>3 DEF Next
<1> QED
  BY <1>1, <1>2, StageInvariant, PTL DEF Spec, Safety, Promise!Safety
=============================================================================
