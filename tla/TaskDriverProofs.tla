-------------------------- MODULE TaskDriverProofs --------------------------
(***************************************************************************)
(* What the runs check of TaskDriver, for any number of lanes, elements,   *)
(* messages, runs and threads and any capacity of the channels.            *)
(***************************************************************************)
EXTENDS TaskDriverInvariant, ElementProofs

\* The drivers start in a state that satisfies the invariant.
LEMMA TaskInit == Init => TaskInv
BY InitInv DEF Init, TaskInv, StopsAfterRuns

\* The steps of the main thread keep the invariant of Driver.
LEMMA MainStepInv == ASSUME DriverInv, MainStep PROVE DriverInv'
<1>1. CASE SetupElement("recv")
  BY <1>1, SetupElementInv
<1>2. CASE SetupLane
  BY <1>2, SetupLaneInv
<1>3. CASE SetupNotifier
  BY <1>3, SetupNotifierInv
<1>4. CASE Run
  BY <1>4, RunInv
<1>5. CASE RunSend
  BY <1>5, RunSendInv
<1>6. CASE RunWait(Held)
  BY <1>6, RunWaitInv
<1>7. CASE DropHead
  BY <1>7, DropHeadInv
<1>8. CASE DropNotifier
  BY <1>8, DropNotifierInv
<1> QED
  BY <1>1, <1>2, <1>3, <1>4, <1>5, <1>6, <1>7, <1>8 DEF MainStep

\* Every step keeps it, and the executor is told to stop when there is no run.
LEMMA TaskNext == TaskInv /\ [Next]_taskVars => TaskInv'
<1> SUFFICES ASSUME TaskInv, [Next]_taskVars PROVE TaskInv'
  OBVIOUS
<1>1. DriverInv /\ StopsAfterRuns
  BY DEF TaskInv
<1>2. CASE MainStep
  <2>1. DriverInv'
    BY <1>1, <1>2, MainStepInv
  <2>2. StopsAfterRuns'
    <3> SUFFICES ASSUME signal' = "closed"
                 PROVE  iteration' = Iterations /\ phase' \in {"idle", "teardown", "torndown"}
      BY DEF StopsAfterRuns
    <3>1. iteration = Iterations /\ phase \in {"idle", "teardown", "torndown"}
      BY <1>1, <1>2 DEF StopsAfterRuns, MainStep, executorVars
    <3>2. ~SetupElement("recv") /\ ~SetupLane /\ ~SetupNotifier /\ ~RunSend /\ ~RunWait(Held)
      BY <3>1 DEF SetupElement, SetupLane, SetupNotifier, RunSend, RunWait
    <3>3. ~Run
      BY <3>1, DriverAssumption DEF Run
    <3>4. DropHead \/ DropNotifier
      BY <1>2, <3>2, <3>3 DEF MainStep
    <3> QED
      BY <3>1, <3>4 DEF DropHead, DropNotifier
  <2> QED
    BY <2>1, <2>2 DEF TaskInv
<1>3. ASSUME NEW e \in Elements, TaskStep(e) PROVE TaskInv'
  <2>1. DriverInv'
    <3>1. /\ {e} \subseteq Elements /\ e \in {e}
          /\ ElementStep(e, {e}, Held) /\ UNCHANGED driverVars
      BY <1>3 DEF TaskStep
    <3> QED
      BY <1>1, <3>1, ElementStepInv
  <2>2. StopsAfterRuns'
    BY <1>1, <1>3 DEF StopsAfterRuns, TaskStep, driverVars, executorVars
  <2> QED
    BY <2>1, <2>2 DEF TaskInv
<1>4. CASE StopExecutor
  <2>1. DriverInv'
    BY <1>1, <1>4, DriverStutter DEF StopExecutor
  <2>2. StopsAfterRuns'
    BY <1>4 DEF StopExecutor, StopsAfterRuns, vars
  <2> QED
    BY <2>1, <2>2 DEF TaskInv
<1>5. CASE UNCHANGED vars /\ signal' = signal
  <2>1. DriverInv'
    BY <1>1, <1>5, DriverStutter
  <2>2. StopsAfterRuns'
    BY <1>1, <1>5 DEF StopsAfterRuns, vars
  <2> QED
    BY <2>1, <2>2 DEF TaskInv
<1>6. ASSUME NEW w \in Workers, EndShutdownTask(w) \/ Leave(w) PROVE TaskInv'
  BY <1>5, <1>6 DEF EndShutdownTask, Leave
<1>7. CASE UNCHANGED taskVars
  BY <1>5, <1>7 DEF taskVars, executorVars
<1> QED
  BY <1>2, <1>3, <1>4, <1>6, <1>7 DEF Next

\* The invariant of the task drivers: TaskInv is inductive.
THEOREM TaskInvariant == Spec => []TaskInv
<1>1. Init => TaskInv
  BY TaskInit
<1>2. TaskInv /\ [Next]_taskVars => TaskInv'
  BY TaskNext
<1> QED
  BY <1>1, <1>2, PTL DEF Spec, Safety

\* Every variable has its type, and no channel exceeds its capacity.
THEOREM TaskTypes == Spec => []TypeOK
<1>1. TaskInv => TypeOK
  BY InvTypeOK DEF TaskInv
<1> QED
  BY <1>1, TaskInvariant, PTL

\* No element meets a sequence error (the panic of validate_sequence's caller).
THEOREM TaskSequence == Spec => []NoSequenceError
<1>1. TaskInv => NoSequenceError
  BY InvNoSequenceError DEF TaskInv
<1> QED
  BY <1>1, TaskInvariant, PTL

\* No message is lost or duplicated, at any position of any lane.
THEOREM TaskConservation == Spec => []LaneConservation
<1>1. TaskInv => LaneConservation
  BY InvLaneConservation DEF TaskInv
<1> QED
  BY <1>1, TaskInvariant, PTL

\* A run that returned left nothing behind.
THEOREM TaskQuiescence == Spec => []QuiescentBetweenRuns
<1>1. TaskInv => QuiescentBetweenRuns
  BY InvQuiescentBetweenRuns DEF TaskInv
<1> QED
  BY <1>1, TaskInvariant, PTL

\* The driver is notified once per run, when all its messages are at the end.
THEOREM TaskNotification == Spec => []NotifiedOnlyWhenDone
<1>1. TaskInv => NotifiedOnlyWhenDone
  BY InvNotifiedOnlyWhenDone DEF TaskInv
<1> QED
  BY <1>1, TaskInvariant, PTL

\* Stopping the executor strands no message, wherever in teardown it happens.
THEOREM TaskStranding == Spec => []NothingStranded
<1>1. TaskInv => NothingStranded
  <2> SUFFICES ASSUME TaskInv, signal = "closed"
               PROVE  /\ \A e \in Elements : Pending(e) = 0
                      /\ \A l \in 1..Lanes : delivered[l] = Iterations * Messages
    BY DEF NothingStranded
  <2>1. /\ DriverInv /\ iteration = Iterations
        /\ phase \in {"idle", "teardown", "torndown"}
    BY DEF TaskInv, StopsAfterRuns
  <2>2. \A l \in 1..Lanes : delivered[l] = Iterations * Messages
    BY <2>1, Quiet DEF Done
  <2>3. ASSUME NEW e \in Elements
        PROVE  Pending(e) = 0
    <3>1. NData(queue[e]) = 0 /\ todo[e] = <<>>
      BY <2>1, Drained
    <3>2. queue[e] \in Seq(Message) /\ DataBehind(queue[e])
      BY <2>1, Names DEF DriverInv, Types, Configuration
    <3>3. Cardinality(DataIn(e)) = 0 /\ Len(todo[e]) = 0
      BY <3>1, <3>2, DataCount, EmptySeq
    <3> QED
      BY <3>3 DEF Pending
  <2> QED
    BY <2>2, <2>3
<1> QED
  BY <1>1, TaskInvariant, PTL

\* The task drivers keep the promise of ExperimentDriver: each run returns only when
\* it has delivered all its messages, step by step as Experiment does.
THEOREM TaskImplementsExperiment == Spec => Promise!Safety
<1>1. Init => Promise!Init
  BY PromiseInit DEF Init
<1>2. TaskInv /\ [Next]_taskVars => [Promise!Next]_(Promise!vars)
  <2> SUFFICES ASSUME TaskInv, [Next]_taskVars PROVE [Promise!Next]_(Promise!vars)
    OBVIOUS
  <2>1. DriverInv
    BY DEF TaskInv
  <2>2. CASE MainStep
    BY <2>1, <2>2, PromiseMain DEF MainStep
  <2>3. ASSUME NEW e \in Elements, TaskStep(e) PROVE [Promise!Next]_(Promise!vars)
    <3>1. /\ {e} \subseteq Elements /\ e \in {e}
          /\ ElementStep(e, {e}, Held) /\ UNCHANGED driverVars
      BY <2>3 DEF TaskStep
    <3> QED
      BY <2>1, <3>1, PromiseElement
  <2>4. CASE UNCHANGED vars
    BY <2>4, PromiseStutter DEF vars
  <2> QED
    BY <2>2, <2>3, <2>4 DEF Next, StopExecutor, EndShutdownTask, Leave, taskVars
<1> QED
  BY <1>1, <1>2, TaskInvariant, PTL DEF Spec, Safety, Promise!Safety
=============================================================================
