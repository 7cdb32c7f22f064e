---------------------------- MODULE StageDriver ----------------------------
(***************************************************************************)
(* crossbeam_driver.rs: one thread for each pipeline position, which       *)
(* selects over the receivers of all the lanes.  While it forwards a       *)
(* message of one lane it serves no other, and at the first receiver it    *)
(* finds disconnected it breaks out of its loop and drops all of them.     *)
(***************************************************************************)
EXTENDS Driver

Stage(i) == (1..Lanes) \X {i}

Init == PipelineInit /\ DriverInit

\* The threads of the positions are spawned when all the lanes are set up.
SpawnStage ==
  /\ phase = "setup"
  /\ lane = Lanes + 1
  /\ id <= Pipelines
  /\ pc' = [c \in Channels |-> IF c \in Stage(id) THEN "recv" ELSE pc[c]]
  /\ id' = id + 1
  /\ UNCHANGED <<queue, fwd, todo, delivered, phase, iteration, lane>>

ThreadStep(i) ==
  /\ \E e \in Stage(i) : ElementStep(e, Stage(i), Held)
  /\ UNCHANGED driverVars

ConcentratorStep ==
  /\ ElementStep(Concentrator, {Concentrator}, Held)
  /\ UNCHANGED driverVars

MainStep ==
  \/ SetupElement("unborn") \/ SetupLane \/ SpawnStage
  \/ id = Pipelines + 1 /\ SetupNotifier
  \/ Run \/ RunSend \/ RunWait(Held)
  \/ DropHead \/ DropNotifier

Next == MainStep \/ ConcentratorStep \/ \E i \in 1..Pipelines : ThreadStep(i)

Safety == Init /\ [][Next]_vars

\* Every thread runs; which ready receiver a select picks is left open.
Spec == /\ Safety
        /\ WF_vars(MainStep)
        /\ WF_vars(ConcentratorStep)
        /\ \A i \in 1..Pipelines : WF_vars(ThreadStep(i))
=============================================================================
