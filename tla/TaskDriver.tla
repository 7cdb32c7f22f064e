----------------------------- MODULE TaskDriver -----------------------------
(***************************************************************************)
(* The drivers that spawn a task, or a d3 machine, for each element and    *)
(* make every send of their own wait: flume_tokio_driver.rs,               *)
(* flume_async_std_driver.rs, smol_driver.rs and d3_driver.rs.  (The       *)
(* try_recv loop inside smol's tasks takes the next message as the recv()  *)
(* around it would.)                                                       *)
(*                                                                         *)
(* They differ in what becomes of the executor at teardown: flume's goes   *)
(* on, smol's is told to stop before the heads are dropped, d3's after the *)
(* notifier is.  StopExecutor may happen at either point or not at all, so *)
(* the behaviours are those of the four drivers together.                  *)
(***************************************************************************)
EXTENDS Driver

CONSTANT Workers  \* the executor's threads

ASSUME WorkersAssumption == Workers # {}

VARIABLES signal,   \* smol's `signal`: "open" while its Sender is there
          ended,    \* the threads whose shutdown task has returned
          workers   \* the threads that still run the executor

executorVars == <<signal, ended, workers>>
taskVars == <<vars, executorVars>>

Init ==
  /\ PipelineInit
  /\ DriverInit
  /\ signal = "open"
  /\ ended = {}
  /\ workers = Workers

\* Some thread polls the task of e.
TaskStep(e) ==
  /\ workers # {}
  /\ ElementStep(e, {e}, Held)
  /\ UNCHANGED <<driverVars, executorVars>>

MainStep ==
  /\ \/ SetupElement("recv") \/ SetupLane
     \/ id = 1 /\ SetupNotifier
     \/ Run \/ RunSend \/ RunWait(Held)
     \/ DropHead \/ DropNotifier
  /\ UNCHANGED executorVars

-----------------------------------------------------------------------------
(* The end of the executor.                                                *)

\* A fault: the old Sender is kept, and only the handles of the threads go.
StopExecutor_kept ==
  /\ signal = "open"
  /\ iteration = Iterations
  /\ phase \in {"idle", "torndown"}
  /\ signal' = "kept"
  /\ UNCHANGED <<vars, ended, workers>>

\* The driver replaces `signal`, which closes the channel of the old one (the
\* handles that threads.clear() drops detach their threads), or calls stop_server.
StopExecutor ==
  /\ signal = "open"
  /\ iteration = Iterations
  /\ phase \in {"idle", "torndown"}
  /\ signal' = "closed"
  /\ UNCHANGED <<vars, ended, workers>>

\* A thread that still runs the executor polls the shutdown task of w.
EndShutdownTask(w) ==
  /\ signal = "closed"
  /\ workers # {}
  /\ w \notin ended
  /\ ended' = ended \cup {w}
  /\ UNCHANGED <<vars, signal, workers>>

\* ex.run(task) returns and with it the thread.
Leave(w) ==
  /\ w \in workers
  /\ w \in ended
  /\ workers' = workers \ {w}
  /\ UNCHANGED <<vars, signal, ended>>

Next ==
  \/ MainStep
  \/ StopExecutor
  \/ \E e \in Elements : TaskStep(e)
  \/ \E w \in Workers : EndShutdownTask(w) \/ Leave(w)

Safety == Init /\ [][Next]_taskVars

\* The main thread runs, and the executor polls every task that can go on for
\* as long as it has a thread.  Nothing says that it is ever told to stop.
Spec ==
  /\ Safety
  /\ WF_taskVars(MainStep)
  /\ \A e \in Elements : WF_taskVars(TaskStep(e))
  /\ \A w \in Workers : WF_taskVars(EndShutdownTask(w)) /\ WF_taskVars(Leave(w))

-----------------------------------------------------------------------------
\* The executor is told to stop only when that strands no work: what the runs
\* sent is at the end of the lanes, and no task has anything left to send.
\* (smol_driver.rs stops its threads first, so its tasks may never run again.)
NothingStranded ==
  signal = "closed" =>
    /\ \A e \in Elements : Pending(e) = 0
    /\ \A l \in 1..Lanes : delivered[l] = Iterations * Messages

\* After teardown nothing is left that could run: every task has ended, because
\* the heads are gone, or every thread has, because the executor was stopped.
TeardownEndsTasksOrThreads ==
  (phase = "torndown") ~>
    \/ workers = {}
    \/ signal = "open" /\ \A c \in Channels : pc[c] = "exited"
=============================================================================
