----------------------------- MODULE AsyncLane -----------------------------
(***************************************************************************)
(* crossbeam_async_driver.rs: the lanes of Driver over the channels of     *)
(* async_channel.rs, on the futures ThreadPool.  Every channel has its     *)
(* waker sets, every task (an element's, or the main thread in block_on)   *)
(* parks in at most one of them, and the tasks of the lanes empty their    *)
(* channels with try_recv, which calls no waker.                           *)
(*                                                                         *)
(* A step is a whole poll of a future, or the code of a task up to its     *)
(* next one; what happens between the steps of a poll is the business of   *)
(* AsyncChannel.  An entry that notify has emptied is left out: the next   *)
(* poll removes it.  The channels never disconnect, so no task ends; nor   *)
(* does one panic here (NoSequenceError), so every channel stays open.     *)
(***************************************************************************)
EXTENDS Driver

VARIABLES sendWakers, recvWakers,  \* the tasks with a waker in the sets of a channel
          draining                 \* the element is in its loop over try_recv

laneVars == <<sendWakers, recvWakers, draining>>
allVars == <<vars, laneVars>>

\* The main thread, as the task that block_on polls.
Main == <<0, 2>>
AllTasks == Elements \cup {Main}

Init ==
  /\ PipelineInit
  /\ DriverInit
  /\ sendWakers = [c \in Channels |-> {}]
  /\ recvWakers = [c \in Channels |-> {}]
  /\ draining = [e \in Elements |-> FALSE]

-----------------------------------------------------------------------------
(* Futures.                                                                *)

Sleeping(t) == \E c \in Channels : t \in sendWakers[c] \cup recvWakers[c]

Full(c) == Len(queue[c]) = Cap

\* A fault: the waker is not called.
notify_nobody(set, c) == UNCHANGED set

\* WakerSet::notify: one waker, when there is one.
notify(set, c) ==
  IF set[c] = {} THEN UNCHANGED set
                 ELSE \E t \in set[c] : set' = [set EXCEPT ![c] = @ \ {t}]

\* The channel that the next send of a task goes to, None when it has none.
SendTarget(t) ==
  CASE t = Main /\ phase = "setup" /\ lane > Lanes -> Concentrator
    [] t = Main /\ phase = "setup" /\ lane <= Lanes /\ id > 1 -> <<lane, id - 1>>
    [] t = Main /\ phase = "sending" -> <<lane, 1>>
    [] t \in Elements /\ pc[t] = "action" /\ todo[t] # <<>> -> Head(todo[t])
    [] t \in Elements /\ pc[t] = "action" /\ todo[t] = <<>> /\ notification_due(fwd[t]) ->
         fwd[t].notify_sender
    [] OTHER -> None

\* SendFuture::poll on a full channel answers Pending.
ParkSend(t) ==
  /\ SendTarget(t) \in Channels
  /\ Full(SendTarget(t))
  /\ sendWakers' = [sendWakers EXCEPT ![SendTarget(t)] = @ \cup {t}]
  /\ UNCHANGED <<vars, recvWakers, draining>>

\* A fault: poll_recv asks to be polled again at once and is never Pending.
ParkRecv_spinning(t, c) ==
  /\ queue[c] = <<>>
  /\ UNCHANGED <<vars, laneVars>>

\* poll_recv on an empty channel answers Pending.
ParkRecv(t, c) ==
  /\ queue[c] = <<>>
  /\ recvWakers' = [recvWakers EXCEPT ![c] = @ \cup {t}]
  /\ UNCHANGED <<vars, sendWakers, draining>>

\* After a send to c, if the step makes one: SendFuture::poll is Ready.
SendReady(c) ==
  /\ IF c = None THEN UNCHANGED recvWakers ELSE notify(recvWakers, c)
  /\ UNCHANGED sendWakers

\* A fault: recv tells no sender of the free slot, as try_recv does not.
RecvReady_silent(c) == UNCHANGED <<sendWakers, recvWakers>>

\* poll_recv is Ready.
RecvReady(c) ==
  /\ notify(sendWakers, c)
  /\ UNCHANGED recvWakers

-----------------------------------------------------------------------------
(* The tasks of the elements.                                              *)

\* recv().await, with the configuration or validate_sequence behind it.
Recv(e) ==
  /\ pc[e] = "recv"
  /\ ~draining[e]
  /\ \/ /\ Receive(e, {e})
        /\ RecvReady(e)
        /\ draining' = [draining EXCEPT ![e] = e \in LaneElements]
     \/ ParkRecv(e, e)

\* try_recv, and the same.
TryRecv(e) ==
  /\ pc[e] = "recv"
  /\ draining[e]
  /\ \/ /\ Receive(e, {e})
        /\ UNCHANGED laneVars
     \/ /\ queue[e] = <<>>
        /\ draining' = [draining EXCEPT ![e] = FALSE]
        /\ UNCHANGED <<vars, sendWakers, recvWakers>>

\* handle_action(..).await and handle_notification().await.
Act(e) ==
  \/ /\ handle_action(e) \/ handle_notification(e)
     /\ SendReady(SendTarget(e))
     /\ UNCHANGED draining
  \/ ParkSend(e)

TaskStep(e) ==
  /\ ~Sleeping(e)
  /\ Recv(e) \/ TryRecv(e) \/ Act(e)
  /\ UNCHANGED driverVars

-----------------------------------------------------------------------------
(* The main thread.                                                        *)

\* The steps of setup and run, each with at most one block_on of a send.
MainSend ==
  \/ /\ \/ SetupElement("recv") \/ SetupLane
        \/ id = 1 /\ SetupNotifier
        \/ RunSend
     /\ SendReady(SendTarget(Main))
     /\ UNCHANGED draining
  \/ ParkSend(Main)

\* block_on(receiver.recv()) at the end of run.  The Channel keeps both ends of
\* the crossbeam channel, so the other side is never found gone.
MainRecv ==
  /\ phase = "waiting"
  /\ \/ /\ RunWait(Channels)
        /\ RecvReady(Notifier)
        /\ UNCHANGED draining
     \/ ParkRecv(Main, Notifier)

\* Dropping a Sender decrements a count, and disconnect() is empty.
MainLocal ==
  /\ Run \/ DropHead \/ DropNotifier
  /\ UNCHANGED laneVars

MainStep == ~Sleeping(Main) /\ (MainSend \/ MainRecv \/ MainLocal)

Next == MainStep \/ \E e \in Elements : TaskStep(e)

Safety == Init /\ [][Next]_allVars

\* The thread pool polls every task that was woken, and so does block_on.
Spec == Safety /\ WF_allVars(MainStep) /\ \A e \in Elements : WF_allVars(TaskStep(e))

-----------------------------------------------------------------------------
\* The tasks that are awake and about to send to c.
Coming(c) == {t \in AllTasks : ~Sleeping(t) /\ SendTarget(t) = c}

\* A task that sleeps has a reason to: every free slot of a channel on which one
\* waits to send is owed to a task that is awake and about to send there, and a
\* channel on which one waits to receive is empty.  With try_recv in the tasks
\* this needs channels that hold all the messages of a run.
SleepersHaveReason ==
  \A c \in Channels :
    /\ sendWakers[c] # {} => Cap - Len(queue[c]) <= Cardinality(Coming(c))
    /\ recvWakers[c] # {} => queue[c] = <<>>

\* "pausing for 15 seconds, cpu should go to near zero" (main.rs:22): the tasks
\* do not end, but in the end each of them sleeps on its own empty channel.
CpuGoesQuiet ==
  <>[](/\ phase = "torndown"
       /\ \A e \in Elements : queue[e] = <<>> /\ e \in recvWakers[e])
=============================================================================
