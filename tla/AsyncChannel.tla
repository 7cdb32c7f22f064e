---------------------------- MODULE AsyncChannel ----------------------------
(***************************************************************************)
(* experiment-lib/src/async_channel.rs: a crossbeam channel made awaitable *)
(* with one set of wakers for the senders and one for the receivers.       *)
(*                                                                         *)
(* A task runs SendFuture::poll or poll_recv, one step per access to state *)
(* that other threads touch: the queue (crossbeam's try_send, try_recv,    *)
(* is_full and is_empty are atomic) and a waker set (a slab behind a       *)
(* mutex).  Its executor polls it again when its waker has been called;    *)
(* `token` is that call, kept until the next poll, which is what both the  *)
(* futures ThreadPool and block_on do with a wake that arrives mid-poll.   *)
(*                                                                         *)
(* A task owns at most one entry of a waker set, so an entry is named by   *)
(* its owner instead of its slab key, and notify, which takes the waker    *)
(* with the lowest key, may take any.                                      *)
(***************************************************************************)
EXTENDS Integers, Sequences, FiniteSets

CONSTANTS Senders,    \* tasks that own a Sender
          Receivers,  \* tasks that own a Receiver
          Drainers,   \* receivers that empty the channel with try_recv
          Cancellers, \* tasks that may be dropped while they wait
          Cap,        \* capacity given to bounded()
          MaxSend     \* bound: how many messages each sender sends

ASSUME ChannelAssumption ==
  /\ IsFiniteSet(Senders)
  /\ IsFiniteSet(Receivers) /\ Receivers # {}
  /\ Senders \cap Receivers = {}
  /\ Drainers \subseteq Receivers
  /\ Cancellers \subseteq Senders \cup Receivers
  /\ Cap \in Nat \ {0}
  /\ MaxSend \in Nat

Tasks == Senders \cup Receivers

VARIABLES queue,         \* the crossbeam channel
          wakers,        \* send_wakers and recv_wakers, by the entry's owner
          token,         \* the waker of the task was called since its last poll
          pc,            \* where a task is in its future
          next,          \* how many sends of a sender have returned
          sender_count   \* Channel::sender_count

vars == <<queue, wakers, token, pc, next, sender_count>>

-----------------------------------------------------------------------------
(* WakerSet.  "absent": no entry; "armed": Some(waker); "fired": the entry *)
(* is still there and its waker was taken by notify.                       *)

insert(t) == wakers' = [wakers EXCEPT ![t] = "armed"]

remove(t) == wakers' = [wakers EXCEPT ![t] = "absent"]

Armed(set) == {t \in set : wakers[t] = "armed"}

\* A fault: the waker is taken and not called.
notify_without_wake(set) ==
  \/ \E t \in Armed(set) : /\ wakers' = [wakers EXCEPT ![t] = "fired"]
                           /\ UNCHANGED token
  \/ /\ Armed(set) = {}
     /\ UNCHANGED <<wakers, token>>

\* cancel(key) has an empty body: the entry stays.
cancel == UNCHANGED <<wakers, token>>

notify(set) ==
  \/ \E t \in Armed(set) : /\ wakers' = [wakers EXCEPT ![t] = "fired"]
                           /\ token' = [token EXCEPT ![t] = TRUE]
  \/ /\ Armed(set) = {}
     /\ UNCHANGED <<wakers, token>>

-----------------------------------------------------------------------------
(* Channel.                                                                *)

\* A fault: one message too many.
is_full_late == Len(queue) > Cap

is_full == Len(queue) = Cap
is_empty == queue = <<>>

\* Both are constant: is_disconnected() returns false, and the Channel that
\* every handle shares owns a crossbeam Sender and Receiver of its own, so
\* crossbeam's try_recv and try_send never report the other side gone either.
is_disconnected == FALSE
crossbeam_disconnected == FALSE

disconnect == UNCHANGED <<queue, wakers, token>>

Goto(t, label) == pc' = [pc EXCEPT ![t] = label]

\* Between two futures on this channel a task has run futures on others (its
\* forwarder receives on one channel and sends on the next): a wake meant for
\* one of those may still be pending when the next future here is polled.
LeftoverWake(t) ==
  /\ pc[t] = "idle"
  /\ ~token[t]
  /\ token' = [token EXCEPT ![t] = TRUE]
  /\ UNCHANGED <<queue, wakers, pc, next, sender_count>>

\* The executor polls a parked task whose waker was called.
Poll(t) ==
  /\ pc[t] = "parked"
  /\ token[t]
  /\ token' = [token EXCEPT ![t] = FALSE]
  /\ Goto(t, "remove")
  /\ UNCHANGED <<queue, wakers, next, sender_count>>

-----------------------------------------------------------------------------
(* Sender.                                                                 *)

\* send() makes a SendFuture without a key and polls it.
StartSend(s) ==
  /\ pc[s] = "idle"
  /\ next[s] < MaxSend
  /\ Goto(s, "try")
  /\ UNCHANGED <<queue, wakers, token, next, sender_count>>

\* A fault: the waker of the last poll stays in the set.
SendRemove_forgotten(s) ==
  /\ pc[s] = "remove"
  /\ Goto(s, "try")
  /\ UNCHANGED <<queue, wakers, token, next, sender_count>>

SendRemove(s) ==
  /\ pc[s] = "remove"
  /\ remove(s)
  /\ Goto(s, "try")
  /\ UNCHANGED <<queue, token, next, sender_count>>

TrySend(s) ==
  /\ pc[s] = "try"
  /\ \/ /\ ~is_full
        /\ queue' = Append(queue, <<s, next[s] + 1>>)
        /\ Goto(s, "notify")
     \/ /\ is_full
        /\ Goto(s, "insert")
        /\ UNCHANGED queue
  /\ UNCHANGED <<wakers, token, next, sender_count>>

\* A fault: no receiver is told of the message.
SendNotify_silent(s) ==
  /\ pc[s] = "notify"
  /\ Goto(s, "idle")
  /\ next' = [next EXCEPT ![s] = @ + 1]
  /\ UNCHANGED <<queue, wakers, token, sender_count>>

\* The message is in: wake a receiver and return Ready.
SendNotify(s) ==
  /\ pc[s] = "notify"
  /\ notify(Receivers)
  /\ Goto(s, "idle")
  /\ next' = [next EXCEPT ![s] = @ + 1]
  /\ UNCHANGED <<queue, sender_count>>

SendInsert(s) ==
  /\ pc[s] = "insert"
  /\ insert(s)
  /\ Goto(s, "check")
  /\ UNCHANGED <<queue, token, next, sender_count>>

\* A fault: the channel is not looked at again after insert.
SendCheck_blind(s) ==
  /\ pc[s] = "check"
  /\ Goto(s, "parked")
  /\ UNCHANGED <<queue, wakers, token, next, sender_count>>

SendCheck(s) ==
  /\ pc[s] = "check"
  /\ Goto(s, IF is_full /\ ~is_disconnected THEN "parked" ELSE "remove")
  /\ UNCHANGED <<queue, wakers, token, next, sender_count>>

\* Dropping the handle.  The last one calls disconnect.
DropSender(s) ==
  /\ pc[s] = "idle"
  /\ next[s] = MaxSend
  /\ Goto(s, "dropped")
  /\ sender_count' = sender_count - 1
  /\ IF sender_count = 1 THEN disconnect ELSE UNCHANGED <<queue, wakers, token>>
  /\ UNCHANGED next

-----------------------------------------------------------------------------
(* Receiver: a task loops over recv().await, and a drainer takes what else *)
(* is there with try_recv between two of them.                             *)

\* recv() makes a RecvFuture without a key and polls it.
StartRecv(r) ==
  /\ pc[r] = "idle"
  /\ Goto(r, "try")
  /\ UNCHANGED <<queue, wakers, token, next, sender_count>>

RecvRemove(r) ==
  /\ pc[r] = "remove"
  /\ remove(r)
  /\ Goto(r, "try")
  /\ UNCHANGED <<queue, token, next, sender_count>>

TryRecv(r) ==
  /\ pc[r] = "try"
  /\ \/ /\ ~is_empty
        /\ queue' = Tail(queue)
        /\ Goto(r, "notify")
     \/ /\ is_empty
        /\ Goto(r, IF crossbeam_disconnected THEN "closed" ELSE "insert")
        /\ UNCHANGED queue
  /\ UNCHANGED <<wakers, token, next, sender_count>>

\* A fault: no sender is told of the free slot, as in try_recv.
RecvNotify_silent(r) ==
  /\ pc[r] = "notify"
  /\ Goto(r, IF r \in Drainers THEN "drain" ELSE "idle")
  /\ UNCHANGED <<queue, wakers, token, next, sender_count>>

\* A message was taken: wake a sender and return Ready.
RecvNotify(r) ==
  /\ pc[r] = "notify"
  /\ notify(Senders)
  /\ Goto(r, IF r \in Drainers THEN "drain" ELSE "idle")
  /\ UNCHANGED <<queue, next, sender_count>>

RecvInsert(r) ==
  /\ pc[r] = "insert"
  /\ insert(r)
  /\ Goto(r, "check")
  /\ UNCHANGED <<queue, token, next, sender_count>>

\* A fault: the channel is not looked at again after insert.
RecvCheck_blind(r) ==
  /\ pc[r] = "check"
  /\ Goto(r, "parked")
  /\ UNCHANGED <<queue, wakers, token, next, sender_count>>

RecvCheck(r) ==
  /\ pc[r] = "check"
  /\ Goto(r, IF is_empty /\ ~is_disconnected THEN "parked" ELSE "remove")
  /\ UNCHANGED <<queue, wakers, token, next, sender_count>>

\* Receiver::try_recv goes straight to the crossbeam channel: no waker is called.
Drain(r) ==
  /\ pc[r] = "drain"
  /\ \/ /\ ~is_empty
        /\ queue' = Tail(queue)
        /\ UNCHANGED pc
     \/ /\ is_empty
        /\ Goto(r, "idle")
        /\ UNCHANGED queue
  /\ UNCHANGED <<wakers, token, next, sender_count>>

\* A task is dropped while it waits, and with it its future and its handle.
\* A wake that was meant for it, or comes for it later, is spent.
Cancel(t) ==
  /\ t \in Cancellers
  /\ pc[t] = "parked"
  /\ cancel
  /\ Goto(t, "dropped")
  /\ sender_count' = sender_count - IF t \in Senders THEN 1 ELSE 0
  /\ UNCHANGED <<queue, next>>

-----------------------------------------------------------------------------
Init ==
  /\ queue = <<>>
  /\ wakers = [t \in Tasks |-> "absent"]
  /\ token = [t \in Tasks |-> FALSE]
  /\ pc = [t \in Tasks |-> "idle"]
  /\ next = [s \in Senders |-> 0]
  /\ sender_count = Cardinality(Senders)

SenderStep(s) ==
  \/ StartSend(s) \/ Poll(s) \/ SendRemove(s) \/ TrySend(s)
  \/ SendNotify(s) \/ SendInsert(s) \/ SendCheck(s) \/ DropSender(s)

ReceiverStep(r) ==
  \/ StartRecv(r) \/ Poll(r) \/ RecvRemove(r) \/ TryRecv(r)
  \/ RecvNotify(r) \/ RecvInsert(r) \/ RecvCheck(r) \/ Drain(r)

Next == \/ \E s \in Senders : SenderStep(s)
        \/ \E r \in Receivers : ReceiverStep(r)
        \/ \E t \in Tasks : LeftoverWake(t) \/ Cancel(t)

Safety == Init /\ [][Next]_vars

\* Every executor keeps running each task that is runnable.
Fairness == /\ \A s \in Senders : WF_vars(SenderStep(s))
            /\ \A r \in Receivers : WF_vars(ReceiverStep(r))

Spec == Safety /\ Fairness

-----------------------------------------------------------------------------
(* Properties.                                                             *)

Labels == {"idle", "remove", "try", "notify", "insert", "check", "parked",
           "drain", "closed", "dropped"}

\* Every variable has its type, the channel never holds more than Cap.
TypeOK ==
  /\ queue \in Seq(Senders \X Nat)
  /\ Len(queue) <= Cap
  /\ wakers \in [Tasks -> {"absent", "armed", "fired"}]
  /\ token \in [Tasks -> BOOLEAN]
  /\ pc \in [Tasks -> Labels]
  /\ next \in [Senders -> Nat]
  /\ sender_count \in Int

\* A task that only its waker can bring back.
Asleep(t) == pc[t] = "parked" /\ ~token[t]

\* A task that will try its channel again without being notified once more.
Trying(t) ==
  /\ wakers[t] # "armed"
  /\ \/ pc[t] \in {"remove", "try", "check"}
     \/ pc[t] = "parked" /\ token[t]

\* A dropped task whose waker was taken: a wake-up that went nowhere.
Spent(t) == pc[t] = "dropped" /\ wakers[t] = "fired"

ReachedOf(set) == {t \in set : Trying(t) \/ Spent(t)}
NotifyingOf(set) == {t \in set : pc[t] = "notify"}

\* A sleeping task's waker is in its waker set: poll parks only after insert,
\* and notify never takes the waker without calling it.
SleeperIsArmed == \A t \in Tasks : Asleep(t) => wakers[t] = "armed"

\* The send side loses no wake-up but those spent on dropped tasks, one each:
\* while a sender sleeps, every free slot of the channel has a sender of its own
\* that was woken or tries anyway, or a receiver of its own about to notify one.
\* (poll_recv notifies send_wakers once per message taken.)
NoLostSendWakeup ==
  (\E s \in Senders : Asleep(s)) =>
    Cap - Len(queue) <= Cardinality(ReachedOf(Senders))
                          + Cardinality(NotifyingOf(Receivers))

\* The receive side likewise: while a receiver sleeps, every message in the
\* channel has a receiver that was reached or a sender about to notify one.
NoLostRecvWakeup ==
  (\E r \in Receivers : Asleep(r)) =>
    Len(queue) <= Cardinality(ReachedOf(Receivers))
                    + Cardinality(NotifyingOf(Senders))

\* A task has an entry in a waker set only around the wait itself, or for good
\* when it was dropped there; a waiting task has its waker in the set, or it was
\* taken and called; and only a drainer drains.
WakersInPlace ==
  \A t \in Tasks :
    /\ wakers[t] # "absent" /\ pc[t] \notin {"check", "remove", "parked"} =>
         pc[t] = "dropped" /\ t \in Cancellers
    /\ pc[t] \in {"check", "parked"} =>
         wakers[t] = "armed" \/ (wakers[t] = "fired" /\ token[t])
    /\ pc[t] = "drain" => t \in Drainers

\* A sender with a future under way has a message left to send.
SendsBounded ==
  \A s \in Senders :
    /\ next[s] <= MaxSend
    /\ pc[s] \notin {"idle", "dropped"} => next[s] < MaxSend

\* The inductive invariant.
WakeupInv == /\ TypeOK /\ WakersInPlace /\ SendsBounded
             /\ NoLostSendWakeup /\ NoLostRecvWakeup

\* A sender and a receiver wait for each other, and nobody is left to wake them.
Standoff ==
  /\ \A t \in Tasks : Asleep(t) \/ pc[t] \in {"idle", "dropped"}
  /\ \E s \in Senders : Asleep(s)
  /\ \E r \in Receivers : Asleep(r)

\* Senders and receivers never wait for each other, unless notify has called the
\* waker that a dropped task left behind.
NoStandoff == Standoff => \E t \in Tasks : Spent(t)

\* "If the current task is still in the set, that means it is being cancelled
\* now.  Wake up another task instead." (async_channel.rs:117): nor even then.
CancelWakesAnother == ~Standoff

\* Every send returns and every message is taken.
SendsComplete == <>[](queue = <<>> /\ \A s \in Senders : next[s] = MaxSend)

\* The waker sets and the polling implement the blocking channel: the n-th
\* message of a sender is in once its future is past try_send.
BC == INSTANCE BlockingChannel
        WITH sent <- [s \in Senders |->
                        next[s] + IF pc[s] = "notify" THEN 1 ELSE 0]

ImplementsBlockingChannel == BC!Spec

\* "Decrement the sender count and disconnect the channel if it drops down to
\* zero" (async_channel.rs:142): once no Sender is left, recv returns an error.
ClosesWithLastSender ==
  (sender_count = 0) ~> (\A r \in Receivers : pc[r] = "closed")
=============================================================================
