-------------------------- MODULE BlockingChannel --------------------------
(***************************************************************************)
(* What a bounded channel with waiting senders and waiting receivers       *)
(* promises: a FIFO queue of at most Cap messages in which no send waits   *)
(* while there is room for it and no message waits while a receiver wants  *)
(* one.  It knows nothing of futures, polling or wakers; AsyncChannel is   *)
(* shown to implement it.                                                  *)
(***************************************************************************)
EXTENDS Naturals, Sequences

CONSTANTS Senders,  \* the sending tasks
          Cap,      \* capacity of the channel
          MaxSend   \* bound: how many messages each sender sends

VARIABLES queue,    \* the messages in the channel, oldest first
          sent      \* how many messages each sender has put into the channel

vars == <<queue, sent>>

Init == /\ queue = <<>>
        /\ sent = [s \in Senders |-> 0]

\* A sender with something left to send puts it in when there is room.
Put(s) == /\ sent[s] < MaxSend
          /\ Len(queue) < Cap
          /\ queue' = Append(queue, <<s, sent[s] + 1>>)
          /\ sent' = [sent EXCEPT ![s] = @ + 1]

\* Some receiver takes the oldest message.
Take == /\ queue # <<>>
        /\ queue' = Tail(queue)
        /\ UNCHANGED sent

Next == (\E s \in Senders : Put(s)) \/ Take

Safety == Init /\ [][Next]_vars

\* Room is used and messages are taken: the promise a lost wake-up breaks.
Spec == Safety /\ WF_vars(\E s \in Senders : Put(s)) /\ WF_vars(Take)
=============================================================================
