--------------------------- MODULE ElementProofs ---------------------------
(***************************************************************************)
(* DriverInv is kept by every step of an element, and what follows from    *)
(* it: the properties that Driver states, and the step of Experiment that  *)
(* each step of a driver is.                                               *)
(***************************************************************************)
EXTENDS DriverProofs

-----------------------------------------------------------------------------
(* What an element does with a message it has received.                    *)

\* Outside a run all that was sent into a lane is at its end.
LEMMA Quiet ==
  ASSUME DriverInv, phase \notin {"sending", "waiting"}, NEW l \in 1..Lanes
  PROVE  delivered[l] = Done /\ SentTo(l) = Done /\ Done \in Nat
<1> USE PipelineAssumption
<1>1. /\ Done \in Nat /\ InRun(l) \in 0..Messages /\ SentTo(l) = Done + InRun(l)
      /\ ~(InRun(l) > 0)
  BY SentFacts DEF DriverInv
<1>2. Done <= delivered[l] /\ delivered[l] \in Nat
  BY DEF DriverInv, LaneNotices, Types
<1>3. Accepted(l, Pipelines) <= SentTo(l)
  BY Slots DEF DriverInv, Order
<1>4. Accepted(l, Pipelines) = delivered[l]
  BY SlotCounts
<1> QED
  BY <1>1, <1>2, <1>3, <1>4

\* A message is passed on to the next element.
LEMMA HandleActionInv ==
  ASSUME DriverInv, NEW e \in Elements, handle_action(e), UNCHANGED driverVars
  PROVE  DriverInv'
<1> USE PipelineAssumption, DriverAssumption
<1>1. Types /\ Control /\ pc[e] = "action" /\ todo[e] # <<>>
      /\ UNCHANGED <<pc, delivered, phase, iteration, lane, id>>
  BY DEF DriverInv, handle_action, driverVars
<1>2. /\ e \in Channels /\ Open(e) /\ ConfigSent(e) /\ ~HasConfig(queue[e])
      /\ Configured(e) /\ fwd[e] \in Forwarders /\ fwd[e].received_count >= 1
      /\ todo[e] = fwd[e].senders
  BY <1>1, ActionFacts
<1>3. e # Concentrator
  BY <1>1, <1>2, ConfiguredSlots
<1>4. PICK l \in 1..Lanes, i \in 1..Pipelines : e = Slot(l, i)
  BY <1>3, Slots
<1> DEFINE f == Slot(l, i + 1)
<1>5. i < Pipelines /\ todo[e] = <<f>>
  BY <1>1, <1>2, <1>4, ConfiguredSlots
<1>6. /\ i + 1 \in 1..Pipelines /\ i + 1 # 1 /\ (i + 1) - 1 = i
      /\ f \in Elements /\ f \in Channels /\ f # e /\ f # Notifier /\ f # Concentrator
  <2>1. i + 1 \in 1..Pipelines /\ i + 1 # 1 /\ (i + 1) - 1 = i /\ i + 1 # i
    BY <1>5
  <2> QED
    BY <1>4, <2>1, Slots
<1> HIDE DEF f
<1>7. Head(todo[e]) = f /\ Tail(todo[e]) = <<>> /\ Len(todo[e]) = 1
  BY <1>5
<1> DEFINE n == fwd[e].send_count
<1>8. n \in Nat /\ n = Passed(l, i)
  BY <1>2, <1>4, SlotCounts DEF Forwarders
<1>9. send_cmd(f, TestData(n))
  BY <1>7 DEF handle_action
<1> HIDE DEF n
<1>10. phase \in {"sending", "waiting"}
  <2> SUFFICES ASSUME phase \notin {"sending", "waiting"} PROVE FALSE
    OBVIOUS
  <2>1. Len(todo[e]) = 0
    BY <1>4, <1>5, Quiet, LaneDrained
  <2> QED
    BY <1>7, <2>1
<1>11. Open(f) /\ \A x : ConfigSent(x) /\ ConfigSent(x)'
  BY <1>1, <1>6, <1>10, OpenInSetup DEF ConfigSent
<1>12. /\ queue' \in [Channels -> Seq(Message)]
       /\ \A d \in Channels : Len(queue'[d]) <= Cap
       /\ \A d \in Channels : d # f => queue'[d] = queue[d]
       /\ queue'[f] # <<>>
       /\ queue[f] # <<>> => queue'[f][1] = queue[f][1]
       /\ DataBehind(queue'[f])
       /\ HasConfig(queue'[f]) <=> HasConfig(queue[f])
       /\ NData(queue'[f]) = NData(queue[f]) + 1
       /\ \A a \in Int : Numbered(queue[f], a) /\ n = a + NData(queue[f]) =>
                           Numbered(queue'[f], a)
  BY <1>6, <1>8, <1>9, <1>11, SendStep
<1>13. /\ fwd' = [fwd EXCEPT ![e] = count_send(fwd[e])]
       /\ todo' = [todo EXCEPT ![e] = <<>>]
  BY <1>1, <1>7 DEF handle_action, Types
<1>14. /\ fwd'[e] = count_send(fwd[e])
       /\ \A x \in Elements : x # e => fwd'[x] = fwd[x]
       /\ todo'[e] = <<>>
       /\ \A x \in Elements : x # e => todo'[x] = todo[x]
  BY <1>1, <1>13 DEF Types
<1>15. /\ fwd'[e] \in Forwarders
       /\ fwd'[e].send_count = n + 1
       /\ fwd'[e].received_count = fwd[e].received_count
       /\ fwd'[e].next_seq = fwd[e].next_seq
       /\ fwd'[e].senders = fwd[e].senders
       /\ fwd'[e].notify_sender = fwd[e].notify_sender
       /\ fwd'[e].notify_count = fwd[e].notify_count
  BY <1>2, <1>14, CountSend DEF n
<1>16. Types' /\ Control'
  <2>1. fwd' \in [Elements -> Forwarders]
    BY <1>1, <1>13, <1>14, <1>15 DEF Types
  <2>2. todo' \in [Elements -> Seq(LaneElements)]
    BY <1>1, <1>13, EmptySeq DEF Types
  <2>3. Types'
    BY <1>1, <1>12, <2>1, <2>2 DEF Types
  <2>4. Control'
    BY <1>1 DEF Control
  <2> QED
    BY <2>3, <2>4
<1>17. Lifetimes'
  BY <1>1 DEF DriverInv, Lifetimes, Created
<1>18. queue'[Notifier] = queue[Notifier] /\ queue'[Concentrator] = queue[Concentrator]
       /\ fwd'[Concentrator] = fwd[Concentrator]
  BY <1>3, <1>6, <1>12, <1>14, Names
<1>19. Configuration'
  <2>1. \A x \in Elements : queue'[x] = queue[x] \/ x = f
    BY <1>12, Names
  <2>2. HasConfig(queue[f]) => queue'[f][1] = queue[f][1]
    BY <1>12 DEF HasConfig
  <2>3. \A x : Open(x)' <=> Open(x)
    BY <1>1 DEF Open
  <2>4. \A x \in Elements : fwd'[x] = fwd[x] \/ x = e
    BY <1>14
  <2>5. DataBehind(queue'[Notifier]) /\ ~HasConfig(queue'[Notifier])
    BY <1>18 DEF DriverInv, Configuration
  <2> QED
    BY <1>2, <1>11, <1>12, <1>15, <2>1, <2>2, <2>3, <2>4, <2>5, ConfigKept
<1>20. Actions'
  <2> SUFFICES ASSUME NEW x \in Elements
               PROVE  /\ todo'[x] # <<>> => pc[x] = "action" /\ todo'[x] = fwd'[x].senders
                      /\ pc[x] = "action" => /\ ~HasConfig(queue'[x])
                                             /\ fwd'[x].received_count >= 1
    BY <1>1, <1>11 DEF Actions
  <2>1. /\ todo[x] # <<>> => pc[x] = "action" /\ todo[x] = fwd[x].senders
        /\ pc[x] = "action" => /\ ~HasConfig(queue[x])
                               /\ fwd[x].received_count >= 1
    BY DEF DriverInv, Actions
  <2>2. HasConfig(queue'[x]) <=> HasConfig(queue[x])
    BY <1>12, Names
  <2> QED
    BY <1>14, <1>15, <2>1, <2>2
<1>21. Done' = Done /\ \A k \in 1..Lanes : SentTo(k)' = SentTo(k)
  BY <1>1 DEF Done, SentTo
<1>22. ASSUME NEW k \in 1..Lanes, NEW j \in 1..Pipelines
       PROVE  /\ Slot(k, j) = e <=> k = l /\ j = i
              /\ Slot(k, j) = f <=> k = l /\ j = i + 1
  BY <1>4, <1>6, Slots DEF f
<1>23. ASSUME NEW k \in 1..Lanes, NEW j \in 1..Pipelines
       PROVE  /\ Accepted(k, j)' = Accepted(k, j)
              /\ Slot(k, j) # e => Passed(k, j)' = Passed(k, j)
  <2>1. Slot(k, j) \in Elements /\ j # 0
    BY Slots
  <2>2. /\ fwd'[Slot(k, j)].received_count = fwd[Slot(k, j)].received_count
        /\ Slot(k, j) # e => fwd'[Slot(k, j)] = fwd[Slot(k, j)]
    BY <1>14, <1>15, <2>1
  <2> QED
    BY <1>1, <2>1, <2>2, SlotCounts
<1>24. Passed(l, i)' = Passed(l, i) + 1
  BY <1>4, <1>8, <1>15, SlotCounts
<1>25. ASSUME NEW k \in 1..Lanes, NEW j \in 1..Pipelines, Slot(k, j) # f
       PROVE  Passed(k, j - 1)' = Passed(k, j - 1)
  <2>1. CASE j = 1
    BY <1>21, <2>1, SlotCounts
  <2>2. CASE j # 1
    <3>1. j - 1 \in 1..Pipelines /\ ~(k = l /\ j - 1 = i)
      BY <1>22, <1>25, <2>2
    <3> QED
      BY <1>22, <1>23, <3>1
  <2> QED
    BY <2>1, <2>2
<1>26. Hops'
  <2> SUFFICES ASSUME NEW k \in 1..Lanes, NEW j \in 1..Pipelines
               PROVE  /\ Passed(k, j - 1)' = Accepted(k, j)' + NData(queue'[Slot(k, j)])
                      /\ j < Pipelines => Accepted(k, j)' = Passed(k, j)' + Len(todo'[Slot(k, j)])
    BY DEF Hops
  <2>1. /\ Passed(k, j - 1) = Accepted(k, j) + NData(queue[Slot(k, j)])
        /\ j < Pipelines => Accepted(k, j) = Passed(k, j) + Len(todo[Slot(k, j)])
    BY DEF DriverInv, Hops
  <2>2. /\ Accepted(k, j) \in Nat /\ Passed(k, j) \in Nat
        /\ NData(queue[Slot(k, j)]) \in Nat
    BY CountTypes
  <2>3. Passed(k, j - 1)' = Accepted(k, j)' + NData(queue'[Slot(k, j)])
    <3>1. CASE Slot(k, j) = f
      <4>1. k = l /\ j - 1 = i
        BY <1>6, <1>22, <3>1
      <4>2. NData(queue'[Slot(k, j)]) = NData(queue[Slot(k, j)]) + 1
        BY <1>12, <3>1
      <4> QED
        BY <1>23, <1>24, <2>1, <2>2, <4>1, <4>2
    <3>2. CASE Slot(k, j) # f
      <4>1. queue'[Slot(k, j)] = queue[Slot(k, j)]
        BY <1>12, <3>2, Slots
      <4> QED
        BY <1>23, <1>25, <2>1, <3>2, <4>1
    <3> QED
      BY <3>1, <3>2
  <2>4. j < Pipelines => Accepted(k, j)' = Passed(k, j)' + Len(todo'[Slot(k, j)])
    <3>1. CASE Slot(k, j) = e
      <4>1. k = l /\ j = i
        BY <1>22, <3>1
      <4>2. Len(todo'[Slot(k, j)]) = 0 /\ Len(todo[Slot(k, j)]) = 1
        BY <1>7, <1>14, <3>1, EmptySeq
      <4> QED
        BY <1>23, <1>24, <2>1, <2>2, <4>1, <4>2
    <3>2. CASE Slot(k, j) # e
      <4>1. todo'[Slot(k, j)] = todo[Slot(k, j)]
        BY <1>14, <3>2, Slots
      <4> QED
        BY <1>23, <2>1, <3>2, <4>1
    <3> QED
      BY <3>1, <3>2
  <2> QED
    BY <2>3, <2>4
<1>27. Order'
  <2> SUFFICES ASSUME NEW k \in 1..Lanes, NEW j \in 1..Pipelines, NEW m \in j..Pipelines
               PROVE  Accepted(k, j)' <= SentTo(k)' /\ Accepted(k, m)' <= Accepted(k, j)'
    BY DEF Order
  <2>1. m \in 1..Pipelines
    OBVIOUS
  <2> QED
    BY <1>21, <1>23, <2>1 DEF DriverInv, Order
<1>28. Numbers'
  <2> SUFFICES ASSUME NEW k \in 1..Lanes, NEW j \in 1..(Pipelines - 1)
               PROVE  /\ Numbered(queue'[Slot(k, j)], Count(k, j)')
                      /\ Count(k, j)' > 0 => fwd'[Slot(k, j)].next_seq = Count(k, j)'
    BY DEF Numbers
  <2>1. j \in 1..Pipelines
    OBVIOUS
  <2>2. Count(k, j)' = Count(k, j)
    BY <1>21, <1>23, <2>1 DEF Count
  <2>3. /\ Numbered(queue[Slot(k, j)], Count(k, j))
        /\ Count(k, j) > 0 => fwd[Slot(k, j)].next_seq = Count(k, j)
    BY DEF DriverInv, Numbers
  <2>4. fwd'[Slot(k, j)].next_seq = fwd[Slot(k, j)].next_seq
    BY <1>14, <1>15, <2>1, Slots
  <2>5. Numbered(queue'[Slot(k, j)], Count(k, j))
    <3>1. CASE Slot(k, j) = f
      <4>1. k = l /\ j - 1 = i /\ j # 1
        BY <1>6, <1>22, <2>1, <3>1
      <4>2. Passed(k, j - 1) = Accepted(k, j) + NData(queue[Slot(k, j)])
        BY <2>1 DEF DriverInv, Hops
      <4>3. Accepted(k, j) \in Nat
        BY <2>1, CountTypes
      <4>4. Count(k, j) = Accepted(k, j)
        BY <4>1, <4>3 DEF Count
      <4>5. Count(k, j) \in Int /\ n = Count(k, j) + NData(queue[f])
        BY <1>8, <3>1, <4>1, <4>2, <4>3, <4>4
      <4> QED
        BY <1>12, <2>3, <3>1, <4>5
    <3>2. CASE Slot(k, j) # f
      BY <1>12, <2>1, <2>3, <3>2, Slots
    <3> QED
      BY <3>1, <3>2
  <2> QED
    BY <2>2, <2>3, <2>4, <2>5
<1>29. \A k \in 1..Lanes : fwd'[Last(k)] = fwd[Last(k)]
  BY <1>5, <1>14, <1>22, Slots
<1>30. LaneNotices' /\ NotifiedLanes' = NotifiedLanes
  BY <1>1, <1>21, <1>29 DEF DriverInv, LaneNotices, NotifiedLanes, Notified, Last
<1>31. ConcentratorNotices'
  BY <1>1, <1>18, <1>30 DEF DriverInv, ConcentratorNotices
<1> QED
  BY <1>16, <1>17, <1>19, <1>20, <1>26, <1>27, <1>28, <1>30, <1>31 DEF DriverInv

\* A step of an element that only takes it from one message to the next moves
\* nothing but where it is.
LEMMA StandingSent ==
  ASSUME UNCHANGED driverVars, UNCHANGED delivered
  PROVE  /\ Done' = Done
         /\ \A l \in 1..Lanes : SentTo(l)' = SentTo(l)
         /\ \A e : (ConfigSent(e)' <=> ConfigSent(e)) /\ (Created(e)' <=> Created(e))
         /\ Control' <=> Control
BY DEF driverVars, Done, SentTo, ConfigSent, Created, Control

\* An element that ends its turn is one that is not yet to notify anyone, the last
\* of a lane, or the concentrator.
LEMMA TurnEnds ==
  ASSUME DriverInv, NEW e \in Elements, handle_notification(e), UNCHANGED driverVars
  PROVE  /\ Lifetimes' /\ Control'
         /\ pc' \in [Channels -> {"unborn", "recv", "action", "exited", "panicked"}]
         /\ pc'[e] = "recv" /\ \A c \in Channels : c # e => pc'[c] = pc[c]
         /\ \A c \in Channels : Open(c)' <=> Open(c)
         /\ todo' = todo /\ todo[e] = <<>> /\ delivered' = delivered
         /\ pc[e] = "action" /\ e \in Channels /\ e # Notifier
<1>1. Types /\ pc[e] = "action" /\ pc' = [pc EXCEPT ![e] = "recv"] /\ e \in Channels /\ e # Notifier
  BY Names DEF DriverInv, handle_notification
<1>2. pc'[e] = "recv" /\ \A c \in Channels : c # e => pc'[c] = pc[c]
  BY <1>1 DEF Types
<1>3. pc' \in [Channels -> {"unborn", "recv", "action", "exited", "panicked"}]
  BY <1>1 DEF Types
<1>4. delivered' = delivered /\ todo' = todo /\ todo[e] = <<>>
  BY DEF handle_notification
<1>5. Created(e) /\ \A x : Created(x)' <=> Created(x)
  BY <1>1, <1>4, ActionFacts, StandingSent
<1>6. Lifetimes'
  <2> SUFFICES ASSUME NEW x \in Elements
               PROVE  /\ pc'[x] # "panicked"
                      /\ ~Created(x)' => pc'[x] = "unborn"
                      /\ phase' \notin {"teardown", "torndown"} => pc'[x] # "exited"
    BY <1>1, <1>2, Names DEF DriverInv, Lifetimes, driverVars
  <2>1. /\ pc[x] # "panicked"
        /\ ~Created(x) => pc[x] = "unborn"
        /\ phase \notin {"teardown", "torndown"} => pc[x] # "exited"
    BY DEF DriverInv, Lifetimes
  <2> QED
    BY <1>2, <1>5, <2>1, Names DEF driverVars
<1>7. Control'
  BY <1>4, StandingSent DEF DriverInv
<1>8. \A c \in Channels : Open(c)' <=> Open(c)
  BY <1>1, <1>2 DEF Open
<1> QED
  BY <1>1, <1>2, <1>3, <1>4, <1>6, <1>7, <1>8

\* There is nothing to notify.
LEMMA NotDueInv ==
  ASSUME DriverInv, NEW e \in Elements, handle_notification(e), ~notification_due(fwd[e]),
         UNCHANGED driverVars
  PROVE  DriverInv'
<1>1. UNCHANGED <<queue, fwd, todo, delivered>>
  BY DEF handle_notification
<1>2. /\ Lifetimes' /\ Control'
      /\ pc' \in [Channels -> {"unborn", "recv", "action", "exited", "panicked"}]
      /\ pc'[e] = "recv" /\ \A c \in Channels : c # e => pc'[c] = pc[c]
      /\ \A c \in Channels : Open(c)' <=> Open(c)
      /\ todo[e] = <<>>
  BY TurnEnds
<1>3. Types'
  BY <1>1, <1>2 DEF DriverInv, Types, driverVars
<1>4. /\ Done' = Done
      /\ \A l \in 1..Lanes : SentTo(l)' = SentTo(l)
      /\ \A x : ConfigSent(x)' <=> ConfigSent(x)
  BY <1>1, StandingSent
<1>5. Configuration'
  <2>1. DataBehind(queue'[Notifier]) /\ ~HasConfig(queue'[Notifier])
    BY <1>1 DEF DriverInv, Configuration
  <2> QED
    BY <1>1, <1>2, <1>4, <2>1, ConfigKept, Names
<1>6. Actions'
  BY <1>1, <1>2, <1>4, Names DEF DriverInv, Actions
<1>7. Hops' /\ Order' /\ Numbers' /\ LaneNotices' /\ ConcentratorNotices'
  BY <1>1, <1>2, <1>4, DataFrame, Names DEF driverVars
<1> QED
  BY <1>2, <1>3, <1>5, <1>6, <1>7 DEF DriverInv

\* What a notification does, whoever sends it: one message to `c`, and the counts
\* of the sender start again from 0.
LEMMA NotifyFacts ==
  ASSUME DriverInv, NEW e \in Elements, handle_notification(e), notification_due(fwd[e]),
         UNCHANGED driverVars,
         NEW c \in Channels, fwd[e].notify_sender = c, Open(c),
         c # e, c = Notifier \/ ConfigSent(c),
         fwd[e].senders = <<>>
  PROVE  /\ Types' /\ Configuration' /\ Actions'
         /\ \A d \in Channels : d # c => queue'[d] = queue[d]
         /\ Len(queue'[c]) = Len(queue[c]) + 1 /\ queue'[c] # <<>>
         /\ NData(queue'[c]) = NData(queue[c]) + 1
         /\ fwd'[e].received_count = 0
         /\ \A x \in Elements : x # e => fwd'[x] = fwd[x]
<1>1. /\ pc' \in [Channels -> {"unborn", "recv", "action", "exited", "panicked"}]
      /\ pc'[e] = "recv" /\ \A d \in Channels : d # e => pc'[d] = pc[d]
      /\ \A d \in Channels : Open(d)' <=> Open(d)
      /\ todo' = todo /\ delivered' = delivered
      /\ todo[e] = <<>> /\ pc[e] = "action"
  BY TurnEnds
<1>2. /\ Open(e) /\ ConfigSent(e) /\ ~HasConfig(queue[e]) /\ fwd[e] \in Forwarders
  BY <1>1, ActionFacts
<1> DEFINE n == fwd[e].received_count
<1>3. n \in Nat /\ send_cmd(c, TestData(n))
      /\ fwd' = [fwd EXCEPT ![e] = get_and_clear_received_count(fwd[e])]
  BY <1>2 DEF handle_notification, Forwarders
<1> HIDE DEF n
<1>4. /\ queue' \in [Channels -> Seq(Message)]
      /\ \A d \in Channels : Len(queue'[d]) <= Cap
      /\ \A d \in Channels : d # c => queue'[d] = queue[d]
      /\ queue'[c] # <<>> /\ Len(queue'[c]) = Len(queue[c]) + 1
      /\ queue[c] # <<>> => queue'[c][1] = queue[c][1]
      /\ DataBehind(queue'[c])
      /\ HasConfig(queue'[c]) <=> HasConfig(queue[c])
      /\ NData(queue'[c]) = NData(queue[c]) + 1
  BY <1>3, SendStep
<1>5. fwd'[e] = get_and_clear_received_count(fwd[e]) /\ \A x \in Elements : x # e => fwd'[x] = fwd[x]
  BY <1>3 DEF DriverInv, Types
<1>6. /\ fwd'[e] \in Forwarders /\ fwd'[e].received_count = 0
      /\ fwd'[e].senders = fwd[e].senders
      /\ fwd'[e].notify_sender = fwd[e].notify_sender
      /\ fwd'[e].notify_count = fwd[e].notify_count
  BY <1>2, <1>5, ClearCount
<1>7. Types'
  <2>1. fwd' \in [Elements -> Forwarders]
    BY <1>3, <1>5, <1>6 DEF DriverInv, Types
  <2> QED
    BY <1>1, <1>4, <2>1 DEF DriverInv, Types, driverVars
<1>8. \A x : ConfigSent(x)' <=> ConfigSent(x)
  BY <1>1, StandingSent
<1>9. Configuration'
  <2>1. DataBehind(queue'[Notifier]) /\ ~HasConfig(queue'[Notifier])
    <3>1. DataBehind(queue[Notifier]) /\ ~HasConfig(queue[Notifier])
      BY DEF DriverInv, Configuration
    <3> QED
      BY <1>4, <3>1, Names
  <2>2. \A x \in Elements : queue'[x] = queue[x] \/ (x = c /\ ConfigSent(c))
    BY <1>4, Names
  <2>3. HasConfig(queue[c]) => queue'[c][1] = queue[c][1]
    BY <1>4 DEF HasConfig
  <2>4. \A x \in Elements : fwd'[x] = fwd[x] \/ x = e
    BY <1>5
  <2>5. \A x \in Elements : (Open(x)' <=> Open(x)) /\ (ConfigSent(x)' <=> ConfigSent(x))
    BY <1>1, <1>8, Names
  <2> QED
    BY <1>2, <1>4, <1>6, <2>1, <2>2, <2>3, <2>4, <2>5, ConfigKept
<1>10. Actions'
  <2> SUFFICES ASSUME NEW x \in Elements
               PROVE  /\ todo'[x] # <<>> => pc'[x] = "action" /\ todo'[x] = fwd'[x].senders
                      /\ pc'[x] = "action" => /\ ConfigSent(x)
                                              /\ ~HasConfig(queue'[x])
                                              /\ fwd'[x].received_count >= 1
    BY <1>8 DEF Actions
  <2>1. /\ todo[x] # <<>> => pc[x] = "action" /\ todo[x] = fwd[x].senders
        /\ pc[x] = "action" => /\ ConfigSent(x)
                               /\ ~HasConfig(queue[x])
                               /\ fwd[x].received_count >= 1
    BY DEF DriverInv, Actions
  <2>2. HasConfig(queue'[x]) <=> HasConfig(queue[x])
    BY <1>4, Names
  <2>3. x # e => pc'[x] = pc[x] /\ fwd'[x] = fwd[x]
    BY <1>1, <1>5, Names
  <2> QED
    BY <1>1, <2>1, <2>2, <2>3
<1> QED
  BY <1>4, <1>5, <1>6, <1>7, <1>9, <1>10

\* The end of a lane notifies the concentrator, when all the run's messages are there.
LEMMA LaneNotifyInv ==
  ASSUME DriverInv, NEW l \in 1..Lanes, handle_notification(Last(l)),
         notification_due(fwd[Last(l)]), UNCHANGED driverVars
  PROVE  DriverInv'
<1> USE PipelineAssumption
<1> DEFINE e == Last(l)
<1>1. e \in Elements /\ e # Concentrator /\ e # Notifier /\ e = Slot(l, Pipelines)
  BY Slots
<1> HIDE DEF e
<1>2. /\ Lifetimes' /\ Control'
      /\ pc'[e] = "recv" /\ \A c \in Channels : c # e => pc'[c] = pc[c]
      /\ todo' = todo /\ delivered' = delivered /\ pc[e] = "action"
  BY <1>1, TurnEnds DEF e
<1>3. /\ fwd[e].senders = <<>> /\ fwd[e].notify_sender = Concentrator
      /\ fwd[e].notify_count = Messages /\ fwd[e].received_count = Messages
  <2>1. Configured(e)
    BY <1>1, <1>2, ActionFacts
  <2>2. notification_due(fwd[e])
    BY DEF e
  <2> QED
    BY <1>1, <2>1, <2>2, ConfiguredSlots, Slots DEF notification_due
<1>4. Done \in Nat /\ ~Notified(l) /\ delivered[l] = Done + Messages
  <2>1. Done \in Nat /\ delivered[l] \in Nat
    BY SentFacts DEF DriverInv, Types
  <2>2. ~Notified(l)
    BY <1>3 DEF Notified, e
  <2>3. fwd[e].received_count = delivered[l] - Done
    BY <2>2 DEF DriverInv, LaneNotices, e
  <2> QED
    BY <1>3, <2>1, <2>2, <2>3
<1>5. phase \in {"sending", "waiting"}
  BY <1>4, Quiet
<1>6. Open(Concentrator) /\ ConfigSent(Concentrator)
  BY <1>5, AllSent, Names DEF DriverInv, Lifetimes, Open
<1>7. /\ Types' /\ Configuration' /\ Actions'
      /\ \A d \in Channels : d # Concentrator => queue'[d] = queue[d]
      /\ NData(queue'[Concentrator]) = NData(queue[Concentrator]) + 1
      /\ fwd'[e].received_count = 0
      /\ \A x \in Elements : x # e => fwd'[x] = fwd[x]
  <2>1. handle_notification(e) /\ notification_due(fwd[e])
    BY DEF e
  <2> QED
    BY <1>1, <1>3, <1>6, <2>1, NotifyFacts, Names
<1>8. Done' = Done /\ \A k \in 1..Lanes : SentTo(k)' = SentTo(k)
  BY <1>2, StandingSent
<1>9. ASSUME NEW k \in 1..Lanes, NEW i \in 1..Pipelines
      PROVE  /\ Slot(k, i) = e <=> k = l /\ i = Pipelines
             /\ Slot(k, i) \in Elements /\ Slot(k, i) \in Channels
             /\ Slot(k, i) # Concentrator
  <2>1. Slot(k, i) = Slot(l, Pipelines) <=> k = l /\ i = Pipelines
    BY Slots
  <2> QED
    BY <1>1, <2>1, Slots
<1>10. Hops' /\ Order' /\ Numbers'
  BY <1>2, <1>7, <1>8, <1>9, LaneFrame
<1>11. \A k \in 1..Lanes : /\ Last(k) \in Elements /\ Last(k) \in Channels
                           /\ k # l => Last(k) # e
  BY <1>1, Slots
<1>12. Notified(l)' /\ \A k \in 1..Lanes : k # l => Notified(k)' = Notified(k)
  BY <1>2, <1>4, <1>7, <1>8, <1>11 DEF Notified, e, Last
<1>13. LaneNotices'
  <2> SUFFICES ASSUME NEW k \in 1..Lanes, k # l
               PROVE  /\ Done <= delivered[k]
                      /\ \/ Notified(k)
                         \/ /\ fwd'[Last(k)].received_count = delivered[k] - Done
                            /\ delivered[k] = Done + Messages => pc'[Last(k)] = "action"
    <3>1. Done <= delivered[l]
      BY DEF DriverInv, LaneNotices
    <3> QED
      BY <1>2, <1>8, <1>12, <3>1 DEF LaneNotices, Last
  <2> QED
    BY <1>2, <1>7, <1>11 DEF DriverInv, LaneNotices
<1>14. NotifiedLanes' = NotifiedLanes \cup {l} /\ l \notin NotifiedLanes
  BY <1>4, <1>12 DEF NotifiedLanes
<1>15. Cardinality(NotifiedLanes') = Cardinality(NotifiedLanes) + 1
  <2>1. IsFiniteSet(NotifiedLanes)
    <3>1. IsFiniteSet(1..Lanes) /\ NotifiedLanes \subseteq 1..Lanes
      BY FS_Interval DEF NotifiedLanes
    <3> QED
      BY <3>1, FS_Subset
  <2> QED
    BY <1>14, <2>1, FS_AddElement
<1>16. ConcentratorNotices'
  <2>1. /\ queue[Notifier] = <<>>
        /\ fwd[Concentrator].received_count + NData(queue[Concentrator])
             = Cardinality(NotifiedLanes)
        /\ fwd[Concentrator].received_count = Lanes => pc[Concentrator] = "action"
    BY <1>14 DEF DriverInv, ConcentratorNotices
  <2>2. /\ queue'[Notifier] = queue[Notifier]
        /\ fwd'[Concentrator] = fwd[Concentrator]
        /\ pc'[Concentrator] = pc[Concentrator]
    BY <1>1, <1>2, <1>7, Names
  <2>3. fwd[Concentrator].received_count \in Nat /\ NData(queue[Concentrator]) \in Nat
    BY DataCount, Names DEF DriverInv, Types, Forwarders, Configuration
  <2> QED
    BY <1>7, <1>15, <2>1, <2>2, <2>3 DEF ConcentratorNotices
<1> QED
  BY <1>2, <1>7, <1>10, <1>13, <1>16 DEF DriverInv

\* The concentrator notifies the driver, when all the lanes have notified it.
LEMMA AllNotified ==
  ASSUME DriverInv, handle_notification(Concentrator), notification_due(fwd[Concentrator])
  PROVE  /\ fwd[Concentrator].senders = <<>> /\ fwd[Concentrator].notify_sender = Notifier
         /\ queue[Notifier] = <<>> /\ NData(queue[Concentrator]) = 0
         /\ NotifiedLanes = 1..Lanes
         /\ phase = "waiting"
<1> USE PipelineAssumption
<1>1. Configured(Concentrator)
  BY ActionFacts, Names DEF handle_notification
<1>2. /\ fwd[Concentrator].senders = <<>> /\ fwd[Concentrator].notify_sender = Notifier
      /\ fwd[Concentrator].received_count = Lanes
  BY <1>1, ConfiguredSlots DEF notification_due
<1>3. /\ queue[Notifier] = <<>>
      /\ Lanes + NData(queue[Concentrator]) = Cardinality(NotifiedLanes)
  BY <1>2 DEF DriverInv, ConcentratorNotices
<1>4. NData(queue[Concentrator]) \in Nat
  BY DataCount, Names DEF DriverInv, Types, Configuration
<1>5. /\ IsFiniteSet(1..Lanes) /\ Cardinality(1..Lanes) = Lanes
      /\ NotifiedLanes \subseteq 1..Lanes
  BY FS_Interval DEF NotifiedLanes
<1>6. /\ Cardinality(NotifiedLanes) \in Nat
      /\ Cardinality(NotifiedLanes) <= Lanes
      /\ Cardinality(NotifiedLanes) = Lanes => NotifiedLanes = 1..Lanes
  <2>1. /\ IsFiniteSet(NotifiedLanes)
        /\ Cardinality(NotifiedLanes) <= Cardinality(1..Lanes)
        /\ Cardinality(1..Lanes) = Cardinality(NotifiedLanes) => 1..Lanes = NotifiedLanes
    BY <1>5, FS_Subset
  <2>2. Cardinality(NotifiedLanes) \in Nat
    BY <2>1, FS_CardinalityType
  <2> QED
    BY <1>5, <2>1, <2>2
<1>7. NData(queue[Concentrator]) = 0 /\ NotifiedLanes = 1..Lanes
  BY <1>3, <1>4, <1>6
<1>8. phase = "waiting"
  <2>1. Lanes \in 1..Lanes
    OBVIOUS
  <2>2. delivered[Lanes] = Done + Messages
    BY <1>7, <2>1 DEF NotifiedLanes, Notified
  <2>3. /\ Done \in Nat /\ InRun(Lanes) \in 0..Messages
        /\ SentTo(Lanes) = Done + InRun(Lanes)
        /\ InRun(Lanes) > 0 => phase \in {"sending", "waiting"}
    BY <2>1, SentFacts DEF DriverInv
  <2>4. delivered[Lanes] <= SentTo(Lanes)
    BY <2>1, Slots, SlotCounts DEF DriverInv, Order
  <2>5. InRun(Lanes) = Messages /\ phase \in {"sending", "waiting"}
    BY <2>2, <2>3, <2>4
  <2>6. phase # "sending"
    <3> SUFFICES ASSUME phase = "sending" PROVE FALSE
      OBVIOUS
    <3>1. lane <= Lanes /\ id < Messages /\ lane \in Nat /\ id \in Nat
      BY DEF DriverInv, Types, Control
    <3>2. InRun(Lanes) = id
      BY <3>1 DEF InRun
    <3> QED
      BY <2>5, <3>1, <3>2
  <2> QED
    BY <2>5, <2>6
<1> QED
  BY <1>2, <1>3, <1>7, <1>8

\* The notification of the run.
LEMMA ConcentratorNotifyInv ==
  ASSUME DriverInv, handle_notification(Concentrator), notification_due(fwd[Concentrator]),
         UNCHANGED driverVars
  PROVE  DriverInv'
<1> USE PipelineAssumption
<1>1. /\ fwd[Concentrator].senders = <<>> /\ fwd[Concentrator].notify_sender = Notifier
      /\ queue[Notifier] = <<>> /\ NData(queue[Concentrator]) = 0
      /\ NotifiedLanes = 1..Lanes
      /\ phase = "waiting"
  BY AllNotified
<1>2. /\ Lifetimes' /\ Control'
      /\ \A c \in Channels : c # Concentrator => pc'[c] = pc[c]
      /\ todo' = todo /\ delivered' = delivered
  BY TurnEnds, Names
<1>3. Open(Notifier)
  BY <1>1, Names DEF DriverInv, Lifetimes, Open
<1>4. /\ Types' /\ Configuration' /\ Actions'
      /\ \A d \in Channels : d # Notifier => queue'[d] = queue[d]
      /\ Len(queue'[Notifier]) = Len(queue[Notifier]) + 1
      /\ fwd'[Concentrator].received_count = 0
      /\ \A x \in Elements : x # Concentrator => fwd'[x] = fwd[x]
  <2>1. Concentrator \in Elements /\ Notifier \in Channels /\ Notifier # Concentrator
    BY Names
  <2> QED
    BY <1>1, <1>3, <2>1, NotifyFacts
<1>5. Len(queue'[Notifier]) = 1
  BY <1>1, <1>4, EmptySeq
<1>6. Done' = Done /\ \A k \in 1..Lanes : SentTo(k)' = SentTo(k)
  BY <1>2, StandingSent
<1>7. ASSUME NEW k \in 1..Lanes, NEW i \in 1..Pipelines
      PROVE  fwd'[Slot(k, i)] = fwd[Slot(k, i)] /\ queue'[Slot(k, i)] = queue[Slot(k, i)]
  BY <1>4, Slots
<1>8. Hops' /\ Order' /\ Numbers'
  BY <1>2, <1>6, <1>7, LaneFrame
<1>9. \A k \in 1..Lanes : fwd'[Last(k)] = fwd[Last(k)] /\ pc'[Last(k)] = pc[Last(k)]
  <2>1. \A k \in 1..Lanes : /\ Last(k) \in Elements /\ Last(k) \in Channels
                            /\ Last(k) # Concentrator
    BY Slots, Names
  <2> QED
    BY <1>2, <1>4, <2>1
<1>10. \A k \in 1..Lanes : Notified(k)' = Notified(k)
  BY <1>2, <1>6, <1>9 DEF Notified, Last
<1>11. LaneNotices' /\ NotifiedLanes' = NotifiedLanes
  BY <1>2, <1>6, <1>9, <1>10 DEF DriverInv, LaneNotices, NotifiedLanes, Last
<1>12. queue'[Concentrator] = queue[Concentrator]
  BY <1>4, Names
<1>13. ConcentratorNotices'
  BY <1>1, <1>4, <1>5, <1>11, <1>12 DEF ConcentratorNotices, driverVars
<1> QED
  BY <1>2, <1>4, <1>8, <1>11, <1>13 DEF DriverInv

\* The end of an element's turn, whichever element it is: those between the heads
\* and the ends of the lanes have nobody to notify.
LEMMA HandleNotificationInv ==
  ASSUME DriverInv, NEW e \in Elements, handle_notification(e), UNCHANGED driverVars
  PROVE  DriverInv'
<1>1. CASE ~notification_due(fwd[e])
  BY <1>1, NotDueInv
<1>2. CASE e = Concentrator
  BY <1>1, <1>2, ConcentratorNotifyInv
<1>3. CASE e # Concentrator /\ notification_due(fwd[e])
  <2>1. PICK l \in 1..Lanes, i \in 1..Pipelines : e = Slot(l, i)
    BY <1>3, Slots
  <2>2. Configured(e) /\ fwd[e].received_count >= 1 /\ fwd[e] \in Forwarders
    BY ActionFacts DEF handle_notification
  <2>3. i = Pipelines
    <3> SUFFICES ASSUME i # Pipelines PROVE FALSE
      OBVIOUS
    <3>1. fwd[e].notify_count = 0
      BY <2>1, <2>2, ConfiguredSlots
    <3> QED
      BY <1>3, <2>2, <3>1 DEF notification_due
  <2>4. e = Last(l)
    BY <2>1, <2>3 DEF Last
  <2> QED
    BY <1>3, <2>4, LaneNotifyInv
<1> QED
  BY <1>1, <1>2, <1>3

-----------------------------------------------------------------------------
(* The configuration arrives.                                              *)

\* It makes a new forwarder one that is configured.
LEMMA ConfigureForwarder ==
  ASSUME NEW e \in Elements
  PROVE  LET g == handle_config(new, ConfigOf(e))
         IN  /\ g \in Forwarders
             /\ g.received_count = 0 /\ g.send_count = 0 /\ g.next_seq = 0
             /\ g.senders = IF e = Concentrator \/ e[2] = Pipelines THEN <<>> ELSE <<After(e)>>
             /\ g.notify_sender = CASE e = Concentrator -> Notifier
                                    [] e # Concentrator /\ e[2] = Pipelines -> Concentrator
                                    [] OTHER -> None
             /\ g.notify_count = CASE e = Concentrator -> Lanes
                                   [] e # Concentrator /\ e[2] = Pipelines -> Messages
                                   [] OTHER -> 0
<1> USE PipelineAssumption
<1>1. CASE e = Concentrator
  <2>1. ConfigOf(e) = Notify(Notifier, Lanes)
    BY <1>1 DEF ConfigOf
  <2> QED
    BY <1>1, <2>1, HandleNotify
<1>2. CASE e # Concentrator /\ e[2] = Pipelines
  <2>1. ConfigOf(e) = Notify(Concentrator, Messages)
    BY <1>2 DEF ConfigOf
  <2> QED
    BY <1>2, <2>1, HandleNotify
<1>3. CASE e # Concentrator /\ e[2] # Pipelines
  <2>1. ConfigOf(e) = AddSender(After(e))
    BY <1>3 DEF ConfigOf
  <2>2. After(e) \in LaneElements
    <3>1. PICK l \in 1..Lanes, i \in 1..Pipelines : e = Slot(l, i)
      BY <1>3, Slots
    <3>2. i # Pipelines /\ After(e) = Slot(l, i + 1)
      BY <1>3, <3>1, Slots
    <3>3. i + 1 \in 1..Pipelines
      BY <3>2
    <3> QED
      BY <3>2, <3>3, Slots
  <2> QED
    BY <1>3, <2>1, <2>2, HandleAddSender
<1> QED
  BY <1>1, <1>2, <1>3

\* An element takes its configuration.
LEMMA ReceiveConfigInv ==
  ASSUME DriverInv, NEW e \in Elements, NEW crew, e \in crew, ReceiveConfig(e, crew),
         UNCHANGED driverVars
  PROVE  DriverInv'
<1>1. /\ Types /\ pc[e] = "recv" /\ queue[e] # <<>> /\ is_config(Head(queue[e]))
      /\ queue' = [queue EXCEPT ![e] = Tail(queue[e])]
      /\ fwd' = [fwd EXCEPT ![e] = handle_config(fwd[e], Head(queue[e]))]
      /\ UNCHANGED <<pc, todo, delivered>>
  BY DEF DriverInv, ReceiveConfig, Receiving, TakeHead
<1>2. e \in Channels /\ e # Notifier /\ queue[e] \in Seq(Message) /\ DataBehind(queue[e])
  BY <1>1, Names DEF Types, DriverInv, Configuration
<1>3. HasConfig(queue[e])
  BY <1>1, <1>2, HeadTailProperties DEF HasConfig
<1>4. Open(e) /\ ConfigSent(e) /\ queue[e][1] = ConfigOf(e) /\ fwd[e] = new
  BY <1>1, <1>3 DEF DriverInv, Configuration
<1>5. /\ Tail(queue[e]) \in Seq(Message)
      /\ Len(Tail(queue[e])) = Len(queue[e]) - 1
      /\ Head(queue[e]) = queue[e][1]
      /\ DataBehind(Tail(queue[e])) /\ ~HasConfig(Tail(queue[e]))
      /\ NData(Tail(queue[e])) = NData(queue[e])
      /\ \A a \in Int : Numbered(queue[e], a) => Numbered(Tail(queue[e]), a)
  BY <1>2, <1>3, TakeConfig
<1>6. queue'[e] = Tail(queue[e]) /\ \A c \in Channels : c # e => queue'[c] = queue[c]
  BY <1>1, <1>2 DEF Types
<1>7. /\ fwd'[e] = handle_config(new, ConfigOf(e))
      /\ \A x \in Elements : x # e => fwd'[x] = fwd[x]
  BY <1>1, <1>4, <1>5 DEF Types
<1>8. /\ fwd'[e] \in Forwarders /\ Configured(e)'
      /\ fwd'[e].received_count = fwd[e].received_count
      /\ fwd'[e].send_count = fwd[e].send_count
      /\ fwd'[e].next_seq = fwd[e].next_seq
  <2>1. new.received_count = 0 /\ new.send_count = 0 /\ new.next_seq = 0
    BY DEF new
  <2> QED
    BY <1>4, <1>7, <2>1, ConfigureForwarder DEF Configured
<1>9. Types'
  <2>1. queue' \in [Channels -> Seq(Message)]
    BY <1>1, <1>5 DEF Types
  <2>2. fwd' \in [Elements -> Forwarders]
    BY <1>1, <1>7, <1>8 DEF Types
  <2>3. Len(queue[e]) \in Nat /\ Cap \in Nat
    BY <1>2, LenProperties, PipelineAssumption
  <2>4. \A c \in Channels : Len(queue'[c]) <= Cap
    BY <1>1, <1>2, <1>5, <1>6, <2>3 DEF Types
  <2> QED
    BY <1>1, <2>1, <2>2, <2>4 DEF Types, driverVars
<1>10. /\ Done' = Done
       /\ \A l \in 1..Lanes : SentTo(l)' = SentTo(l)
       /\ \A x : (ConfigSent(x)' <=> ConfigSent(x)) /\ (Created(x)' <=> Created(x))
       /\ Control'
  BY <1>1, StandingSent DEF DriverInv
<1>11. Lifetimes'
  BY <1>1, <1>10 DEF DriverInv, Lifetimes, driverVars
<1>12. \A x \in Elements : Open(x)' <=> Open(x)
  BY <1>1 DEF Open
<1>13. Configuration'
  <2> SUFFICES ASSUME NEW x \in Elements, x # e
               PROVE  /\ ~Open(x) => queue'[x] = <<>>
                      /\ Open(x) /\ ~ConfigSent(x) => queue'[x] = <<>> /\ fwd'[x] = new
                      /\ Open(x) /\ ConfigSent(x) =>
                           IF HasConfig(queue'[x])
                             THEN queue'[x][1] = ConfigOf(x) /\ fwd'[x] = new
                             ELSE Configured(x)'
                      /\ DataBehind(queue'[x])
    <3>1. queue'[Notifier] = queue[Notifier]
      BY <1>2, <1>6, Names
    <3>2. DataBehind(queue'[Notifier]) /\ ~HasConfig(queue'[Notifier])
      BY <3>1 DEF DriverInv, Configuration
    <3>3. ConfigOf(e)' = ConfigOf(e) /\ \A x : ConfigOf(x)' = ConfigOf(x)
      BY DEF ConfigOf, After
    <3> QED
      BY <1>4, <1>5, <1>6, <1>8, <1>10, <1>12, <3>2, <3>3 DEF Configuration
  <2>1. queue'[x] = queue[x] /\ fwd'[x] = fwd[x]
    BY <1>6, <1>7, Names
  <2>2. Configured(x)' <=> Configured(x)
    BY <2>1 DEF Configured
  <2> QED
    BY <2>1, <2>2 DEF DriverInv, Configuration
<1>14. Actions'
  <2> SUFFICES ASSUME NEW x \in Elements
               PROVE  /\ todo[x] # <<>> => pc[x] = "action" /\ todo[x] = fwd'[x].senders
                      /\ pc[x] = "action" => /\ ConfigSent(x)
                                             /\ ~HasConfig(queue'[x])
                                             /\ fwd'[x].received_count >= 1
    BY <1>1, <1>10 DEF Actions
  <2>1. /\ todo[x] # <<>> => pc[x] = "action" /\ todo[x] = fwd[x].senders
        /\ pc[x] = "action" => /\ ConfigSent(x)
                               /\ ~HasConfig(queue[x])
                               /\ fwd[x].received_count >= 1
    BY DEF DriverInv, Actions
  <2>2. x # e => queue'[x] = queue[x] /\ fwd'[x] = fwd[x]
    BY <1>6, <1>7, Names
  <2> QED
    BY <1>1, <2>1, <2>2
<1>15. Hops' /\ Order' /\ Numbers' /\ LaneNotices' /\ ConcentratorNotices'
  <2>1. queue'[Notifier] = queue[Notifier]
    BY <1>2, <1>6, Names
  <2>2. ASSUME NEW x \in Elements
        PROVE  /\ fwd'[x].received_count = fwd[x].received_count
               /\ fwd'[x].send_count = fwd[x].send_count
               /\ fwd'[x].next_seq = fwd[x].next_seq
               /\ NData(queue'[x]) = NData(queue[x])
               /\ \A a \in Int : Numbered(queue[x], a) => Numbered(queue'[x], a)
    <3>1. CASE x = e
      BY <1>5, <1>6, <1>8, <3>1
    <3>2. CASE x # e
      <4>1. queue'[x] = queue[x] /\ fwd'[x] = fwd[x]
        BY <1>6, <1>7, <3>2, Names
      <4> QED
        BY <4>1
    <3> QED
      BY <3>1, <3>2
  <2> QED
    BY <1>1, <1>10, <2>1, <2>2, DataFrame DEF driverVars
<1> QED
  BY <1>9, <1>10, <1>11, <1>13, <1>14, <1>15 DEF DriverInv

-----------------------------------------------------------------------------
(* Data arrives.                                                           *)

\* While there is data in front of an element, it is behind what went into its lane
\* and behind every element before it.
LEMMA Behind ==
  ASSUME DriverInv, NEW l \in 1..Lanes, NEW i \in 1..Pipelines,
         NData(queue[Slot(l, i)]) >= 1
  PROVE  /\ Accepted(l, i) + 1 <= SentTo(l)
         /\ \A k \in 1..(i - 1) : Accepted(l, i) + 1 <= Accepted(l, k)
<1> USE PipelineAssumption
<1>1. /\ Passed(l, i - 1) = Accepted(l, i) + NData(queue[Slot(l, i)])
      /\ Accepted(l, i) \in Nat /\ Passed(l, i - 1) \in Nat
      /\ NData(queue[Slot(l, i)]) \in Nat /\ SentTo(l) \in Nat
  BY CountTypes DEF DriverInv, Hops
<1>2. Accepted(l, i) + 1 <= Passed(l, i - 1)
  BY <1>1
<1>3. CASE i = 1
  <2>1. Passed(l, i - 1) = SentTo(l)
    BY <1>3, SlotCounts
  <2> QED
    BY <1>2, <1>3, <2>1
<1>4. CASE i # 1
  <2>1. i - 1 \in 1..Pipelines /\ i - 1 < Pipelines
    BY <1>4
  <2>2. /\ Accepted(l, i - 1) = Passed(l, i - 1) + Len(todo[Slot(l, i - 1)])
        /\ Accepted(l, i - 1) \in Nat /\ Len(todo[Slot(l, i - 1)]) \in Nat
    BY <2>1, CountTypes DEF DriverInv, Hops
  <2>3. Accepted(l, i) + 1 <= Accepted(l, i - 1)
    BY <1>1, <1>2, <2>2
  <2>4. Accepted(l, i - 1) <= SentTo(l)
    BY <2>1 DEF DriverInv, Order
  <2>5. ASSUME NEW k \in 1..(i - 1)
        PROVE  Accepted(l, i) + 1 <= Accepted(l, k)
    <3>1. k \in 1..Pipelines /\ i - 1 \in k..Pipelines
      BY <2>1
    <3>2. Accepted(l, i - 1) <= Accepted(l, k) /\ Accepted(l, k) \in Nat
      BY <3>1, CountTypes DEF DriverInv, Order
    <3> QED
      BY <1>1, <2>2, <2>3, <3>2
  <2> QED
    BY <1>1, <2>2, <2>3, <2>4, <2>5
<1> QED
  BY <1>3, <1>4

\* The head of a channel is test data, so its element is configured.
LEMMA DataFacts ==
  ASSUME DriverInv, NEW e \in Elements, pc[e] = "recv", queue[e] # <<>>,
         ~is_config(Head(queue[e]))
  PROVE  /\ e \in Channels /\ e # Notifier /\ queue[e] \in Seq(Message)
         /\ DataBehind(queue[e]) /\ ~HasConfig(queue[e])
         /\ Head(queue[e]) \in Message
         /\ Open(e) /\ ConfigSent(e) /\ Configured(e) /\ fwd[e] \in Forwarders
         /\ todo[e] = <<>> /\ NData(queue[e]) >= 1
<1>1. /\ e \in Channels /\ e # Notifier /\ queue[e] \in Seq(Message)
      /\ DataBehind(queue[e]) /\ fwd[e] \in Forwarders
  BY Names DEF DriverInv, Types, Configuration
<1>2. ~HasConfig(queue[e]) /\ Head(queue[e]) \in Message
  BY <1>1, HeadTailProperties DEF HasConfig
<1>3. Open(e) /\ ConfigSent(e) /\ Configured(e)
  BY <1>2 DEF DriverInv, Configuration
<1>4. todo[e] = <<>>
  BY DEF DriverInv, Actions
<1>5. NData(queue[e]) >= 1
  BY <1>1, <1>2, TakeData
<1> QED
  BY <1>1, <1>2, <1>3, <1>4, <1>5

\* What an element has accepted counts from 0 on.
LEMMA CountsUp ==
  ASSUME DriverInv, NEW l \in 1..Lanes, NEW i \in 1..Pipelines
  PROVE  Count(l, i) \in Nat
<1> USE PipelineAssumption
<1>1. Done \in Nat /\ Done <= delivered[l] /\ delivered[l] = Accepted(l, Pipelines)
  BY SentFacts, SlotCounts DEF DriverInv, LaneNotices
<1>2. Pipelines \in i..Pipelines
  OBVIOUS
<1>3. Accepted(l, Pipelines) <= Accepted(l, i) /\ Accepted(l, i) \in Nat
  BY <1>2, CountTypes DEF DriverInv, Order
<1>4. delivered[l] \in Nat
  BY DEF DriverInv, Types
<1> QED
  BY <1>1, <1>3, <1>4 DEF Count

\* The number of a message is the one that its element expects, or a 0 where a run
\* starts; and the element goes on from there.
LEMMA InSequence ==
  ASSUME DriverInv, NEW e \in Elements, pc[e] = "recv", queue[e] # <<>>,
         ~is_config(Head(queue[e]))
  PROVE  /\ in_sequence(fwd[e], Head(queue[e]))
         /\ \A l \in 1..Lanes : \A i \in 1..(Pipelines - 1) : e = Slot(l, i) =>
              /\ Numbered(Tail(queue[e]), Count(l, i) + 1)
              /\ validate_sequence(fwd[e], Head(queue[e])).next_seq = Count(l, i) + 1
<1>1. /\ queue[e] \in Seq(Message) /\ DataBehind(queue[e]) /\ ~HasConfig(queue[e])
      /\ Head(queue[e]) \in Message /\ Configured(e) /\ fwd[e] \in Forwarders
  BY DataFacts
<1> DEFINE m == Head(queue[e])
           f == fwd[e]
<1>2. ASSUME NEW l \in 1..Lanes, NEW i \in 1..(Pipelines - 1), e = Slot(l, i)
      PROVE  /\ m.n = Count(l, i)
             /\ Numbered(Tail(queue[e]), Count(l, i) + 1)
             /\ f.senders # <<>>
             /\ Count(l, i) \in Nat
             /\ Count(l, i) > 0 => f.next_seq = Count(l, i)
  <2>1. i \in 1..Pipelines /\ i # Pipelines
    BY Slots
  <2>2. Count(l, i) \in Nat
    BY <2>1, CountsUp
  <2>3. Numbered(queue[e], Count(l, i)) /\ (Count(l, i) > 0 => f.next_seq = Count(l, i))
    BY <1>2 DEF DriverInv, Numbers
  <2>4. m.n = Count(l, i) /\ Numbered(Tail(queue[e]), Count(l, i) + 1)
    <3>1. Count(l, i) \in Int
      BY <2>2
    <3> QED
      BY <1>1, <2>3, <3>1, TakeData
  <2>5. f.senders # <<>>
    <3>1. f.senders = <<Slot(l, i + 1)>>
      BY <1>1, <1>2, <2>1, ConfiguredSlots
    <3> QED
      BY <3>1
  <2> QED
    BY <2>2, <2>3, <2>4, <2>5
<1>3. in_sequence(f, m)
  <2>1. CASE f.senders = <<>>
    BY <2>1 DEF in_sequence
  <2>2. CASE f.senders # <<>>
    <3>1. e # Concentrator
      BY <1>1, <2>2, ConfiguredSlots
    <3>2. PICK l \in 1..Lanes, i \in 1..Pipelines : e = Slot(l, i)
      BY <3>1, Slots
    <3>3. i # Pipelines
      BY <1>1, <2>2, <3>2, ConfiguredSlots
    <3>4. i \in 1..(Pipelines - 1)
      BY <3>3, PipelineAssumption
    <3>5. m.n = 0 \/ m.n = f.next_seq
      BY <1>2, <3>2, <3>4
    <3> QED
      BY <3>5 DEF in_sequence
  <2> QED
    BY <2>1, <2>2
<1>4. ASSUME NEW l \in 1..Lanes, NEW i \in 1..(Pipelines - 1), e = Slot(l, i)
      PROVE  validate_sequence(f, m).next_seq = Count(l, i) + 1
  <2>1. f.senders # <<>> /\ m.n = Count(l, i) /\ Count(l, i) \in Nat
        /\ (Count(l, i) > 0 => f.next_seq = Count(l, i))
    BY <1>2, <1>4
  <2>2. validate_sequence(f, m).next_seq = IF m.n = f.next_seq THEN f.next_seq + 1 ELSE 1
    BY <1>1, <2>1, ValidateSequence
  <2> HIDE DEF f, m
  <2> QED
    BY <2>1, <2>2
<1> QED
  BY <1>2, <1>3, <1>4

\* An element takes test data, to pass it on if it has somebody to pass it to.
LEMMA ReceiveDataFacts ==
  ASSUME DriverInv, NEW e \in Elements, NEW crew, e \in crew, ReceiveData(e, crew),
         UNCHANGED driverVars
  PROVE  /\ Types' /\ Control' /\ Lifetimes' /\ Configuration' /\ Actions'
         /\ queue'[e] = Tail(queue[e]) /\ \A c \in Channels : c # e => queue'[c] = queue[c]
         /\ fwd'[e] = validate_sequence(fwd[e], Head(queue[e]))
         /\ fwd'[e].received_count = fwd[e].received_count + 1
         /\ fwd'[e].send_count = fwd[e].send_count
         /\ \A x \in Elements : x # e => fwd'[x] = fwd[x]
         /\ pc'[e] = "action" /\ \A c \in Channels : c # e => pc'[c] = pc[c]
         /\ todo[e] = <<>> /\ todo'[e] = fwd[e].senders
         /\ \A x \in Elements : x # e => todo'[x] = todo[x]
         /\ fwd[e].senders = <<>> => todo' = todo
         /\ \A l \in 1..Lanes : delivered'[l] = delivered[l] + IF e = Last(l) THEN 1 ELSE 0
         /\ delivered' \in [1..Lanes -> Nat]
<1>1. /\ Types /\ pc[e] = "recv" /\ queue[e] # <<>> /\ ~is_config(Head(queue[e]))
      /\ queue' = [queue EXCEPT ![e] = Tail(queue[e])]
      /\ fwd' = [fwd EXCEPT ![e] = validate_sequence(fwd[e], Head(queue[e]))]
      /\ pc' = [pc EXCEPT ![e] = "action"]
      /\ todo' = [todo EXCEPT ![e] = fwd[e].senders]
      /\ delivered' = [l \in 1..Lanes |->
                         delivered[l] + IF e = <<l, Pipelines>> THEN 1 ELSE 0]
  BY DEF DriverInv, ReceiveData, Receiving, TakeHead
<1>2. /\ e \in Channels /\ e # Notifier /\ queue[e] \in Seq(Message)
      /\ DataBehind(queue[e]) /\ ~HasConfig(queue[e])
      /\ Head(queue[e]) \in Message
      /\ Open(e) /\ ConfigSent(e) /\ Configured(e) /\ fwd[e] \in Forwarders
      /\ todo[e] = <<>>
  BY <1>1, DataFacts
<1>3. /\ Tail(queue[e]) \in Seq(Message) /\ Len(Tail(queue[e])) = Len(queue[e]) - 1
      /\ DataBehind(Tail(queue[e])) /\ ~HasConfig(Tail(queue[e]))
  BY <1>1, <1>2, TakeData
<1>4. queue'[e] = Tail(queue[e]) /\ \A c \in Channels : c # e => queue'[c] = queue[c]
  BY <1>1, <1>2 DEF Types
<1>5. /\ fwd'[e] = validate_sequence(fwd[e], Head(queue[e]))
      /\ \A x \in Elements : x # e => fwd'[x] = fwd[x]
  BY <1>1 DEF Types
<1>6. /\ fwd'[e] \in Forwarders /\ fwd'[e].received_count = fwd[e].received_count + 1
      /\ fwd'[e].send_count = fwd[e].send_count
      /\ fwd'[e].senders = fwd[e].senders
      /\ fwd'[e].notify_sender = fwd[e].notify_sender
      /\ fwd'[e].notify_count = fwd[e].notify_count
  BY <1>2, <1>5, ValidateSequence
<1>7. pc'[e] = "action" /\ \A c \in Channels : c # e => pc'[c] = pc[c]
  BY <1>1, <1>2 DEF Types
<1>8. todo'[e] = fwd[e].senders /\ \A x \in Elements : x # e => todo'[x] = todo[x]
  BY <1>1 DEF Types
<1>9. fwd[e].senders = <<>> => todo' = todo
  BY <1>1, <1>2 DEF Types
<1>10. delivered' \in [1..Lanes -> Nat]
  BY <1>1 DEF Types
<1>11. \A l \in 1..Lanes : delivered'[l] = delivered[l] + IF e = Last(l) THEN 1 ELSE 0
  BY <1>1 DEF Last, Slot
<1>12. Types'
  <2>1. queue' \in [Channels -> Seq(Message)] /\ fwd' \in [Elements -> Forwarders]
    BY <1>1, <1>3, <1>5, <1>6 DEF Types
  <2>2. pc' \in [Channels -> {"unborn", "recv", "action", "exited", "panicked"}]
    BY <1>1 DEF Types
  <2>3. todo' \in [Elements -> Seq(LaneElements)]
    BY <1>1, <1>2 DEF Types, Forwarders
  <2>4. Len(queue[e]) \in Nat /\ Cap \in Nat
    BY <1>2, LenProperties, PipelineAssumption
  <2>5. \A c \in Channels : Len(queue'[c]) <= Cap
    BY <1>1, <1>2, <1>3, <1>4, <2>4 DEF Types
  <2> QED
    BY <1>1, <1>10, <2>1, <2>2, <2>3, <2>5 DEF Types, driverVars
<1>13. Control' /\ \A x : (ConfigSent(x)' <=> ConfigSent(x)) /\ (Created(x)' <=> Created(x))
  BY DEF DriverInv, driverVars, Control, ConfigSent, Created
<1>14. Lifetimes'
  <2> SUFFICES ASSUME NEW x \in Elements
               PROVE  /\ pc'[x] # "panicked"
                      /\ ~Created(x) => pc'[x] = "unborn"
                      /\ phase \notin {"teardown", "torndown"} => pc'[x] # "exited"
    BY <1>2, <1>7, <1>13, Names DEF DriverInv, Lifetimes, driverVars
  <2>1. /\ pc[x] # "panicked"
        /\ ~Created(x) => pc[x] = "unborn"
        /\ phase \notin {"teardown", "torndown"} => pc[x] # "exited"
    BY DEF DriverInv, Lifetimes
  <2> QED
    BY <1>1, <1>7, <2>1, Names
<1>15. \A x \in Elements : Open(x)' <=> Open(x)
  BY <1>1, <1>7, Names DEF Open
<1>16. Configuration'
  <2>1. queue'[Notifier] = queue[Notifier]
    BY <1>2, <1>4, Names
  <2>2. DataBehind(queue'[Notifier]) /\ ~HasConfig(queue'[Notifier])
    BY <2>1 DEF DriverInv, Configuration
  <2>3. \A x \in Elements : x # e => queue'[x] = queue[x] /\ fwd'[x] = fwd[x]
    BY <1>4, <1>5, Names
  <2> QED
    BY <1>2, <1>3, <1>4, <1>6, <1>13, <1>15, <2>2, <2>3, ConfigKept
<1>17. Actions'
  <2> SUFFICES ASSUME NEW x \in Elements
               PROVE  /\ todo'[x] # <<>> => pc'[x] = "action" /\ todo'[x] = fwd'[x].senders
                      /\ pc'[x] = "action" => /\ ConfigSent(x)
                                              /\ ~HasConfig(queue'[x])
                                              /\ fwd'[x].received_count >= 1
    BY <1>13 DEF Actions
  <2>1. CASE x = e
    <3>1. fwd[e].received_count \in Nat
      BY <1>2 DEF Forwarders
    <3> QED
      BY <1>2, <1>3, <1>4, <1>6, <1>7, <1>8, <2>1, <3>1
  <2>2. CASE x # e
    <3>1. pc'[x] = pc[x] /\ fwd'[x] = fwd[x] /\ todo'[x] = todo[x] /\ queue'[x] = queue[x]
      BY <1>4, <1>5, <1>7, <1>8, <2>2, Names
    <3> QED
      BY <3>1 DEF DriverInv, Actions
  <2> QED
    BY <2>1, <2>2
<1> QED
  BY <1>2, <1>4, <1>5, <1>6, <1>7, <1>8, <1>9, <1>10, <1>11, <1>12, <1>13, <1>14, <1>16, <1>17

\* The concentrator counts a lane.
LEMMA CountLaneInv ==
  ASSUME DriverInv, NEW crew, Concentrator \in crew, ReceiveData(Concentrator, crew),
         UNCHANGED driverVars
  PROVE  DriverInv'
<1>1. /\ pc[Concentrator] = "recv" /\ queue[Concentrator] # <<>>
      /\ ~is_config(Head(queue[Concentrator]))
  BY DEF ReceiveData, Receiving
<1>2. Concentrator \in Elements /\ \A l \in 1..Lanes : Concentrator # Last(l)
  BY Names, Slots
<1>3. /\ Types' /\ Control' /\ Lifetimes' /\ Configuration' /\ Actions'
      /\ queue'[Concentrator] = Tail(queue[Concentrator])
      /\ \A c \in Channels : c # Concentrator => queue'[c] = queue[c]
      /\ fwd'[Concentrator].received_count = fwd[Concentrator].received_count + 1
      /\ \A x \in Elements : x # Concentrator => fwd'[x] = fwd[x]
      /\ pc'[Concentrator] = "action"
      /\ \A c \in Channels : c # Concentrator => pc'[c] = pc[c]
      /\ fwd[Concentrator].senders = <<>> => todo' = todo
      /\ \A l \in 1..Lanes : delivered'[l] = delivered[l] + IF Concentrator = Last(l) THEN 1 ELSE 0
      /\ delivered' \in [1..Lanes -> Nat]
  BY <1>2, ReceiveDataFacts
<1>4. todo' = todo
  BY <1>1, <1>2, <1>3, DataFacts, ConfiguredSlots
<1>5. delivered' = delivered
  <2>1. delivered \in [1..Lanes -> Nat]
    BY DEF DriverInv, Types
  <2>2. \A l \in 1..Lanes : delivered'[l] = delivered[l]
    BY <1>2, <1>3, <2>1
  <2>3. delivered' \in [1..Lanes -> Nat]
    BY <1>3
  <2>4. /\ delivered = [l \in 1..Lanes |-> delivered[l]]
        /\ delivered' = [l \in 1..Lanes |-> delivered'[l]]
    BY <2>1, <2>3
  <2> QED
    BY <2>2, <2>4, Zenon
<1>6. Done' = Done /\ \A l \in 1..Lanes : SentTo(l)' = SentTo(l)
  BY <1>5, StandingSent
<1>7. ASSUME NEW l \in 1..Lanes, NEW i \in 1..Pipelines
      PROVE  fwd'[Slot(l, i)] = fwd[Slot(l, i)] /\ queue'[Slot(l, i)] = queue[Slot(l, i)]
  BY <1>3, Slots
<1>8. Hops' /\ Order' /\ Numbers'
  BY <1>4, <1>5, <1>6, <1>7, LaneFrame
<1>9. \A l \in 1..Lanes : fwd'[Last(l)] = fwd[Last(l)] /\ pc'[Last(l)] = pc[Last(l)]
  <2>1. \A l \in 1..Lanes : Last(l) \in Elements /\ Last(l) \in Channels
    BY Slots, Names
  <2> QED
    BY <1>2, <1>3, <2>1
<1>10. \A l \in 1..Lanes : Notified(l)' = Notified(l)
  BY <1>5, <1>6, <1>9 DEF Notified, Last
<1>11. LaneNotices' /\ NotifiedLanes' = NotifiedLanes
  BY <1>5, <1>6, <1>9, <1>10 DEF DriverInv, LaneNotices, NotifiedLanes, Last
<1>12. ConcentratorNotices'
  <2>1. /\ queue[Concentrator] \in Seq(Message) /\ DataBehind(queue[Concentrator])
        /\ ~HasConfig(queue[Concentrator]) /\ fwd[Concentrator] \in Forwarders
    BY <1>1, <1>2, DataFacts
  <2>2. NData(queue[Concentrator]) >= 1 /\ NData(queue[Concentrator]) \in Nat
        /\ NData(queue'[Concentrator]) = NData(queue[Concentrator]) - 1
    BY <1>1, <1>3, <2>1, TakeData, DataCount
  <2>3. fwd[Concentrator].received_count \in Nat
    BY <2>1 DEF Forwarders
  <2>4. /\ queue[Notifier] = <<>>
        /\ fwd[Concentrator].received_count + NData(queue[Concentrator])
             = Cardinality(NotifiedLanes)
    BY <2>2 DEF DriverInv, ConcentratorNotices
  <2>5. queue'[Notifier] = <<>>
    BY <1>3, <2>4, Names
  <2> QED
    BY <1>3, <1>11, <2>2, <2>3, <2>4, <2>5 DEF ConcentratorNotices
<1> QED
  BY <1>3, <1>8, <1>11, <1>12 DEF DriverInv

\* A message goes one position down its lane.
LEMMA AcceptInv ==
  ASSUME DriverInv, NEW l \in 1..Lanes, NEW i \in 1..Pipelines, NEW crew,
         Slot(l, i) \in crew, ReceiveData(Slot(l, i), crew), UNCHANGED driverVars
  PROVE  DriverInv'
<1> USE PipelineAssumption
<1> DEFINE e == Slot(l, i)
<1>1. /\ e \in Elements /\ e \in Channels /\ e # Notifier /\ e # Concentrator
      /\ \A k \in 1..Lanes : \A j \in 1..Pipelines : Slot(k, j) = e <=> k = l /\ j = i
      /\ \A k \in 1..Lanes : Last(k) = e <=> k = l /\ i = Pipelines
  BY Slots DEF Last
<1> HIDE DEF e
<1>2. /\ pc[e] = "recv" /\ queue[e] # <<>> /\ ~is_config(Head(queue[e]))
      /\ e \in crew /\ ReceiveData(e, crew)
  BY DEF ReceiveData, Receiving, e
<1>3. /\ Types' /\ Control' /\ Lifetimes' /\ Configuration' /\ Actions'
      /\ queue'[e] = Tail(queue[e]) /\ \A c \in Channels : c # e => queue'[c] = queue[c]
      /\ fwd'[e] = validate_sequence(fwd[e], Head(queue[e]))
      /\ fwd'[e].received_count = fwd[e].received_count + 1
      /\ fwd'[e].send_count = fwd[e].send_count
      /\ \A x \in Elements : x # e => fwd'[x] = fwd[x]
      /\ pc'[e] = "action" /\ \A c \in Channels : c # e => pc'[c] = pc[c]
      /\ todo[e] = <<>> /\ todo'[e] = fwd[e].senders
      /\ \A x \in Elements : x # e => todo'[x] = todo[x]
      /\ \A k \in 1..Lanes : delivered'[k] = delivered[k] + IF e = Last(k) THEN 1 ELSE 0
  BY <1>1, <1>2, ReceiveDataFacts
<1>4. /\ queue[e] \in Seq(Message) /\ DataBehind(queue[e]) /\ ~HasConfig(queue[e])
      /\ Configured(e) /\ fwd[e] \in Forwarders
  BY <1>1, <1>2, DataFacts
<1>5. NData(queue[e]) >= 1 /\ NData(queue'[e]) = NData(queue[e]) - 1
  BY <1>2, <1>3, <1>4, TakeData
<1>6. Done' = Done /\ \A k \in 1..Lanes : SentTo(k)' = SentTo(k)
  BY DEF Done, SentTo, driverVars
<1>7. ASSUME NEW k \in 1..Lanes, NEW j \in 1..Pipelines
      PROVE  Accepted(k, j)' = Accepted(k, j) + IF k = l /\ j = i THEN 1 ELSE 0
  <2>1. Accepted(k, j) \in Nat /\ Slot(k, j) \in Elements
    BY CountTypes, Slots
  <2>2. CASE j = Pipelines
    <3>1. Accepted(k, j)' = delivered'[k] /\ Accepted(k, j) = delivered[k]
      BY <2>2, SlotCounts
    <3>2. delivered'[k] = delivered[k] + IF e = Last(k) THEN 1 ELSE 0
      BY <1>3
    <3>3. e = Last(k) <=> k = l /\ j = i
      BY <1>1, <2>2
    <3> QED
      BY <3>1, <3>2, <3>3
  <2>3. CASE j # Pipelines
    <3>1. /\ Accepted(k, j)' = fwd'[Slot(k, j)].received_count
          /\ Accepted(k, j) = fwd[Slot(k, j)].received_count
      BY <2>3, SlotCounts
    <3>2. CASE k = l /\ j = i
      BY <1>1, <1>3, <3>1, <3>2
    <3>3. CASE ~(k = l /\ j = i)
      <4>1. fwd'[Slot(k, j)] = fwd[Slot(k, j)]
        BY <1>1, <1>3, <2>1, <3>3
      <4> QED
        BY <2>1, <3>1, <3>3, <4>1
    <3> QED
      BY <3>2, <3>3
  <2> QED
    BY <2>2, <2>3
<1>8. ASSUME NEW k \in 1..Lanes, NEW j \in 1..Pipelines
      PROVE  Passed(k, j)' = Passed(k, j)
  <2>1. fwd'[Slot(k, j)].send_count = fwd[Slot(k, j)].send_count
    BY <1>1, <1>3, Slots
  <2>2. j # 0
    OBVIOUS
  <2> QED
    BY <2>1, <2>2, SlotCounts
<1>9. ASSUME NEW k \in 1..Lanes, NEW j \in 1..Pipelines
      PROVE  Passed(k, j - 1)' = Passed(k, j - 1)
  <2>1. CASE j = 1
    BY <1>6, <2>1, SlotCounts
  <2>2. CASE j # 1
    <3>1. j - 1 \in 1..Pipelines
      BY <2>2
    <3> QED
      BY <1>8, <3>1
  <2> QED
    BY <2>1, <2>2
<1>10. ASSUME NEW k \in 1..Lanes, NEW j \in 1..Pipelines
       PROVE  /\ k = l /\ j = i => Slot(k, j) = e
              /\ ~(k = l /\ j = i) => /\ queue'[Slot(k, j)] = queue[Slot(k, j)]
                                      /\ todo'[Slot(k, j)] = todo[Slot(k, j)]
                                      /\ fwd'[Slot(k, j)] = fwd[Slot(k, j)]
                                      /\ pc'[Slot(k, j)] = pc[Slot(k, j)]
  <2>1. Slot(k, j) \in Elements /\ Slot(k, j) \in Channels
    BY Slots
  <2> QED
    BY <1>1, <1>3, <2>1
<1>11. Hops'
  <2> SUFFICES ASSUME NEW k \in 1..Lanes, NEW j \in 1..Pipelines
               PROVE  /\ Passed(k, j - 1)' = Accepted(k, j)' + NData(queue'[Slot(k, j)])
                      /\ j < Pipelines => Accepted(k, j)' = Passed(k, j)' + Len(todo'[Slot(k, j)])
    BY DEF Hops
  <2>1. /\ Passed(k, j - 1) = Accepted(k, j) + NData(queue[Slot(k, j)])
        /\ j < Pipelines => Accepted(k, j) = Passed(k, j) + Len(todo[Slot(k, j)])
    BY DEF DriverInv, Hops
  <2>2. /\ Accepted(k, j) \in Nat /\ Passed(k, j) \in Nat /\ Passed(k, j - 1) \in Nat
        /\ NData(queue[Slot(k, j)]) \in Nat /\ Len(todo[Slot(k, j)]) \in Nat
    BY CountTypes
  <2>3. CASE k = l /\ j = i
    <3>1. Slot(k, j) = e
      BY <1>10, <2>3
    <3>2. j < Pipelines => Len(todo'[e]) = 1 /\ Len(todo[e]) = 0
      <4> SUFFICES ASSUME j < Pipelines PROVE Len(todo'[e]) = 1 /\ Len(todo[e]) = 0
        OBVIOUS
      <4>1. fwd[e].senders = <<Slot(l, i + 1)>>
        BY <1>4, <2>3, ConfiguredSlots DEF e
      <4> QED
        BY <1>3, <4>1, EmptySeq
    <3>3. Accepted(k, j)' = Accepted(k, j) + 1 /\ Passed(k, j)' = Passed(k, j)
      BY <1>7, <1>8, <2>3
    <3>4. Passed(k, j - 1)' = Passed(k, j - 1)
      BY <1>9
    <3>5. NData(queue'[e]) = NData(queue[e]) - 1
      BY <1>5
    <3>6. Passed(k, j - 1)' = Accepted(k, j)' + NData(queue'[Slot(k, j)])
      BY <2>1, <2>2, <3>1, <3>3, <3>4, <3>5
    <3>7. j < Pipelines => Accepted(k, j)' = Passed(k, j)' + Len(todo'[Slot(k, j)])
      <4> SUFFICES ASSUME j < Pipelines
                   PROVE  Accepted(k, j)' = Passed(k, j)' + Len(todo'[Slot(k, j)])
        OBVIOUS
      <4>1. Len(todo'[Slot(k, j)]) = 1 /\ Len(todo[Slot(k, j)]) = 0
        BY <3>1, <3>2
      <4> QED
        BY <2>1, <2>2, <3>3, <4>1
    <3> QED
      BY <3>6, <3>7
  <2>4. CASE ~(k = l /\ j = i)
    <3>1. Accepted(k, j)' = Accepted(k, j)
      BY <1>7, <2>2, <2>4
    <3> QED
      BY <1>8, <1>9, <1>10, <2>1, <2>4, <3>1
  <2> QED
    BY <2>3, <2>4
<1>12. /\ Accepted(l, i) + 1 <= SentTo(l)
       /\ \A k \in 1..(i - 1) : Accepted(l, i) + 1 <= Accepted(l, k)
  BY <1>5, Behind DEF e
<1>13. Order'
  <2> SUFFICES ASSUME NEW k \in 1..Lanes, NEW j \in 1..Pipelines, NEW m \in j..Pipelines
               PROVE  Accepted(k, j)' <= SentTo(k)' /\ Accepted(k, m)' <= Accepted(k, j)'
    BY DEF Order
  <2>1. m \in 1..Pipelines
    OBVIOUS
  <2>2. /\ Accepted(k, j) <= SentTo(k) /\ Accepted(k, m) <= Accepted(k, j)
        /\ Accepted(k, j) \in Nat /\ Accepted(k, m) \in Nat /\ SentTo(k) \in Nat
    BY <2>1, CountTypes DEF DriverInv, Order
  <2>3. /\ Accepted(k, j)' = Accepted(k, j) + IF k = l /\ j = i THEN 1 ELSE 0
        /\ Accepted(k, m)' = Accepted(k, m) + IF k = l /\ m = i THEN 1 ELSE 0
    BY <1>7, <2>1
  <2>4. Accepted(k, j)' <= SentTo(k)'
    BY <1>6, <1>12, <2>2, <2>3
  <2>5. CASE k = l /\ m = i /\ j # i
    <3>1. j \in 1..(i - 1)
      BY <2>1, <2>5
    <3>2. Accepted(k, m) + 1 <= Accepted(k, j)
      BY <1>12, <2>5, <3>1
    <3> QED
      BY <2>2, <2>3, <2>4, <2>5, <3>2
  <2>6. CASE ~(k = l /\ m = i /\ j # i)
    BY <2>2, <2>3, <2>4, <2>6
  <2> QED
    BY <2>5, <2>6
<1>14. Numbers'
  <2> SUFFICES ASSUME NEW k \in 1..Lanes, NEW j \in 1..(Pipelines - 1)
               PROVE  /\ Numbered(queue'[Slot(k, j)], Count(k, j)')
                      /\ Count(k, j)' > 0 => fwd'[Slot(k, j)].next_seq = Count(k, j)'
    BY DEF Numbers
  <2>1. j \in 1..Pipelines
    OBVIOUS
  <2>2. Accepted(k, j) \in Nat /\ Done \in Nat
    BY <2>1, CountTypes, SentFacts DEF DriverInv
  <2>3. Count(k, j)' = Count(k, j) + IF k = l /\ j = i THEN 1 ELSE 0
    BY <1>6, <1>7, <2>1, <2>2 DEF Count
  <2>4. CASE k = l /\ j = i
    <3>1. Slot(k, j) = e
      BY <1>10, <2>1, <2>4
    <3>2. /\ Numbered(Tail(queue[e]), Count(k, j) + 1)
          /\ validate_sequence(fwd[e], Head(queue[e])).next_seq = Count(k, j) + 1
      BY <1>1, <1>2, <3>1, InSequence
    <3> QED
      BY <1>3, <2>3, <2>4, <3>1, <3>2
  <2>5. CASE ~(k = l /\ j = i)
    <3>1. Count(k, j)' = Count(k, j)
      BY <2>2, <2>3, <2>5 DEF Count
    <3> QED
      BY <1>10, <2>1, <2>5, <3>1 DEF DriverInv, Numbers
  <2> QED
    BY <2>4, <2>5
<1>15. ASSUME NEW k \in 1..Lanes
       PROVE  /\ Notified(k)' <=> Notified(k)
              /\ Done <= delivered'[k]
              /\ \/ Notified(k)'
                 \/ /\ fwd'[Last(k)].received_count = delivered'[k] - Done
                    /\ delivered'[k] = Done + Messages => pc'[Last(k)] = "action"
  <2>1. /\ Done \in Nat /\ delivered[k] \in Nat /\ Done <= delivered[k]
        /\ InRun(k) \in 0..Messages /\ SentTo(k) = Done + InRun(k)
        /\ \/ Notified(k)
           \/ /\ fwd[Last(k)].received_count = delivered[k] - Done
              /\ delivered[k] = Done + Messages => pc[Last(k)] = "action"
    BY SentFacts DEF DriverInv, Types, LaneNotices
  <2>2. CASE k = l /\ i = Pipelines
    <3>1. Last(k) = e /\ delivered'[k] = delivered[k] + 1
      BY <1>1, <1>3, <2>2
    <3>2. Accepted(l, i) = delivered[k]
      BY <2>2, SlotCounts
    <3>3. delivered[k] + 1 <= Done + Messages
      BY <1>12, <2>1, <2>2, <3>2
    <3>4. ~Notified(k)
      BY <2>1, <3>3 DEF Notified
    <3>5. fwd'[e].received_count = (delivered[k] - Done) + 1
      BY <1>3, <2>1, <3>1, <3>4
    <3>6. fwd'[e].received_count = delivered'[k] - Done /\ fwd'[e].received_count # 0
      BY <2>1, <3>1, <3>5
    <3>7. ~Notified(k)'
      BY <3>1, <3>6 DEF Notified, Last
    <3>8. Done <= delivered'[k]
      BY <2>1, <3>1
    <3> QED
      BY <1>3, <3>1, <3>4, <3>6, <3>7, <3>8
  <2>3. CASE ~(k = l /\ i = Pipelines)
    <3>1. e # Last(k)
      BY <1>1, <2>3
    <3>2. delivered'[k] = delivered[k]
      BY <1>3, <2>1, <3>1
    <3>3. fwd'[Last(k)] = fwd[Last(k)] /\ pc'[Last(k)] = pc[Last(k)]
      BY <1>3, <3>1, Slots, Names
    <3>4. Notified(k)' <=> Notified(k)
      BY <1>6, <3>2, <3>3 DEF Notified, Last
    <3> QED
      BY <2>1, <3>2, <3>3, <3>4
  <2> QED
    BY <2>2, <2>3
<1>16. LaneNotices' /\ NotifiedLanes' = NotifiedLanes
  BY <1>6, <1>15 DEF LaneNotices, NotifiedLanes, Last
<1>17. ConcentratorNotices'
  <2>1. /\ queue'[Notifier] = queue[Notifier] /\ queue'[Concentrator] = queue[Concentrator]
        /\ fwd'[Concentrator] = fwd[Concentrator] /\ pc'[Concentrator] = pc[Concentrator]
    BY <1>1, <1>3, Names
  <2> QED
    BY <1>16, <2>1 DEF DriverInv, ConcentratorNotices, driverVars
<1> QED
  BY <1>3, <1>11, <1>13, <1>14, <1>16, <1>17 DEF DriverInv

\* validate_sequence never answers Err.
LEMMA SequenceErrorNever ==
  ASSUME DriverInv, NEW e \in Elements, NEW crew, e \in crew
  PROVE  ~SequenceError(e, crew)
BY InSequence DEF SequenceError, Receiving

-----------------------------------------------------------------------------
(* The end of an element.                                                  *)

\* Outside a run nothing is under way, in the lanes or between them and the driver.
LEMMA Drained ==
  ASSUME DriverInv, phase \notin {"sending", "waiting"}
  PROVE  /\ \A e \in Elements : NData(queue[e]) = 0 /\ todo[e] = <<>>
         /\ queue[Notifier] = <<>>
         /\ fwd[Concentrator].received_count = 0
         /\ \A l \in 1..Lanes : fwd[Last(l)].received_count = 0
<1> USE PipelineAssumption
<1>1. \A l \in 1..Lanes : delivered[l] = Done /\ SentTo(l) = Done /\ Done \in Nat
  BY Quiet
<1>2. NotifiedLanes = {} /\ \A l \in 1..Lanes : ~Notified(l)
  <2>1. \A l \in 1..Lanes : delivered[l] # Done + Messages
    BY <1>1
  <2> QED
    BY <2>1 DEF NotifiedLanes, Notified
<1>3. \A l \in 1..Lanes : fwd[Last(l)].received_count = 0
  BY <1>1, <1>2 DEF DriverInv, LaneNotices
<1>4. /\ queue[Notifier] = <<>>
      /\ fwd[Concentrator].received_count + NData(queue[Concentrator])
           = Cardinality(NotifiedLanes)
  BY DEF DriverInv, ConcentratorNotices
<1>5. fwd[Concentrator].received_count \in Nat /\ NData(queue[Concentrator]) \in Nat
  BY DataCount, Names DEF DriverInv, Types, Forwarders, Configuration
<1>6. fwd[Concentrator].received_count = 0 /\ NData(queue[Concentrator]) = 0
  BY <1>2, <1>4, <1>5, FS_EmptySet
<1>7. ASSUME NEW e \in Elements
      PROVE  NData(queue[e]) = 0 /\ todo[e] = <<>>
  <2>1. todo[e] # <<>> => Configured(e) /\ todo[e] = fwd[e].senders
    BY ActionFacts DEF DriverInv, Actions
  <2>2. CASE e = Concentrator
    BY <1>6, <2>1, <2>2, ConfiguredSlots
  <2>3. CASE e # Concentrator
    <3>1. PICK l \in 1..Lanes, i \in 1..Pipelines : e = Slot(l, i)
      BY <2>3, Slots
    <3>2. NData(queue[e]) = 0 /\ (i < Pipelines => Len(todo[e]) = 0)
      BY <1>1, <3>1, LaneDrained
    <3>3. i < Pipelines => todo[e] = <<>>
      BY <3>2, EmptySeq DEF DriverInv, Types
    <3>4. i = Pipelines => todo[e] = <<>>
      BY <2>1, <3>1, ConfiguredSlots
    <3> QED
      BY <3>2, <3>3, <3>4
  <2> QED
    BY <2>2, <2>3
<1> QED
  BY <1>3, <1>4, <1>6, <1>7

\* As long as the heads are held, somebody can send to every element there is.
LEMMA NoneEndsEarly ==
  ASSUME DriverInv, NEW e \in Elements, pc[e] = "recv", Disconnected(e, Held)
  PROVE  phase \in {"teardown", "torndown"}
<1> USE PipelineAssumption
<1> SUFFICES ASSUME phase \notin {"teardown", "torndown"} PROVE FALSE
  OBVIOUS
<1>1. Types /\ Control /\ Created(e) /\ e \notin Held
  BY DEF DriverInv, Lifetimes, Disconnected
<1>2. \A x \in Elements : Open(x)
  BY Names DEF DriverInv, Lifetimes, Open
<1>3. \A x \in Elements : ConfigSent(x) => ConfigOf(x).to # e
  BY <1>2, Connected
<1>4. CASE e = Concentrator
  <2>1. phase # "setup"
    BY <1>1, <1>4 DEF Held
  <2>2. 1 \in 1..Lanes
    OBVIOUS
  <2>3. Last(1) \in Elements /\ Last(1) # Concentrator /\ Last(1)[2] = Pipelines
    BY <2>2, Slots, Names DEF Last
  <2>4. ConfigOf(Last(1)).to = Concentrator
    BY <2>3 DEF ConfigOf, Notify
  <2> QED
    BY <1>3, <1>4, <2>1, <2>3, <2>4, AllSent
<1>5. CASE e # Concentrator
  <2>1. PICK l \in 1..Lanes, i \in 1..Pipelines : e = Slot(l, i)
    BY <1>5, Slots
  <2>2. phase = "setup" => l < lane \/ (l = lane /\ i < id)
    BY <1>1, <1>5, <2>1, Slots DEF Created
  <2>3. CASE i = 1
    <3>1. e \in Heads
      <4>1. CASE phase = "setup"
        BY <1>1, <2>1, <2>2, <2>3, <4>1 DEF Heads, Slot, Types
      <4>2. CASE phase # "setup"
        BY <1>1, <2>1, <2>3, <4>2 DEF Heads, Slot, Types
      <4> QED
        BY <4>1, <4>2
    <3> QED
      BY <1>1, <3>1 DEF Held
  <2>4. CASE i # 1
    <3> DEFINE d == Slot(l, i - 1)
    <3>1. i - 1 \in 1..Pipelines /\ i - 1 # Pipelines /\ (i - 1) + 1 = i
      BY <2>4
    <3>2. /\ d \in Elements /\ d # Concentrator /\ d[1] = l /\ d[2] = i - 1
          /\ After(d) = e
      <4>1. d \in Elements /\ d # Concentrator
        BY <3>1, Slots
      <4>2. d[1] = l /\ d[2] = i - 1 /\ After(d) = Slot(l, (i - 1) + 1)
        BY Slots
      <4> QED
        BY <2>1, <3>1, <4>1, <4>2
    <3> HIDE DEF d
    <3>3. ConfigSent(d)
      BY <1>1, <2>2, <3>1, <3>2 DEF ConfigSent, Types, Control
    <3>4. ConfigOf(d).to = e
      BY <3>1, <3>2 DEF ConfigOf, AddSender
    <3> QED
      BY <1>3, <3>2, <3>3, <3>4
  <2> QED
    BY <2>3, <2>4
<1> QED
  BY <1>4, <1>5

\* The elements of a crew go, and nothing goes with them.
LEMMA ExitInv ==
  ASSUME DriverInv, NEW crew, crew \subseteq Elements, NEW e \in crew,
         Exit(e, crew, Held), UNCHANGED driverVars
  PROVE  DriverInv'
<1>1. /\ Types /\ \A x \in crew : pc[x] = "recv"
      /\ pc' = [c \in Channels |-> IF c \in crew THEN "exited" ELSE pc[c]]
      /\ queue' = [c \in Channels |-> IF c \in crew THEN <<>> ELSE queue[c]]
      /\ UNCHANGED <<fwd, todo, delivered>>
  BY DEF DriverInv, Exit, Close
<1>2. phase \in {"teardown", "torndown"}
  BY NoneEndsEarly DEF Exit
<1>3. \A x \in Elements : NData(queue[x]) = 0
  BY <1>2, Drained
<1>4. ASSUME NEW x \in Elements
      PROVE  /\ pc'[x] = IF x \in crew THEN "exited" ELSE pc[x]
             /\ queue'[x] = IF x \in crew THEN <<>> ELSE queue[x]
             /\ Open(x)' <=> Open(x) /\ x \notin crew
             /\ x \in crew => pc[x] = "recv"
  <2>1. x \in Channels
    BY Names
  <2>2. pc'[x] = IF x \in crew THEN "exited" ELSE pc[x]
    BY <1>1, <2>1
  <2>3. queue'[x] = IF x \in crew THEN <<>> ELSE queue[x]
    BY <1>1, <2>1
  <2>4. x \in crew => pc[x] = "recv"
    BY <1>1
  <2>5. Open(x)' <=> Open(x) /\ x \notin crew
    BY <2>1, <2>2 DEF Open
  <2> QED
    BY <2>2, <2>3, <2>4, <2>5
<1>5. pc'[Notifier] = pc[Notifier] /\ queue'[Notifier] = queue[Notifier]
  BY <1>1, Names
<1>6. /\ Done' = Done
      /\ \A l \in 1..Lanes : SentTo(l)' = SentTo(l)
      /\ \A x : ConfigSent(x)' <=> ConfigSent(x)
      /\ Control'
  BY <1>1, StandingSent DEF DriverInv
<1>7. Types'
  <2>1. pc' \in [Channels -> {"unborn", "recv", "action", "exited", "panicked"}]
    BY <1>1 DEF Types
  <2>2. queue' \in [Channels -> Seq(Message)]
    <3>1. <<>> \in Seq(Message)
      BY EmptySeq
    <3> QED
      BY <1>1, <3>1 DEF Types
  <2>3. \A c \in Channels : Len(queue'[c]) <= Cap
    <3>1. Len(<<>>) <= Cap
      BY PipelineAssumption, EmptySeq
    <3> QED
      BY <1>1, <3>1 DEF Types
  <2> QED
    BY <1>1, <2>1, <2>2, <2>3 DEF Types, driverVars
<1>8. Lifetimes'
  BY <1>2, <1>4, <1>5 DEF DriverInv, Lifetimes, Created, driverVars
<1>9. Configuration'
  <2> SUFFICES ASSUME NEW x \in Elements
               PROVE  /\ ~Open(x)' => queue'[x] = <<>>
                      /\ Open(x)' /\ ~ConfigSent(x) => queue'[x] = <<>> /\ fwd[x] = new
                      /\ Open(x)' /\ ConfigSent(x) =>
                           IF HasConfig(queue'[x])
                             THEN queue'[x][1] = ConfigOf(x) /\ fwd[x] = new
                             ELSE Configured(x)
                      /\ DataBehind(queue'[x])
    <3>1. DataBehind(queue'[Notifier]) /\ ~HasConfig(queue'[Notifier])
      BY <1>5 DEF DriverInv, Configuration
    <3>2. \A x : Configured(x)' = Configured(x) /\ ConfigOf(x)' = ConfigOf(x)
      BY <1>1 DEF Configured, ConfigOf, After
    <3> QED
      BY <1>1, <1>6, <3>1, <3>2 DEF Configuration
  <2>1. CASE x \in crew
    BY <1>4, <2>1, EmptyQueue
  <2>2. CASE x \notin crew
    BY <1>4, <2>2 DEF DriverInv, Configuration
  <2> QED
    BY <2>1, <2>2
<1>10. Actions'
  <2> SUFFICES ASSUME NEW x \in Elements
               PROVE  /\ todo[x] # <<>> => pc'[x] = "action" /\ todo[x] = fwd[x].senders
                      /\ pc'[x] = "action" => /\ ConfigSent(x)
                                              /\ ~HasConfig(queue'[x])
                                              /\ fwd[x].received_count >= 1
    BY <1>1, <1>6 DEF Actions
  <2>1. /\ todo[x] # <<>> => pc[x] = "action" /\ todo[x] = fwd[x].senders
        /\ pc[x] = "action" => /\ ConfigSent(x)
                               /\ ~HasConfig(queue[x])
                               /\ fwd[x].received_count >= 1
    BY DEF DriverInv, Actions
  <2> QED
    BY <1>4, <2>1
<1>11. Hops' /\ Order' /\ Numbers' /\ LaneNotices' /\ ConcentratorNotices'
  <2>1. ASSUME NEW x \in Elements
        PROVE  /\ pc[x] = "action" => pc'[x] = "action"
               /\ NData(queue'[x]) = NData(queue[x])
               /\ \A a \in Int : Numbered(queue[x], a) => Numbered(queue'[x], a)
    <3>1. CASE x \in crew
      BY <1>3, <1>4, <3>1, EmptyQueue
    <3>2. CASE x \notin crew
      BY <1>4, <3>2
    <3> QED
      BY <3>1, <3>2
  <2> QED
    BY <1>1, <1>5, <1>6, <2>1, DataFrame DEF driverVars
<1> QED
  BY <1>6, <1>7, <1>8, <1>9, <1>10, <1>11 DEF DriverInv

\* Any step of an element, whoever serves it.
LEMMA ElementStepInv ==
  ASSUME DriverInv, NEW crew, crew \subseteq Elements, NEW e \in crew,
         ElementStep(e, crew, Held), UNCHANGED driverVars
  PROVE  DriverInv'
<1>1. e \in Elements
  OBVIOUS
<1>2. CASE ReceiveConfig(e, crew)
  BY <1>1, <1>2, ReceiveConfigInv
<1>3. CASE ReceiveData(e, crew)
  <2>1. CASE e = Concentrator
    BY <1>3, <2>1, CountLaneInv
  <2>2. CASE e # Concentrator
    <3>1. PICK l \in 1..Lanes, i \in 1..Pipelines : e = Slot(l, i)
      BY <1>1, <2>2, Slots
    <3> QED
      BY <1>3, <3>1, AcceptInv
  <2> QED
    BY <2>1, <2>2
<1>4. CASE handle_action(e)
  BY <1>1, <1>4, HandleActionInv
<1>5. CASE handle_notification(e)
  BY <1>1, <1>5, HandleNotificationInv
<1>6. CASE Exit(e, crew, Held)
  BY <1>6, ExitInv
<1> QED
  BY <1>1, <1>2, <1>3, <1>4, <1>5, <1>6, SequenceErrorNever DEF ElementStep, Receive

\* A step that leaves the variables of Driver alone keeps its invariant.
LEMMA DriverStutter == ASSUME DriverInv, UNCHANGED vars PROVE DriverInv'
<1>1. UNCHANGED <<queue, fwd, pc, todo, delivered, phase, iteration, lane, id>>
  BY DEF vars
<1>2. Types' /\ Control' /\ Lifetimes'
  BY <1>1 DEF DriverInv, Types, Control, Lifetimes, Created
<1>3. Configuration' /\ Actions'
  BY <1>1, ConfigFrame DEF DriverInv, Open, ConfigSent
<1>4. Done' = Done /\ \A l \in 1..Lanes : SentTo(l)' = SentTo(l)
  BY <1>1 DEF Done, SentTo
<1>5. Hops' /\ Order' /\ Numbers' /\ LaneNotices' /\ ConcentratorNotices'
  BY <1>1, <1>4, DataFrame
<1> QED
  BY <1>2, <1>3, <1>5 DEF DriverInv

-----------------------------------------------------------------------------
(* What the invariant says.                                                *)

\* The types of the variables.
LEMMA InvTypeOK == DriverInv => TypeOK
<1> USE PipelineAssumption
<1> SUFFICES ASSUME DriverInv PROVE TypeOK
  OBVIOUS
<1>1. Types /\ Control
  BY DEF DriverInv
<1>2. ASSUME NEW c \in Channels
      PROVE  Len(queue[c]) <= Cap /\ \A j \in DOMAIN queue[c] : MessageOK(queue[c][j])
  <2>1. queue[c] \in Seq(Message) /\ Len(queue[c]) <= Cap
    BY <1>1 DEF Types
  <2>2. \A j \in DOMAIN queue[c] : queue[c][j] \in Message
    BY <2>1, ElementOfSeq, LenProperties
  <2> QED
    BY <2>1, <2>2 DEF MessageOK, Message
<1>3. ASSUME NEW e \in Elements
      PROVE  ForwarderOK(fwd[e]) /\ Len(todo[e]) <= Len(fwd[e].senders)
  <2>1. fwd[e] \in Forwarders /\ fwd[e].senders \in Seq(LaneElements) /\ todo[e] \in Seq(LaneElements)
    BY <1>1 DEF Types, Forwarders
  <2>2. \A j \in DOMAIN fwd[e].senders : fwd[e].senders[j] \in LaneElements
    BY <2>1, ElementOfSeq, LenProperties
  <2>3. ForwarderOK(fwd[e])
    BY <2>1, <2>2 DEF ForwarderOK, Forwarders
  <2>4. CASE todo[e] = <<>>
    <3>1. Len(todo[e]) = 0 /\ Len(fwd[e].senders) \in Nat
      BY <2>1, <2>4, EmptySeq, LenProperties
    <3> QED
      BY <2>3, <3>1
  <2>5. CASE todo[e] # <<>>
    <3>1. todo[e] = fwd[e].senders
      BY <2>5 DEF DriverInv, Actions
    <3> QED
      BY <2>1, <2>3, <3>1, LenProperties
  <2> QED
    BY <2>4, <2>5
<1>4. PipelineTypeOK
  BY <1>1, <1>2, <1>3 DEF PipelineTypeOK, Types
<1>5. id \in 0..(Messages + Pipelines + 1)
  BY <1>1 DEF Types, Control
<1> QED
  BY <1>1, <1>4, <1>5 DEF TypeOK, Types

\* Nothing panics.
LEMMA InvNoSequenceError == DriverInv => NoSequenceError
BY Names DEF DriverInv, Lifetimes, NoSequenceError

\* No message is lost or duplicated between two positions of a lane, nor in one.
LEMMA InvLaneConservation == DriverInv => LaneConservation
<1> SUFFICES ASSUME DriverInv, NEW l \in 1..Lanes, NEW i \in 1..Pipelines
             PROVE  /\ Passed(l, i - 1) = Accepted(l, i) + Cardinality(DataIn(<<l, i>>))
                    /\ i < Pipelines => Accepted(l, i) = Passed(l, i) + Len(todo[<<l, i>>])
  BY DEF LaneConservation
<1>1. <<l, i>> = Slot(l, i)
  BY DEF Slot
<1>2. Cardinality(DataIn(Slot(l, i))) = NData(queue[Slot(l, i)])
  BY CountTypes, DataCount
<1>3. /\ Passed(l, i - 1) = Accepted(l, i) + NData(queue[Slot(l, i)])
      /\ i < Pipelines => Accepted(l, i) = Passed(l, i) + Len(todo[Slot(l, i)])
  BY DEF DriverInv, Hops
<1> QED
  BY <1>1, <1>2, <1>3

\* Between the runs nothing is under way and nothing is counted.
LEMMA InvQuiescentBetweenRuns == DriverInv => QuiescentBetweenRuns
<1> SUFFICES ASSUME DriverInv, phase \in {"idle", "teardown"}
             PROVE  /\ \A e \in Elements : Pending(e) = 0
                    /\ queue[Notifier] = <<>>
                    /\ fwd[Concentrator].received_count = 0
                    /\ \A l \in 1..Lanes : fwd[<<l, Pipelines>>].received_count = 0
  BY DEF QuiescentBetweenRuns
<1>1. /\ \A e \in Elements : NData(queue[e]) = 0 /\ todo[e] = <<>>
      /\ queue[Notifier] = <<>>
      /\ fwd[Concentrator].received_count = 0
      /\ \A l \in 1..Lanes : fwd[Last(l)].received_count = 0
  BY Drained
<1>2. ASSUME NEW e \in Elements
      PROVE  Pending(e) = 0
  <2>1. queue[e] \in Seq(Message) /\ DataBehind(queue[e])
    BY Names DEF DriverInv, Types, Configuration
  <2>2. Cardinality(DataIn(e)) = 0 /\ Len(todo[e]) = 0
    BY <1>1, <2>1, DataCount, EmptySeq
  <2> QED
    BY <2>2 DEF Pending
<1> QED
  BY <1>1, <1>2 DEF Last, Slot

\* A lane that has notified the concentrator has delivered what the runs sent.
LEMMA NotifiedDelivered ==
  ASSUME DriverInv, phase = "waiting", NotifiedLanes = 1..Lanes, NEW l \in 1..Lanes
  PROVE  delivered[l] = iteration * Messages
<1>1. delivered[l] = Done + Messages
  BY DEF NotifiedLanes, Notified
<1>2. Done = (iteration - 1) * Messages /\ iteration \in Nat /\ iteration >= 1
  BY DriverAssumption DEF DriverInv, Types, Control, Done
<1> QED
  BY <1>1, <1>2, RunProducts

\* The driver is notified once, when all is at the end of its lane.
LEMMA InvNotifiedOnlyWhenDone == DriverInv => NotifiedOnlyWhenDone
<1> SUFFICES ASSUME DriverInv
             PROVE  /\ Len(queue[Notifier]) <= 1
                    /\ queue[Notifier] # <<>> =>
                         \A l \in 1..Lanes : delivered[l] = iteration * Messages
  BY DEF NotifiedOnlyWhenDone
<1>1. CASE queue[Notifier] = <<>>
  BY <1>1, EmptySeq
<1>2. CASE queue[Notifier] # <<>>
  <2>1. Len(queue[Notifier]) = 1 /\ phase = "waiting" /\ NotifiedLanes = 1..Lanes
    BY <1>2 DEF DriverInv, ConcentratorNotices
  <2> QED
    BY <2>1, NotifiedDelivered
<1> QED
  BY <1>1, <1>2

-----------------------------------------------------------------------------
(* The steps of Experiment that the steps of a driver are.                 *)

\* A driver starts as Experiment does.
LEMMA PromiseInit == PipelineInit /\ DriverInit => Promise!Init
BY DEF PipelineInit, DriverInit, Promise!Init

\* A step within one call of the driver, with no message at the end of a lane.
LEMMA PromiseStutter ==
  ASSUME UNCHANGED <<phase, iteration, delivered>>
  PROVE  [Promise!Next]_(Promise!vars)
BY DEF Promise!vars

\* setup, run and teardown.
LEMMA PromiseMain ==
  ASSUME DriverInv, NEW outside
  PROVE  /\ \A label : SetupElement(label) => [Promise!Next]_(Promise!vars)
         /\ SetupLane => [Promise!Next]_(Promise!vars)
         /\ SetupNotifier => Promise!Next
         /\ Run => Promise!Next
         /\ RunSend => [Promise!Next]_(Promise!vars)
         /\ RunWait(outside) => Promise!Next
         /\ DropHead => [Promise!Next]_(Promise!vars)
         /\ DropNotifier => [Promise!Next]_(Promise!vars)
<1>1. ASSUME NEW label, SetupElement(label) PROVE [Promise!Next]_(Promise!vars)
  BY <1>1, PromiseStutter DEF SetupElement
<1>2. ASSUME SetupLane PROVE [Promise!Next]_(Promise!vars)
  BY <1>2, PromiseStutter DEF SetupLane
<1>3. ASSUME SetupNotifier PROVE Promise!Next
  <2>1. Promise!Setup
    BY <1>3 DEF SetupNotifier, Promise!Setup
  <2> QED
    BY <2>1 DEF Promise!Next
<1>4. ASSUME Run PROVE Promise!Next
  <2>1. Promise!Run
    BY <1>4 DEF Run, Promise!Run
  <2> QED
    BY <2>1 DEF Promise!Next
<1>5. ASSUME RunSend PROVE [Promise!Next]_(Promise!vars)
  BY <1>5 DEF RunSend, Promise!vars
<1>6. ASSUME RunWait(outside) PROVE Promise!Next
  <2>1. phase = "waiting" /\ phase' = "idle" /\ UNCHANGED <<iteration, delivered>>
    BY <1>6 DEF RunWait
  <2>2. \A l \in 1..Lanes : delivered[l] = iteration * Messages
    BY <1>6, <2>1, RunWaitNotified, NotifiedDelivered
  <2>3. Promise!Return
    BY <2>1, <2>2 DEF Promise!Return
  <2> QED
    BY <2>3 DEF Promise!Next
<1>7. ASSUME DropHead PROVE [Promise!Next]_(Promise!vars)
  <2>1. CASE phase = "idle"
    <3>1. Promise!Teardown
      BY <1>7, <2>1 DEF DropHead, Promise!Teardown
    <3> QED
      BY <3>1 DEF Promise!Next
  <2>2. CASE phase = "teardown"
    BY <1>7, <2>2 DEF DropHead, Promise!vars
  <2> QED
    BY <1>7, <2>1, <2>2 DEF DropHead
<1>8. ASSUME DropNotifier PROVE [Promise!Next]_(Promise!vars)
  BY <1>8 DEF DropNotifier, Promise!vars
<1> QED
  BY <1>1, <1>2, <1>3, <1>4, <1>5, <1>6, <1>7, <1>8

\* A message at the end of a lane is one that the run under way has sent.
LEMMA PromiseDeliver ==
  ASSUME DriverInv, NEW l \in 1..Lanes, NEW crew, Last(l) \in crew,
         ReceiveData(Last(l), crew), UNCHANGED driverVars
  PROVE  Promise!Deliver(l)
<1> DEFINE e == Last(l)
<1>1. e \in Elements /\ e = Slot(l, Pipelines) /\ Pipelines \in 1..Pipelines
  BY Slots
<1>2. pc[e] = "recv" /\ queue[e] # <<>> /\ ~is_config(Head(queue[e]))
  BY DEF ReceiveData, Receiving
<1>3. NData(queue[Slot(l, Pipelines)]) >= 1
  BY <1>1, <1>2, DataFacts
<1>4. phase \in {"sending", "waiting"}
  BY <1>1, <1>3, Drained
<1>5. delivered[l] + 1 <= SentTo(l)
  BY <1>1, <1>3, Behind, SlotCounts
<1>6. delivered[l] < iteration * Messages
  <2>1. /\ Done \in Nat /\ InRun(l) \in 0..Messages
        /\ SentTo(l) = Done + InRun(l) /\ delivered[l] \in Nat
    BY SentFacts DEF DriverInv, Types
  <2>2. /\ Done = (iteration - 1) * Messages /\ iteration \in Nat /\ iteration >= 1
    BY <1>4, DriverAssumption DEF DriverInv, Types, Control, Done
  <2>3. iteration * Messages = Done + Messages /\ Messages \in Nat
    BY <2>2, RunProducts, PipelineAssumption
  <2> QED
    BY <1>5, <2>1, <2>3
<1>7. delivered' = [delivered EXCEPT ![l] = @ + 1]
  <2>1. delivered \in [1..Lanes -> Nat]
    BY DEF DriverInv, Types
  <2>2. /\ delivered' \in [1..Lanes -> Nat]
        /\ \A k \in 1..Lanes : delivered'[k] = delivered[k] + IF e = Last(k) THEN 1 ELSE 0
    BY <1>1, ReceiveDataFacts
  <2>3. \A k \in 1..Lanes : e = Last(k) <=> k = l
    BY <1>1, Slots
  <2> HIDE DEF e
  <2>4. \A k \in 1..Lanes : delivered'[k] = IF k = l THEN delivered[k] + 1 ELSE delivered[k]
    BY <2>1, <2>2, <2>3
  <2>5. /\ delivered' = [k \in 1..Lanes |-> delivered'[k]]
        /\ [delivered EXCEPT ![l] = @ + 1]
             = [k \in 1..Lanes |-> IF k = l THEN delivered[k] + 1 ELSE delivered[k]]
    BY <2>1, <2>2
  <2> QED
    BY <2>4, <2>5, Zenon
<1> QED
  BY <1>4, <1>6, <1>7 DEF Promise!Deliver, driverVars

\* A step of an element delivers a message at the end of a lane, or leaves Experiment
\* where it is.
LEMMA PromiseElement ==
  ASSUME DriverInv, NEW crew, crew \subseteq Elements, NEW e \in crew,
         ElementStep(e, crew, Held), UNCHANGED driverVars
  PROVE  [Promise!Next]_(Promise!vars)
<1>1. CASE delivered' = delivered
  BY <1>1, PromiseStutter DEF driverVars
<1>2. CASE ReceiveData(e, crew) /\ \E l \in 1..Lanes : e = Last(l)
  <2>1. PICK l \in 1..Lanes : e = Last(l)
    BY <1>2
  <2>2. Promise!Deliver(l)
    BY <1>2, <2>1, PromiseDeliver
  <2> QED
    BY <2>2 DEF Promise!Next
<1>3. CASE ReceiveData(e, crew) /\ \A l \in 1..Lanes : e # Last(l)
  <2>1. delivered \in [1..Lanes -> Nat]
    BY DEF DriverInv, Types
  <2>2. /\ delivered' \in [1..Lanes -> Nat]
        /\ \A k \in 1..Lanes : delivered'[k] = delivered[k] + IF e = Last(k) THEN 1 ELSE 0
    BY <1>3, ReceiveDataFacts
  <2>3. \A k \in 1..Lanes : delivered'[k] = delivered[k]
    BY <1>3, <2>1, <2>2
  <2>4. /\ delivered = [l \in 1..Lanes |-> delivered[l]]
        /\ delivered' = [l \in 1..Lanes |-> delivered'[l]]
    BY <2>1, <2>2
  <2>5. delivered' = delivered
    BY <2>3, <2>4, Zenon
  <2> QED
    BY <1>1, <2>5
<1>4. ~ReceiveData(e, crew) => delivered' = delivered
  BY DEF ElementStep, Receive, ReceiveConfig, SequenceError, handle_action,
         handle_notification, Exit, Close
<1> QED
  BY <1>1, <1>2, <1>3, <1>4
=============================================================================
