------------------------- MODULE TokioElementProofs -------------------------
(***************************************************************************)
(* The steps of the feeders and of the elements keep TokioInv, and what    *)
(* follows from it.                                                        *)
(***************************************************************************)
EXTENDS TokioProofs, ElementProofs

-----------------------------------------------------------------------------
(* What the invariant says of one element.                                 *)

\* Sending test data changes one channel, if its receiver is still there.
LEMMA TokioSend ==
  ASSUME TokioTypes, NEW c \in Channels, NEW n \in Nat, send_cmd(c, TestData(n))
  PROVE  /\ queue' \in [Channels -> Seq(Message)]
         /\ \A d \in Channels : Len(queue'[d]) <= Cap
         /\ \A d \in Channels : d # c => queue'[d] = queue[d]
         /\ ~Open(c) => queue' = queue
         /\ Configures(queue'[c]) <=> Configures(queue[c])
         /\ \A m : OnlyConfig(queue[c], m) => OnlyConfig(queue'[c], m)
         /\ Open(c) =>
              /\ Len(queue'[c]) = Len(queue[c]) + 1
              /\ CountData(queue'[c]) = CountData(queue[c]) + 1
              /\ \A a \in Int : NumberedFrom(queue[c], a) /\ n = a + CountData(queue[c]) =>
                                  NumberedFrom(queue'[c], a)
<1> USE PipelineAssumption
<1>1. /\ queue \in [Channels -> Seq(Message)] /\ queue[c] \in Seq(Message)
      /\ \A d \in Channels : Len(queue[d]) <= Cap
      /\ Len(queue[c]) \in Nat
  BY LenProperties DEF TokioTypes, Types
<1>2. CASE ~Open(c)
  BY <1>1, <1>2 DEF send_cmd
<1>3. CASE Open(c)
  <2>1. Len(queue[c]) < Cap /\ queue' = [queue EXCEPT ![c] = Append(queue[c], TestData(n))]
    BY <1>3 DEF send_cmd
  <2>2. queue'[c] = Append(queue[c], TestData(n)) /\ \A d \in Channels : d # c => queue'[d] = queue[d]
    BY <1>1, <2>1
  <2>3. /\ queue'[c] \in Seq(Message)
        /\ Len(queue'[c]) = Len(queue[c]) + 1
        /\ Configures(queue'[c]) <=> Configures(queue[c])
        /\ CountData(queue'[c]) = CountData(queue[c]) + 1
        /\ \A m : OnlyConfig(queue[c], m) => OnlyConfig(queue'[c], m)
        /\ \A a \in Int : NumberedFrom(queue[c], a) /\ n = a + CountData(queue[c]) =>
                            NumberedFrom(queue'[c], a)
    BY <1>1, <2>2, PutData
  <2>4. queue' \in [Channels -> Seq(Message)]
    BY <1>1, <2>1, <2>2, <2>3
  <2>5. \A d \in Channels : Len(queue'[d]) <= Cap
    BY <1>1, <2>1, <2>2, <2>3
  <2> QED
    BY <1>3, <2>2, <2>3, <2>4, <2>5
<1> QED
  BY <1>2, <1>3

\* Where the last elements and the concentrator count as before, so is what they
\* notify.
LEMMA NoticesFrame ==
  ASSUME TokioInv, delivered' = delivered, Done' = Done, Broken' <=> Broken, phase' = phase,
         \A l \in 1..Lanes : fwd'[Last(l)].received_count = fwd[Last(l)].received_count,
         fwd'[Concentrator].received_count = fwd[Concentrator].received_count,
         CountData(queue'[Concentrator]) = CountData(queue[Concentrator]),
         queue'[Notifier] = queue[Notifier]
  PROVE  TokioNotices'
<1>1. \A l \in 1..Lanes : Notified(l)' <=> Notified(l)
  BY DEF Notified, Last
<1>2. NotifiedLanes' = NotifiedLanes
  BY <1>1 DEF NotifiedLanes
<1>3. \A l \in 1..Lanes :
        IF Broken' THEN fwd'[Last(l)].received_count = 0
        ELSE /\ Done' <= delivered'[l]
             /\ \/ Notified(l)'
                \/ fwd'[Last(l)].received_count = delivered'[l] - Done'
  BY <1>1 DEF TokioInv, TokioNotices
<1> QED
  BY <1>2, <1>3 DEF TokioInv, TokioNotices, Last

\* No element is sent more than each of those before it accepted.
LEMMA SentBounded ==
  ASSUME TokioInv, NEW l \in 1..Lanes, NEW i \in 1..Pipelines
  PROVE  /\ Sent(l, i - 1) <= FedTo(l)
         /\ \A k \in 1..(i - 1) : Sent(l, i - 1) <= Accepted(l, k)
         /\ i < Pipelines => Sent(l, i) <= Accepted(l, i) /\ Swallowed(Slot(l, i)) >= 0
<1> USE PipelineAssumption
<1>1. TokioTypes
  BY DEF TokioInv
<1>2. ASSUME NEW j \in 1..Pipelines, j < Pipelines
      PROVE  Sent(l, j) <= Accepted(l, j) /\ Swallowed(Slot(l, j)) >= 0
  <2>1. /\ Swallowed(Slot(l, j)) = Accepted(l, j) - Sent(l, j) - Len(todo[Slot(l, j)])
        /\ Accepted(l, j) \in Nat /\ Sent(l, j) \in Nat /\ Len(todo[Slot(l, j)]) \in Nat
    BY <1>1, <1>2, TokioCounts
  <2>2. Swallowed(Slot(l, j)) = 0 \/ (Sent(l, j) = 0 /\ todo[Slot(l, j)] = <<>>)
    BY <1>2 DEF TokioInv, TokioHops
  <2>3. todo[Slot(l, j)] = <<>> => Len(todo[Slot(l, j)]) = 0
    BY EmptySeq
  <2> QED
    BY <2>1, <2>2, <2>3
<1>3. CASE i = 1
  <2>1. Sent(l, i - 1) = FedTo(l) /\ FedTo(l) \in Nat
    BY <1>3, SentCounts, FedType
  <2>2. 1..(i - 1) = {}
    BY <1>3
  <2> QED
    BY <1>2, <2>1, <2>2
<1>4. CASE i # 1
  <2>1. i - 1 \in 1..Pipelines /\ i - 1 < Pipelines
    BY <1>4
  <2>2. Sent(l, i - 1) <= Accepted(l, i - 1) /\ Accepted(l, i - 1) <= FedTo(l)
    BY <1>2, <2>1 DEF TokioInv, TokioOrder
  <2>3. /\ Sent(l, i - 1) \in Nat /\ FedTo(l) \in Nat /\ Accepted(l, i - 1) \in Nat
    BY <1>1, <2>1, TokioCounts
  <2>4. ASSUME NEW k \in 1..(i - 1)
        PROVE  Sent(l, i - 1) <= Accepted(l, k)
    <3>1. k \in 1..Pipelines /\ i - 1 \in k..Pipelines
      BY <2>1
    <3>2. Accepted(l, i - 1) <= Accepted(l, k) /\ Accepted(l, k) \in Nat
      BY <1>1, <3>1, TokioCounts DEF TokioInv, TokioOrder
    <3> QED
      BY <2>2, <2>3, <3>2
  <2> QED
    BY <1>2, <2>2, <2>3, <2>4
<1> QED
  BY <1>3, <1>4

\* Nothing comes past an element that dropped data.
LEMMA SwallowedLane ==
  ASSUME TokioInv, NEW l \in 1..Lanes, NEW i \in 1..Pipelines, i < Pipelines,
         Swallowed(Slot(l, i)) # 0
  PROVE  /\ \A j \in (i + 1)..Pipelines : Accepted(l, j) = 0
         /\ Sent(l, Pipelines - 1) = 0
         /\ delivered[l] = 0
         /\ Swallowed(Slot(l, i)) = Accepted(l, i) /\ Accepted(l, i) > 0
<1> USE PipelineAssumption
<1>1. TokioTypes
  BY DEF TokioInv
<1>2. Sent(l, i) = 0 /\ todo[Slot(l, i)] = <<>>
  BY DEF TokioInv, TokioHops
<1>3. i + 1 \in 1..Pipelines /\ (i + 1) - 1 = i
  OBVIOUS
<1>4. Accepted(l, i + 1) <= 0
  BY <1>2, <1>3 DEF TokioInv, TokioHops
<1>5. ASSUME NEW j \in (i + 1)..Pipelines
      PROVE  Accepted(l, j) = 0
  <2>1. j \in 1..Pipelines
    OBVIOUS
  <2>2. Accepted(l, j) <= Accepted(l, i + 1) /\ Accepted(l, j) \in Nat /\ Accepted(l, i + 1) \in Nat
    BY <1>1, <1>3, <2>1, TokioCounts DEF TokioInv, TokioOrder
  <2> QED
    BY <1>4, <2>2
<1>6. delivered[l] = 0
  <2>1. Pipelines \in (i + 1)..Pipelines
    BY <1>3
  <2>2. Pipelines \in 1..Pipelines
    OBVIOUS
  <2> QED
    BY <1>1, <1>5, <2>1, <2>2, TokioCounts
<1>7. Sent(l, Pipelines - 1) = 0
  <2>1. CASE i = Pipelines - 1
    BY <1>2, <2>1
  <2>2. CASE i # Pipelines - 1
    <3>1. Pipelines \in 1..Pipelines /\ i + 1 \in 1..(Pipelines - 1) /\ i + 1 \in (i + 1)..Pipelines
      BY <2>2
    <3>2. Sent(l, Pipelines - 1) <= Accepted(l, i + 1) /\ Accepted(l, i + 1) = 0
      BY <1>5, <3>1, SentBounded
    <3>3. Sent(l, Pipelines - 1) \in Nat
      BY <1>1, <3>1, TokioCounts
    <3> QED
      BY <3>2, <3>3
  <2> QED
    BY <2>1, <2>2
<1>8. Swallowed(Slot(l, i)) = Accepted(l, i) /\ Accepted(l, i) > 0
  <2>1. /\ Swallowed(Slot(l, i)) = Accepted(l, i) - Sent(l, i) - Len(todo[Slot(l, i)])
        /\ Accepted(l, i) \in Nat
    BY <1>1, TokioCounts
  <2>2. Len(todo[Slot(l, i)]) = 0
    BY <1>2, EmptySeq
  <2> QED
    BY <1>2, <2>1, <2>2
<1> QED
  BY <1>5, <1>6, <1>7, <1>8

\* A lane in which an element panicked runs dry, and where its head dropped data
\* it is the head that panicked.
LEMMA PanickedDry ==
  ASSUME TokioInv, NEW l \in 1..Lanes, Panicked(l)
  PROVE  /\ Sent(l, Pipelines - 1) = 0
         /\ 1 < Pipelines /\ Swallowed(Slot(l, 1)) # 0 => pc[Slot(l, 1)] = "panicked"
<1> USE PipelineAssumption
<1>1. PICK j \in 1..Pipelines : pc[Slot(l, j)] = "panicked"
  BY DEF Panicked
<1>2. PICK i \in 1..Pipelines : i < Pipelines /\ Swallowed(Slot(l, i)) > 0
  <2>1. CASE Swallowed(Slot(l, j)) > 0
    BY <1>1, <2>1 DEF TokioInv, TokioPanics
  <2>2. CASE ~(Swallowed(Slot(l, j)) > 0)
    <3>1. PICK k \in 2..Pipelines : pc[Slot(l, k)] = "panicked"
      BY <1>1, <2>2 DEF TokioInv, TokioPanics
    <3>2. k \in 1..Pipelines /\ k # 1
      OBVIOUS
    <3> QED
      BY <3>1, <3>2 DEF TokioInv, TokioPanics
  <2> QED
    BY <2>1, <2>2
<1>3. Sent(l, Pipelines - 1) = 0
  BY <1>2, SwallowedLane
<1>4. ASSUME 1 < Pipelines, Swallowed(Slot(l, 1)) # 0, pc[Slot(l, 1)] # "panicked"
      PROVE  FALSE
  <2>1. j # 1 /\ j \in (1 + 1)..Pipelines
    BY <1>1, <1>4
  <2>2. 1 \in 1..Pipelines
    OBVIOUS
  <2>3. Accepted(l, j) = 0
    BY <1>4, <2>1, <2>2, SwallowedLane
  <2>4. j < Pipelines /\ Swallowed(Slot(l, j)) > 0
    BY <1>1, <2>1 DEF TokioInv, TokioPanics
  <2>5. Accepted(l, j) > 0
    BY <2>4, SwallowedLane
  <2> QED
    BY <2>3, <2>5
<1> QED
  BY <1>3, <1>4

\* What an element accepted since it last met a 0 is a natural number.
LEMMA CountNat ==
  ASSUME TokioInv, NEW l \in 1..Lanes, NEW i \in 1..Pipelines, i # 1 \/ ~Broken
  PROVE  Count(l, i) \in Nat
<1>1. TokioTypes /\ Done \in Nat
  BY DoneType DEF TokioInv
<1>2. Accepted(l, i) \in Nat
  BY <1>1, TokioCounts
<1>3. CASE i # 1
  BY <1>2, <1>3 DEF Count
<1>4. CASE i = 1
  <2>1. Pipelines \in i..Pipelines /\ Pipelines \in 1..Pipelines
    BY PipelineAssumption
  <2>2. Accepted(l, Pipelines) <= Accepted(l, i) /\ Accepted(l, Pipelines) = delivered[l]
    BY <1>1, <2>1, TokioCounts DEF TokioInv, TokioOrder
  <2>3. Done <= delivered[l] /\ delivered[l] \in Nat
    BY <1>1, <1>4, TokioCounts DEF TokioInv, TokioNotices
  <2> QED
    BY <1>1, <1>2, <1>4, <2>2, <2>3 DEF Count
<1> QED
  BY <1>3, <1>4

-----------------------------------------------------------------------------
(* The feeders.                                                            *)

\* A feeder that still feeds while a lane is whole is that of this run, and its
\* next message bears the number that the head of the lane is to meet next.
LEMMA FeedsThisRun ==
  ASSUME TokioInv, NEW k \in 1..Iterations, Feeding(k), ~Broken,
         NEW l \in 1..Lanes, l = (fed[k] % Lanes) + 1, Open(Slot(l, 1))
  PROVE  /\ k = iteration /\ phase = "waiting"
         /\ fed[k] \div Lanes = Count(l, 1) + CountData(queue[Slot(l, 1)])
<1> USE PipelineAssumption, DriverAssumption
<1>1. TokioTypes /\ Done \in Nat /\ iteration \in Nat
  BY DoneType DEF TokioInv
<1>2. k <= iteration /\ fed[k] < Messages * Lanes
  BY DEF Feeding
<1>3. fed[k] \in Nat
  <2>1. fed[k] \in 0..(Messages * Lanes)
    BY <1>1 DEF TokioTypes
  <2> QED
    BY <2>1
<1>4. Messages * Lanes \in Nat
  OBVIOUS
<1>5. k = iteration /\ phase = "waiting"
  <2>1. fed[k] # Messages * Lanes
    BY <1>2, <1>3, <1>4
  <2>2. ~(k < iteration \/ (k = iteration /\ phase # "waiting"))
    BY <2>1 DEF TokioInv, TokioRuns
  <2> QED
    BY <1>1, <1>2, <2>2
<1>6. FedTo(l) = Done + Share(fed[k], l)
  BY <1>5 DEF TokioInv, TokioRuns
<1>7. Share(fed[k], l) = fed[k] \div Lanes /\ Share(fed[k], l) \in Nat
  BY <1>3, Shares
<1>8. 1 \in 1..Pipelines /\ 1 - 1 = 0
  OBVIOUS
<1>9. FedTo(l) = Accepted(l, 1) + CountData(queue[Slot(l, 1)])
  BY <1>8, SentCounts DEF TokioInv, TokioHops
<1>10. Accepted(l, 1) \in Nat /\ CountData(queue[Slot(l, 1)]) \in Nat
  BY <1>1, <1>8, TokioCounts
<1>11. Count(l, 1) = Accepted(l, 1) - Done
  BY DEF Count
<1> QED
  BY <1>1, <1>5, <1>6, <1>7, <1>9, <1>10, <1>11

\* The feeder of a run sends the next message.
LEMMA FeedInv == ASSUME TokioInv, NEW k \in 1..Iterations, Feed(k) PROVE TokioInv'
<1> USE PipelineAssumption, DriverAssumption
<1>1. /\ TokioTypes /\ TokioControl /\ Types /\ Control /\ Done \in Nat /\ iteration \in Nat
      /\ UNCHANGED <<fwd, pc, todo, delivered, phase, iteration, lane, id, spawned>>
      /\ fed' = [fed EXCEPT ![k] = fed[k] + 1]
      /\ k <= iteration /\ fed[k] < Messages * Lanes
  BY DoneType DEF TokioInv, TokioTypes, TokioControl, Feed, Feeding
<1>2. fed[k] \in Nat /\ fed \in [1..Iterations -> 0..(Messages * Lanes)] /\ Messages * Lanes \in Nat
  <2>1. fed[k] \in 0..(Messages * Lanes) /\ fed \in [1..Iterations -> 0..(Messages * Lanes)]
    BY <1>1 DEF TokioTypes
  <2> QED
    BY <2>1
<1> DEFINE l == (fed[k] % Lanes) + 1
           n == fed[k] \div Lanes
           e == Slot(l, 1)
<1>3. l \in 1..Lanes /\ n \in Nat
  <2>1. fed[k] % Lanes \in 0..(Lanes - 1) /\ fed[k] \div Lanes \in Nat
    BY <1>2, Division
  <2> QED
    BY <2>1
<1>4. e \in Elements /\ e \in Channels /\ e # Concentrator /\ e # Notifier /\ 1 \in 1..Pipelines
  BY <1>3, Slots
<1>5. send_cmd(e, TestData(n))
  BY DEF Feed, Slot
<1>6. \A x : FedTo(x)' = FedTo(x) + IF x = l THEN 1 ELSE 0
  BY <1>1, <1>2, FeedCounts
<1>7. /\ Open(e) /\ ~Broken => n = Count(l, 1) + CountData(queue[e])
      /\ ~Broken /\ Open(e) => k = iteration /\ phase = "waiting"
  <2>1. Feeding(k)
    BY <1>1 DEF Feeding
  <2> QED
    BY <1>3, <2>1, FeedsThisRun
<1> HIDE DEF l, n, e
<1>8. l = (fed[k] % Lanes) + 1 /\ e = Slot(l, 1)
  BY DEF l, e
<1>9. /\ queue' \in [Channels -> Seq(Message)]
      /\ \A d \in Channels : Len(queue'[d]) <= Cap
      /\ \A d \in Channels : d # e => queue'[d] = queue[d]
      /\ ~Open(e) => queue' = queue
      /\ Configures(queue'[e]) <=> Configures(queue[e])
      /\ \A m : OnlyConfig(queue[e], m) => OnlyConfig(queue'[e], m)
      /\ Open(e) =>
           /\ CountData(queue'[e]) = CountData(queue[e]) + 1
           /\ \A a \in Int : NumberedFrom(queue[e], a) /\ n = a + CountData(queue[e]) =>
                               NumberedFrom(queue'[e], a)
  BY <1>1, <1>3, <1>4, <1>5, TokioSend
<1>10. /\ \A x \in Elements : /\ Open(x)' <=> Open(x)
                              /\ ConfigSent(x)' <=> ConfigSent(x)
       /\ Done' = Done
       /\ \A x \in 1..Lanes : Panicked(x)' <=> Panicked(x)
       /\ Broken' <=> Broken
  <2>1. \A x \in Elements : (Open(x)' <=> Open(x)) /\ (ConfigSent(x)' <=> ConfigSent(x))
    BY <1>1 DEF Open, ConfigSent
  <2>2. Done' = Done
    BY <1>1 DEF Done
  <2>3. (\A x \in 1..Lanes : Panicked(x)' <=> Panicked(x)) /\ (Broken' <=> Broken)
    BY <1>1 DEF Broken, Panicked
  <2> QED
    BY <2>1, <2>2, <2>3
<1>11. TokioTypes' /\ TokioControl'
  <2>1. Types' /\ Control'
    BY <1>1, <1>9 DEF Types, Control, TokioControl
  <2>2. fed' \in [1..Iterations -> 0..(Messages * Lanes)]
    <3>1. fed[k] + 1 \in 0..(Messages * Lanes)
      BY <1>1, <1>2
    <3> QED
      BY <1>1, <1>2, <3>1
  <2>3. \A j \in 1..Iterations : j > iteration => fed'[j] = 0
    BY <1>1, <1>2 DEF TokioControl
  <2> QED
    BY <1>1, <2>1, <2>2, <2>3 DEF TokioTypes, TokioControl
<1>12. TokioLifetimes' /\ TokioActions'
  <2>1. TokioActions'
    BY <1>1 DEF TokioInv, TokioActions
  <2>2. TokioLifetimes'
    BY <1>1, <1>10, LifetimesFrame DEF TokioInv, TokioLifetimes, Created
  <2> QED
    BY <2>1, <2>2
<1>13. TokioConfiguration'
  <2>1. \A x \in Elements :
          /\ ~Open(x) => queue'[x] = queue[x]
          /\ Configures(queue'[x]) <=> Configures(queue[x])
          /\ OnlyConfig(queue[x], ConfigOf(x)) => OnlyConfig(queue'[x], ConfigOf(x))
    <3> SUFFICES ASSUME NEW x \in Elements
                 PROVE  /\ ~Open(x) => queue'[x] = queue[x]
                        /\ Configures(queue'[x]) <=> Configures(queue[x])
                        /\ OnlyConfig(queue[x], ConfigOf(x)) => OnlyConfig(queue'[x], ConfigOf(x))
      OBVIOUS
    <3>1. CASE x = e
      BY <1>9, <3>1
    <3>2. CASE x # e
      BY <1>9, <3>2, Names
    <3> QED
      BY <3>1, <3>2
  <2>2. queue'[Notifier] = queue[Notifier]
    BY <1>4, <1>9, Names
  <2>3. ~Configures(queue'[Notifier])
    BY <2>2 DEF TokioInv, TokioConfiguration
  <2>4. \A x \in Elements : Unconfigured(x) => fwd'[x].send_count = 0 /\ fwd'[x].next_seq = 0
    BY <1>1 DEF Unconfigured
  <2> QED
    BY <1>1, <1>10, <2>1, <2>3, <2>4, ConfigurationFrame
<1>14. \A x \in 1..Lanes : \A i \in 1..Pipelines :
         /\ Accepted(x, i)' = Accepted(x, i)
         /\ Swallowed(Slot(x, i))' = Swallowed(Slot(x, i))
         /\ Count(x, i)' = Count(x, i)
         /\ Sent(x, i)' = Sent(x, i)
         /\ Sent(x, i - 1)' = Sent(x, i - 1) + IF Slot(x, i) = e THEN 1 ELSE 0
  <2> SUFFICES ASSUME NEW x \in 1..Lanes, NEW i \in 1..Pipelines
               PROVE  /\ Accepted(x, i)' = Accepted(x, i)
                      /\ Swallowed(Slot(x, i))' = Swallowed(Slot(x, i))
                      /\ Count(x, i)' = Count(x, i)
                      /\ Sent(x, i)' = Sent(x, i)
                      /\ Sent(x, i - 1)' = Sent(x, i - 1) + IF Slot(x, i) = e THEN 1 ELSE 0
    OBVIOUS
  <2>1. Accepted(x, i)' = Accepted(x, i) /\ Swallowed(Slot(x, i))' = Swallowed(Slot(x, i))
    BY <1>1 DEF Accepted, Swallowed
  <2>2. Count(x, i)' = Count(x, i)
    BY <1>10, <2>1 DEF Count
  <2>3. \A j : j # 0 => Sent(x, j)' = Sent(x, j)
    BY <1>1 DEF Sent
  <2>4. Slot(x, i) = e <=> x = l /\ i = 1
    BY <1>8, Slots
  <2>5. Sent(x, i - 1) \in Nat
    BY <1>1, TokioCounts
  <2>6. Sent(x, i - 1)' = Sent(x, i - 1) + IF Slot(x, i) = e THEN 1 ELSE 0
    <3>1. CASE i = 1
      <4>1. Sent(x, i - 1) = FedTo(x) /\ Sent(x, i - 1)' = FedTo(x)'
        BY <3>1, SentCounts
      <4> QED
        BY <1>6, <2>4, <3>1, <4>1
    <3>2. CASE i # 1
      <4>1. i - 1 # 0
        BY <3>2
      <4>2. Sent(x, i - 1)' = Sent(x, i - 1)
        BY <2>3, <4>1
      <4> QED
        BY <2>4, <2>5, <3>2, <4>2
    <3> QED
      BY <3>1, <3>2
  <2>7. Sent(x, i)' = Sent(x, i)
    <3>1. i # 0
      OBVIOUS
    <3> QED
      BY <2>3, <3>1
  <2> QED
    BY <2>1, <2>2, <2>6, <2>7
<1>15. TokioHops'
  <2> SUFFICES ASSUME NEW x \in 1..Lanes, NEW i \in 1..Pipelines
               PROVE  /\ Accepted(x, i)' <= Sent(x, i - 1)'
                      /\ Open(Slot(x, i))' =>
                           Sent(x, i - 1)' = Accepted(x, i)' + CountData(queue'[Slot(x, i)])
                      /\ i < Pipelines =>
                           \/ Swallowed(Slot(x, i))' = 0
                           \/ /\ Sent(x, i)' = 0
                              /\ todo'[Slot(x, i)] = <<>>
                              /\ fwd'[Slot(x, i)].next_seq = 0
    BY DEF TokioHops
  <2>1. /\ Accepted(x, i) <= Sent(x, i - 1)
        /\ Open(Slot(x, i)) => Sent(x, i - 1) = Accepted(x, i) + CountData(queue[Slot(x, i)])
        /\ i < Pipelines =>
             \/ Swallowed(Slot(x, i)) = 0
             \/ /\ Sent(x, i) = 0
                /\ todo[Slot(x, i)] = <<>>
                /\ fwd[Slot(x, i)].next_seq = 0
    BY DEF TokioInv, TokioHops
  <2>2. /\ Accepted(x, i) \in Nat /\ Sent(x, i - 1) \in Nat
        /\ CountData(queue[Slot(x, i)]) \in Nat
        /\ Slot(x, i) \in Elements /\ Slot(x, i) \in Channels
    BY <1>1, TokioCounts, Slots
  <2>3. Accepted(x, i)' <= Sent(x, i - 1)'
    BY <1>14, <2>1, <2>2
  <2>4. Open(Slot(x, i))' => Sent(x, i - 1)' = Accepted(x, i)' + CountData(queue'[Slot(x, i)])
    <3>1. CASE Slot(x, i) = e
      BY <1>9, <1>10, <1>14, <2>1, <2>2, <3>1
    <3>2. CASE Slot(x, i) # e
      BY <1>9, <1>10, <1>14, <2>1, <2>2, <3>2
    <3> QED
      BY <3>1, <3>2
  <2> QED
    BY <1>1, <1>14, <2>1, <2>3, <2>4
<1>16. TokioOrder'
  <2> SUFFICES ASSUME NEW x \in 1..Lanes, NEW i \in 1..Pipelines, NEW j \in i..Pipelines
               PROVE  Accepted(x, i)' <= FedTo(x)' /\ Accepted(x, j)' <= Accepted(x, i)'
    BY DEF TokioOrder
  <2>1. j \in 1..Pipelines
    OBVIOUS
  <2>2. Accepted(x, i) <= FedTo(x) /\ Accepted(x, j) <= Accepted(x, i)
    BY DEF TokioInv, TokioOrder
  <2>3. Accepted(x, i) \in Nat /\ FedTo(x) \in Nat
    BY <1>1, TokioCounts
  <2> QED
    BY <1>6, <1>14, <2>1, <2>2, <2>3
<1>17. TokioNumbers'
  <2> SUFFICES ASSUME NEW x \in 1..Lanes, NEW i \in 1..(Pipelines - 1), i # 1 \/ ~Broken
               PROVE  /\ Open(Slot(x, i)) => NumberedFrom(queue'[Slot(x, i)], Count(x, i)')
                      /\ Swallowed(Slot(x, i))' = 0 /\ Count(x, i)' > 0 =>
                           fwd'[Slot(x, i)].next_seq = Count(x, i)'
    BY <1>10, Slots DEF TokioNumbers
  <2>1. i \in 1..Pipelines /\ Slot(x, i) \in Elements /\ Slot(x, i) \in Channels
    BY Slots
  <2>2. /\ Open(Slot(x, i)) => NumberedFrom(queue[Slot(x, i)], Count(x, i))
        /\ Swallowed(Slot(x, i)) = 0 /\ Count(x, i) > 0 =>
             fwd[Slot(x, i)].next_seq = Count(x, i)
    BY DEF TokioInv, TokioNumbers
  <2>3. Open(Slot(x, i)) => NumberedFrom(queue'[Slot(x, i)], Count(x, i))
    <3>1. CASE Slot(x, i) = e
      <4>1. x = l /\ i = 1
        BY <1>8, <3>1, Slots
      <4>2. Count(x, i) \in Int
        BY <2>1, CountNat
      <4> QED
        BY <1>7, <1>9, <2>2, <3>1, <4>1, <4>2
    <3>2. CASE Slot(x, i) # e
      BY <1>9, <2>1, <2>2, <3>2
    <3> QED
      BY <3>1, <3>2
  <2> QED
    BY <1>1, <1>14, <2>1, <2>2, <2>3
<1>18. TokioPanics'
  BY <1>1, <1>14 DEF TokioInv, TokioPanics
<1>19. TokioRuns'
  <2> SUFFICES ASSUME ~Broken
               PROVE  /\ \A j \in 1..Iterations :
                           j < iteration \/ (j = iteration /\ phase # "waiting") =>
                             fed'[j] = Messages * Lanes
                      /\ \A x \in 1..Lanes :
                           FedTo(x)' = Done + IF phase = "waiting" THEN Share(fed'[iteration], x) ELSE 0
    BY <1>1, <1>10 DEF TokioRuns
  <2>1. /\ \A j \in 1..Iterations :
             j < iteration \/ (j = iteration /\ phase # "waiting") => fed[j] = Messages * Lanes
        /\ \A x \in 1..Lanes :
             FedTo(x) = Done + IF phase = "waiting" THEN Share(fed[iteration], x) ELSE 0
    BY DEF TokioInv, TokioRuns
  <2>2. k = iteration /\ phase = "waiting"
    <3>1. fed[k] # Messages * Lanes
      BY <1>1, <1>2
    <3> QED
      BY <1>1, <2>1, <3>1
  <2>3. fed'[k] = fed[k] + 1 /\ \A j \in 1..Iterations : j # k => fed'[j] = fed[j]
    BY <1>1, <1>2
  <2>4. ASSUME NEW x \in 1..Lanes
        PROVE  FedTo(x)' = Done + Share(fed'[iteration], x)
    <3>1. /\ Share(fed[k] + 1, x) = Share(fed[k], x) + IF x = l THEN 1 ELSE 0
          /\ Share(fed[k], x) \in Nat
      BY <1>2, <1>8, Shares
    <3>2. FedTo(x) = Done + Share(fed[k], x)
      BY <2>1, <2>2
    <3> QED
      BY <1>1, <1>6, <2>2, <2>3, <3>1, <3>2
  <2> QED
    BY <1>1, <2>1, <2>2, <2>3, <2>4
<1>20. TokioNotices'
  <2>1. queue'[Concentrator] = queue[Concentrator] /\ queue'[Notifier] = queue[Notifier]
    BY <1>4, <1>9, Names
  <2> QED
    BY <1>1, <1>10, <2>1, NoticesFrame
<1> QED
  BY <1>11, <1>12, <1>13, <1>15, <1>16, <1>17, <1>18, <1>19, <1>20 DEF TokioInv

-----------------------------------------------------------------------------
(* Configuration reaches an element, maybe behind data.                    *)

\* A forwarder that accepted data before its configuration learns the same.
LEMMA Overtaken ==
  ASSUME NEW f \in Forwarders,
         f.senders = <<>>, f.notify_sender = None, f.notify_count = 0,
         f.send_count = 0, f.next_seq = 0, NEW m \in Message,
         handle_config(new, m) \in Forwarders
  PROVE  LET g == handle_config(f, m)
             h == handle_config(new, m)
         IN  /\ g \in Forwarders
             /\ g.received_count = f.received_count
             /\ g.send_count = h.send_count /\ g.next_seq = h.next_seq
             /\ g.senders = h.senders
             /\ g.notify_sender = h.notify_sender /\ g.notify_count = h.notify_count
<1> DEFINE g == handle_config(f, m)
           h == handle_config(new, m)
<1>1. CASE m.tag = "Notify"
  <2>1. g = [f EXCEPT !.notify_sender = m.to, !.notify_count = m.n]
    BY <1>1 DEF handle_config
  <2>2. h = [new EXCEPT !.notify_sender = m.to, !.notify_count = m.n]
    BY <1>1 DEF handle_config
  <2>3. /\ h.senders = <<>> /\ h.send_count = 0 /\ h.next_seq = 0
        /\ h.notify_sender = m.to /\ h.notify_count = m.n
    BY <2>2 DEF new
  <2>4. /\ g.senders = f.senders /\ g.send_count = f.send_count /\ g.next_seq = f.next_seq
        /\ g.notify_sender = m.to /\ g.notify_count = m.n /\ g.received_count = f.received_count
    BY <2>1 DEF Forwarders
  <2>5. m.to \in {Concentrator, Notifier, None} /\ m.n \in Nat
    BY <2>3 DEF Forwarders
  <2>6. g \in Forwarders
    BY <2>1, <2>5 DEF Forwarders
  <2> QED
    BY <2>3, <2>4, <2>6
<1>2. CASE m.tag # "Notify"
  <2>1. g = [f EXCEPT !.senders = Append(<<>>, m.to)]
    BY <1>2 DEF handle_config
  <2>2. h = [new EXCEPT !.senders = Append(<<>>, m.to)]
    BY <1>2 DEF handle_config, new
  <2>3. /\ h.senders = Append(<<>>, m.to) /\ h.send_count = 0 /\ h.next_seq = 0
        /\ h.notify_sender = None /\ h.notify_count = 0
    BY <2>2 DEF new
  <2>4. /\ g.senders = Append(<<>>, m.to) /\ g.send_count = f.send_count
        /\ g.next_seq = f.next_seq /\ g.received_count = f.received_count
        /\ g.notify_sender = f.notify_sender /\ g.notify_count = f.notify_count
    BY <2>1 DEF Forwarders
  <2>5. Append(<<>>, m.to) \in Seq(LaneElements)
    BY <2>3 DEF Forwarders
  <2>6. g \in Forwarders
    BY <2>1, <2>5 DEF Forwarders
  <2> QED
    BY <2>3, <2>4, <2>6
<1> QED
  BY <1>1, <1>2

\* An element handles its configuration.
LEMMA TokioReceiveConfigInv ==
  ASSUME TokioInv, NEW e \in Elements, ReceiveConfig(e, {e}),
         UNCHANGED <<phase, iteration, lane, id, spawned, fed>>
  PROVE  TokioInv'
<1> USE PipelineAssumption, DriverAssumption
<1>1. /\ TokioTypes /\ TokioControl /\ Types /\ Control
      /\ UNCHANGED <<pc, todo, delivered, phase, iteration, lane, id, spawned, fed>>
      /\ pc[e] = "recv" /\ queue[e] # <<>> /\ is_config(Head(queue[e]))
      /\ queue' = [queue EXCEPT ![e] = Tail(queue[e])]
      /\ fwd' = [fwd EXCEPT ![e] = handle_config(fwd[e], Head(queue[e]))]
  BY DEF TokioInv, TokioTypes, TokioControl, ReceiveConfig, Receiving, TakeHead
<1>2. e \in Channels /\ e # Notifier /\ queue[e] \in Seq(Message) /\ Open(e) /\ fwd[e] \in Forwarders
  BY <1>1, Names DEF Types, Open
<1>3. OnlyConfig(queue[e], ConfigOf(e))
  BY DEF TokioInv, TokioConfiguration
<1>4. /\ queue'[e] = Tail(queue[e])
      /\ \A c \in Channels : c # e => queue'[c] = queue[c]
      /\ fwd'[e] = handle_config(fwd[e], Head(queue[e]))
      /\ \A x \in Elements : x # e => fwd'[x] = fwd[x]
  BY <1>1, <1>2 DEF Types
<1>5. /\ queue'[e] \in Seq(Message)
      /\ Len(queue'[e]) = Len(queue[e]) - 1
      /\ Head(queue[e]) = ConfigOf(e)
      /\ Configures(queue[e]) /\ ~Configures(queue'[e]) /\ \A x : OnlyConfig(queue'[e], x)
      /\ CountData(queue'[e]) = CountData(queue[e])
      /\ \A a \in Int : NumberedFrom(queue[e], a) => NumberedFrom(queue'[e], a)
  BY <1>1, <1>2, <1>3, <1>4, HandleFirst
<1>6. Awaits(e) /\ Unconfigured(e) /\ ConfigSent(e) /\ Job(e) \notin spawned
  <2>1. Awaits(e)
    BY <1>5 DEF Awaits
  <2> QED
    BY <1>5, <2>1 DEF TokioInv, TokioConfiguration
<1>7. ConfigOf(e) \in Message
  BY ConfigOfType
<1>8. /\ fwd'[e] \in Forwarders
      /\ fwd'[e].received_count = fwd[e].received_count
      /\ fwd'[e].send_count = 0 /\ fwd'[e].next_seq = 0
      /\ fwd'[e].senders = IF e = Concentrator \/ e[2] = Pipelines THEN <<>> ELSE <<After(e)>>
      /\ fwd'[e].notify_sender = CASE e = Concentrator -> Notifier
                                   [] e # Concentrator /\ e[2] = Pipelines -> Concentrator
                                   [] OTHER -> None
      /\ fwd'[e].notify_count = CASE e = Concentrator -> Lanes
                                  [] e # Concentrator /\ e[2] = Pipelines -> Messages
                                  [] OTHER -> 0
  <2> DEFINE g == handle_config(fwd[e], ConfigOf(e))
             h == handle_config(new, ConfigOf(e))
  <2>1. /\ h \in Forwarders
        /\ h.received_count = 0 /\ h.send_count = 0 /\ h.next_seq = 0
        /\ h.senders = IF e = Concentrator \/ e[2] = Pipelines THEN <<>> ELSE <<After(e)>>
        /\ h.notify_sender = CASE e = Concentrator -> Notifier
                               [] e # Concentrator /\ e[2] = Pipelines -> Concentrator
                               [] OTHER -> None
        /\ h.notify_count = CASE e = Concentrator -> Lanes
                              [] e # Concentrator /\ e[2] = Pipelines -> Messages
                              [] OTHER -> 0
    BY ConfigureForwarder
  <2>2. fwd'[e] = g
    BY <1>4, <1>5
  <2>3. /\ g \in Forwarders
        /\ g.received_count = fwd[e].received_count
        /\ g.send_count = h.send_count /\ g.next_seq = h.next_seq
        /\ g.senders = h.senders
        /\ g.notify_sender = h.notify_sender /\ g.notify_count = h.notify_count
    BY <1>2, <1>6, <1>7, <2>1, Overtaken DEF Unconfigured
  <2> HIDE DEF g, h
  <2> QED
    BY <2>1, <2>2, <2>3
<1>9. /\ \A x \in Elements : /\ Open(x)' <=> Open(x)
                             /\ ConfigSent(x)' <=> ConfigSent(x)
      /\ Done' = Done
  BY <1>1 DEF Open, ConfigSent, Done
<1>10. \A x \in Elements :
         /\ CountData(queue'[x]) = CountData(queue[x])
         /\ \A a \in Int : NumberedFrom(queue[x], a) => NumberedFrom(queue'[x], a)
         /\ fwd'[x].received_count = fwd[x].received_count
         /\ fwd'[x].send_count = fwd[x].send_count
         /\ fwd'[x].next_seq = fwd[x].next_seq
  <2> SUFFICES ASSUME NEW x \in Elements
               PROVE  /\ CountData(queue'[x]) = CountData(queue[x])
                      /\ \A a \in Int : NumberedFrom(queue[x], a) => NumberedFrom(queue'[x], a)
                      /\ fwd'[x].received_count = fwd[x].received_count
                      /\ fwd'[x].send_count = fwd[x].send_count
                      /\ fwd'[x].next_seq = fwd[x].next_seq
    OBVIOUS
  <2>1. CASE x = e
    BY <1>5, <1>6, <1>8, <2>1 DEF Unconfigured
  <2>2. CASE x # e
    BY <1>4, <2>2, Names
  <2> QED
    BY <2>1, <2>2
<1>11. queue'[Notifier] = queue[Notifier]
  BY <1>2, <1>4, Names
<1>12. /\ TokioHops' /\ TokioOrder' /\ TokioNumbers' /\ TokioPanics' /\ TokioNotices'
       /\ Broken' <=> Broken
       /\ \A l : FedTo(l)' = FedTo(l)
  BY <1>1, <1>9, <1>10, <1>11, LanesFrame
<1>13. TokioRuns'
  BY <1>1, <1>9, <1>12, RunsFrame
<1>14. TokioLifetimes'
  BY <1>1, <1>9, LifetimesFrame DEF TokioInv, TokioLifetimes, Created
<1>15. TokioActions'
  <2> SUFFICES ASSUME NEW x \in Elements
               PROVE  /\ todo'[x] # <<>> => pc'[x] = "action" /\ todo'[x] = fwd'[x].senders
                      /\ pc'[x] = "action" => fwd'[x].received_count >= 1
    BY DEF TokioActions
  <2>1. /\ todo[x] # <<>> => pc[x] = "action" /\ todo[x] = fwd[x].senders
        /\ pc[x] = "action" => fwd[x].received_count >= 1
    BY DEF TokioInv, TokioActions
  <2> QED
    BY <1>1, <1>4, <1>10, <2>1
<1>16. TokioConfiguration'
  <2>1. \A x : Job(x)' = Job(x) /\ ConfigOf(x)' = ConfigOf(x)
    BY DEF Job, ConfigOf, After
  <2>2. \A s \in spawned' : s = Job(s.to)'
    BY <1>1, <2>1 DEF TokioInv, TokioConfiguration
  <2>3. ASSUME NEW x \in Elements
        PROVE  /\ ~Open(x)' => queue'[x] = <<>> /\ ~Awaits(x)'
               /\ Job(x)' \in spawned' => ConfigSent(x)'
               /\ Job(x)' \in spawned' \/ ~ConfigSent(x)' => ~Configures(queue'[x])
               /\ OnlyConfig(queue'[x], ConfigOf(x)')
               /\ IF Awaits(x)' THEN Unconfigured(x)' ELSE Configured(x)'
    <3>1. /\ ~Open(x) => queue[x] = <<>> /\ ~Awaits(x)
          /\ Job(x) \in spawned => ConfigSent(x)
          /\ Job(x) \in spawned \/ ~ConfigSent(x) => ~Configures(queue[x])
          /\ OnlyConfig(queue[x], ConfigOf(x))
          /\ IF Awaits(x) THEN Unconfigured(x) ELSE Configured(x)
      BY DEF TokioInv, TokioConfiguration
    <3>2. CASE x = e
      <4>1. ~Awaits(x)'
        BY <1>1, <1>5, <1>6, <1>9, <2>1, <3>2 DEF Awaits
      <4>2. Configured(x)'
        BY <1>8, <3>2 DEF Configured, After
      <4> QED
        BY <1>1, <1>2, <1>5, <1>6, <1>9, <2>1, <3>2, <4>1, <4>2
    <3>3. CASE x # e
      <4>1. queue'[x] = queue[x] /\ fwd'[x] = fwd[x]
        BY <1>4, <3>3, Names
      <4>2. Awaits(x)' <=> Awaits(x)
        BY <1>1, <1>9, <2>1, <4>1 DEF Awaits
      <4>3. (Unconfigured(x)' <=> Unconfigured(x)) /\ (Configured(x)' <=> Configured(x))
        BY <4>1 DEF Unconfigured, Configured
      <4> QED
        BY <1>1, <1>9, <2>1, <3>1, <4>1, <4>2, <4>3
    <3> QED
      BY <3>2, <3>3
  <2> QED
    BY <1>11, <2>2, <2>3 DEF TokioInv, TokioConfiguration
<1>17. TokioTypes' /\ TokioControl'
  <2>1. queue' \in [Channels -> Seq(Message)]
    BY <1>1, <1>4, <1>5 DEF Types
  <2>2. \A c \in Channels : Len(queue'[c]) <= Cap
    <3>1. Len(queue[e]) \in Nat /\ Len(queue[e]) <= Cap
      BY <1>1, <1>2, LenProperties DEF Types
    <3> QED
      BY <1>1, <1>4, <1>5, <3>1 DEF Types
  <2>3. fwd' \in [Elements -> Forwarders]
    BY <1>1, <1>4, <1>8 DEF Types
  <2>4. Types' /\ Control'
    BY <1>1, <2>1, <2>2, <2>3 DEF Types, Control
  <2> QED
    BY <1>1, <2>4 DEF TokioTypes, TokioControl
<1> QED
  BY <1>12, <1>13, <1>14, <1>15, <1>16, <1>17 DEF TokioInv

-----------------------------------------------------------------------------
(* An element accepts data.                                                *)

\* What every element does that accepts a message.
LEMMA TokioReceiveDataFacts ==
  ASSUME TokioInv, NEW e \in Elements, ReceiveData(e, {e}),
         UNCHANGED <<phase, iteration, lane, id, spawned, fed>>
  PROVE  LET f == fwd[e]
             g == fwd'[e]
             m == Head(queue[e])
         IN
         /\ TokioTypes' /\ TokioControl' /\ TokioLifetimes' /\ TokioConfiguration' /\ TokioActions'
         /\ Open(e) /\ pc[e] = "recv" /\ todo[e] = <<>>
         /\ f \in Forwarders /\ m \in Message /\ in_sequence(f, m)
         /\ CountData(queue[e]) \in Nat /\ CountData(queue[e]) >= 1
         /\ CountData(queue'[e]) = CountData(queue[e]) - 1
         /\ \A a \in Int : NumberedFrom(queue[e], a) => m.n = a /\ NumberedFrom(queue'[e], a + 1)
         /\ \A c \in Channels : c # e => queue'[c] = queue[c]
         /\ g.received_count = f.received_count + 1 /\ g.send_count = f.send_count
         /\ f.senders = <<>> => g.next_seq = f.next_seq
         /\ f.senders # <<>> => g.next_seq = IF m.n = f.next_seq THEN f.next_seq + 1 ELSE 1
         /\ \A x \in Elements : x # e => fwd'[x] = fwd[x]
         /\ todo'[e] = f.senders
         /\ \A x \in Elements : x # e => todo'[x] = todo[x]
         /\ \A l \in 1..Lanes : delivered'[l] = delivered[l] + IF e = Last(l) THEN 1 ELSE 0
         /\ (\A l \in 1..Lanes : e # Last(l)) => delivered' = delivered
         /\ \A x \in Elements : /\ Open(x)' <=> Open(x)
                                /\ pc'[x] = "panicked" <=> pc[x] = "panicked"
         /\ Done' = Done /\ (Broken' <=> Broken) /\ \A l : FedTo(l)' = FedTo(l)
<1> USE PipelineAssumption, DriverAssumption
<1>1. /\ TokioTypes /\ TokioControl /\ Types /\ Control
      /\ UNCHANGED <<phase, iteration, lane, id, spawned, fed>>
      /\ pc[e] = "recv" /\ queue[e] # <<>> /\ ~is_config(Head(queue[e]))
      /\ in_sequence(fwd[e], Head(queue[e]))
      /\ queue' = [queue EXCEPT ![e] = Tail(queue[e])]
      /\ fwd' = [fwd EXCEPT ![e] = validate_sequence(fwd[e], Head(queue[e]))]
      /\ pc' = [pc EXCEPT ![e] = "action"]
      /\ todo' = [todo EXCEPT ![e] = fwd[e].senders]
      /\ delivered' = [l \in 1..Lanes |-> delivered[l] + IF e = <<l, Pipelines>> THEN 1 ELSE 0]
  BY DEF TokioInv, TokioTypes, TokioControl, ReceiveData, Receiving, TakeHead
<1>2. /\ e \in Channels /\ e # Notifier /\ queue[e] \in Seq(Message) /\ Open(e)
      /\ fwd[e] \in Forwarders
  BY <1>1, Names DEF Types, Open
<1>3. /\ queue'[e] = Tail(queue[e])
      /\ \A c \in Channels : c # e => queue'[c] = queue[c]
      /\ fwd'[e] = validate_sequence(fwd[e], Head(queue[e]))
      /\ \A x \in Elements : x # e => fwd'[x] = fwd[x]
      /\ pc'[e] = "action" /\ \A c \in Channels : c # e => pc'[c] = pc[c]
      /\ todo'[e] = fwd[e].senders
      /\ \A x \in Elements : x # e => todo'[x] = todo[x]
  BY <1>1, <1>2 DEF Types
<1>4. /\ queue'[e] \in Seq(Message)
      /\ Len(queue'[e]) = Len(queue[e]) - 1
      /\ Head(queue[e]) \in Message
      /\ Configures(queue'[e]) <=> Configures(queue[e])
      /\ \A m : OnlyConfig(queue[e], m) => OnlyConfig(queue'[e], m)
      /\ CountData(queue[e]) >= 1 /\ CountData(queue'[e]) = CountData(queue[e]) - 1
      /\ \A a \in Int : NumberedFrom(queue[e], a) =>
                          Head(queue[e]).n = a /\ NumberedFrom(queue'[e], a + 1)
  <2> DEFINE q == queue[e]
  <2>1. q \in Seq(Message) /\ q # <<>> /\ ~is_config(Head(q)) /\ queue'[e] = Tail(q)
    BY <1>1, <1>2, <1>3
  <2> HIDE DEF q
  <2>2. /\ Tail(q) \in Seq(Message)
        /\ Len(Tail(q)) = Len(q) - 1
        /\ Head(q) \in Message
        /\ Configures(Tail(q)) <=> Configures(q)
        /\ \A m : OnlyConfig(q, m) => OnlyConfig(Tail(q), m)
        /\ CountData(q) >= 1 /\ CountData(Tail(q)) = CountData(q) - 1
        /\ \A a \in Int : NumberedFrom(q, a) => Head(q).n = a /\ NumberedFrom(Tail(q), a + 1)
    BY <2>1, TakeFirst
  <2> QED
    BY <2>1, <2>2, Zenon DEF q
<1>5. CountData(queue[e]) \in Nat
  BY <1>2, CountDataType
<1>6. /\ fwd'[e] \in Forwarders
      /\ fwd'[e].received_count = fwd[e].received_count + 1
      /\ fwd'[e].send_count = fwd[e].send_count
      /\ fwd'[e].senders = fwd[e].senders
      /\ fwd'[e].notify_sender = fwd[e].notify_sender
      /\ fwd'[e].notify_count = fwd[e].notify_count
      /\ fwd[e].senders = <<>> => fwd'[e].next_seq = fwd[e].next_seq
      /\ fwd[e].senders # <<>> =>
           fwd'[e].next_seq = IF Head(queue[e]).n = fwd[e].next_seq
                                THEN fwd[e].next_seq + 1 ELSE 1
  <2> DEFINE f == fwd[e]
             m == Head(queue[e])
             g == validate_sequence(f, m)
  <2>1. f \in Forwarders /\ m \in Message /\ fwd'[e] = g
    BY <1>2, <1>3, <1>4
  <2> HIDE DEF f, m
  <2>2. /\ g \in Forwarders
        /\ g.received_count = f.received_count + 1 /\ g.send_count = f.send_count
        /\ g.senders = f.senders
        /\ g.notify_sender = f.notify_sender /\ g.notify_count = f.notify_count
        /\ f.senders = <<>> => g.next_seq = f.next_seq
        /\ f.senders # <<>> => g.next_seq = IF m.n = f.next_seq THEN f.next_seq + 1 ELSE 1
    BY <2>1, ValidateSequence
  <2> HIDE DEF g
  <2> QED
    BY <2>1, <2>2 DEF f, m
<1>7. todo[e] = <<>>
  BY <1>1 DEF TokioInv, TokioActions
<1>8. /\ \A l \in 1..Lanes : delivered'[l] = delivered[l] + IF e = Last(l) THEN 1 ELSE 0
      /\ delivered' \in [1..Lanes -> Nat]
      /\ (\A l \in 1..Lanes : e # Last(l)) => delivered' = delivered
  <2>1. delivered \in [1..Lanes -> Nat] /\ \A l \in 1..Lanes : delivered[l] \in Nat
    BY <1>1 DEF Types
  <2>2. \A l \in 1..Lanes : delivered'[l] = delivered[l] + IF e = Last(l) THEN 1 ELSE 0
    BY <1>1 DEF Last, Slot
  <2>3. delivered' \in [1..Lanes -> Nat]
    BY <1>1, <2>1
  <2>4. ASSUME \A l \in 1..Lanes : e # Last(l)
        PROVE  delivered' = delivered
    <3>1. \A l \in 1..Lanes : delivered'[l] = delivered[l]
      BY <2>1, <2>2, <2>4
    <3>2. /\ delivered = [l \in 1..Lanes |-> delivered[l]]
          /\ delivered' = [l \in 1..Lanes |-> delivered'[l]]
      BY <2>1, <2>3
    <3> QED
      BY <3>1, <3>2, Zenon
  <2> QED
    BY <2>2, <2>3, <2>4
<1>9. /\ \A x \in Elements : /\ Open(x)' <=> Open(x)
                             /\ ConfigSent(x)' <=> ConfigSent(x)
                             /\ pc'[x] = "panicked" <=> pc[x] = "panicked"
      /\ Done' = Done
  <2>1. \A x \in Elements : /\ Open(x)' <=> Open(x)
                            /\ pc'[x] = "panicked" <=> pc[x] = "panicked"
    BY <1>1, <1>2, <1>3, Names DEF Open
  <2> QED
    BY <1>1, <2>1 DEF ConfigSent, Done
<1>10. Broken' <=> Broken
  <2>1. \A l \in 1..Lanes : \A i \in 1..Pipelines :
          pc'[Slot(l, i)] = "panicked" <=> pc[Slot(l, i)] = "panicked"
    BY <1>9, Slots
  <2> QED
    BY <2>1 DEF Broken, Panicked
<1>11. \A l : FedTo(l)' = FedTo(l)
  BY <1>1 DEF FedTo, FedInto
<1>12. TokioLifetimes'
  <2>1. \A x \in Elements : ~Created(x)' => pc'[x] = "unborn"
    <3>1. \A x \in Elements : Created(x)' <=> Created(x)
      BY <1>1 DEF Created
    <3>2. \A x \in Elements : ~Created(x) => pc[x] = "unborn" /\ x # e
      BY <1>1 DEF TokioInv, TokioLifetimes
    <3> QED
      BY <1>3, <3>1, <3>2, Names
  <2>2. pc'[Notifier] = pc[Notifier]
    BY <1>2, <1>3, Names
  <2> QED
    BY <1>1, <1>9, <2>1, <2>2, LifetimesFrame DEF TokioInv, TokioLifetimes
<1>13. TokioConfiguration'
  <2>1. ASSUME NEW x \in Elements
        PROVE  /\ ~Open(x) => queue'[x] = queue[x]
               /\ Configures(queue'[x]) <=> Configures(queue[x])
               /\ OnlyConfig(queue[x], ConfigOf(x)) => OnlyConfig(queue'[x], ConfigOf(x))
               /\ fwd'[x].senders = fwd[x].senders
               /\ fwd'[x].notify_sender = fwd[x].notify_sender
               /\ fwd'[x].notify_count = fwd[x].notify_count
               /\ Unconfigured(x) => fwd'[x].send_count = 0 /\ fwd'[x].next_seq = 0
    <3>1. CASE x = e
      BY <1>2, <1>4, <1>6, <3>1 DEF Unconfigured
    <3>2. CASE x # e
      BY <1>3, <3>2, Names DEF Unconfigured
    <3> QED
      BY <3>1, <3>2
  <2>2. ~Configures(queue'[Notifier])
    BY <1>2, <1>3, Names DEF TokioInv, TokioConfiguration
  <2> QED
    BY <1>1, <1>9, <2>1, <2>2, ConfigurationFrame
<1>14. TokioActions'
  <2> SUFFICES ASSUME NEW x \in Elements
               PROVE  /\ todo'[x] # <<>> => pc'[x] = "action" /\ todo'[x] = fwd'[x].senders
                      /\ pc'[x] = "action" => fwd'[x].received_count >= 1
    BY DEF TokioActions
  <2>1. CASE x = e
    <3>1. fwd[e].received_count \in Nat
      BY <1>2 DEF Forwarders
    <3> QED
      BY <1>3, <1>6, <2>1, <3>1
  <2>2. CASE x # e
    BY <1>3, <2>2, Names DEF TokioInv, TokioActions
  <2> QED
    BY <2>1, <2>2
<1>15. TokioTypes' /\ TokioControl'
  <2>1. queue' \in [Channels -> Seq(Message)]
    BY <1>1, <1>3, <1>4 DEF Types
  <2>2. \A c \in Channels : Len(queue'[c]) <= Cap
    <3>1. Len(queue[e]) \in Nat /\ Len(queue[e]) <= Cap
      BY <1>1, <1>2, LenProperties DEF Types
    <3> QED
      BY <1>1, <1>3, <1>4, <3>1 DEF Types
  <2>3. fwd' \in [Elements -> Forwarders]
    BY <1>1, <1>3, <1>6 DEF Types
  <2>4. todo' \in [Elements -> Seq(LaneElements)]
    <3>1. fwd[e].senders \in Seq(LaneElements)
      BY <1>2 DEF Forwarders
    <3> QED
      BY <1>1, <3>1 DEF Types
  <2>5. pc' \in [Channels -> {"unborn", "recv", "action", "exited", "panicked"}]
    BY <1>1 DEF Types
  <2>6. Types' /\ Control'
    BY <1>1, <1>8, <2>1, <2>2, <2>3, <2>4, <2>5 DEF Types, Control
  <2> QED
    BY <1>1, <2>6 DEF TokioTypes, TokioControl
<1> QED
  BY <1>1, <1>2, <1>3, <1>4, <1>5, <1>6, <1>7, <1>8, <1>9, <1>10, <1>11, <1>12, <1>13, <1>14, <1>15

\* The concentrator counts a lane.
LEMMA TokioCountLaneInv ==
  ASSUME TokioInv, ReceiveData(Concentrator, {Concentrator}),
         UNCHANGED <<phase, iteration, lane, id, spawned, fed>>
  PROVE  TokioInv'
<1>1. Concentrator \in Elements /\ \A l \in 1..Lanes : Concentrator # Last(l)
  BY Names, Slots
<1>2. /\ TokioTypes' /\ TokioControl' /\ TokioLifetimes' /\ TokioConfiguration' /\ TokioActions'
      /\ Open(Concentrator) /\ todo[Concentrator] = <<>>
      /\ fwd[Concentrator] \in Forwarders
      /\ CountData(queue[Concentrator]) \in Nat /\ CountData(queue[Concentrator]) >= 1
      /\ CountData(queue'[Concentrator]) = CountData(queue[Concentrator]) - 1
      /\ \A c \in Channels : c # Concentrator => queue'[c] = queue[c]
      /\ fwd'[Concentrator].received_count = fwd[Concentrator].received_count + 1
      /\ \A x \in Elements : x # Concentrator => fwd'[x] = fwd[x]
      /\ \A x \in Elements : x # Concentrator => todo'[x] = todo[x]
      /\ delivered' = delivered
      /\ \A x \in Elements : /\ Open(x)' <=> Open(x)
                             /\ pc'[x] = "panicked" <=> pc[x] = "panicked"
      /\ Done' = Done /\ (Broken' <=> Broken) /\ \A l : FedTo(l)' = FedTo(l)
  BY <1>1, TokioReceiveDataFacts
<1>3. \A l \in 1..Lanes : \A i \in 1..Pipelines :
        /\ queue'[Slot(l, i)] = queue[Slot(l, i)]
        /\ fwd'[Slot(l, i)] = fwd[Slot(l, i)]
        /\ todo'[Slot(l, i)] = todo[Slot(l, i)]
        /\ Open(Slot(l, i))' <=> Open(Slot(l, i))
        /\ pc'[Slot(l, i)] = "panicked" <=> pc[Slot(l, i)] = "panicked"
  BY <1>2, Slots
<1>4. TokioHops' /\ TokioOrder' /\ TokioNumbers' /\ TokioPanics'
  BY <1>2, <1>3, SlotsFrame
<1>5. TokioRuns'
  BY <1>2, RunsFrame
<1>6. TokioNotices'
  <2>1. \A l \in 1..Lanes : fwd'[Last(l)] = fwd[Last(l)]
    BY <1>3, Slots
  <2>2. (\A l \in 1..Lanes : Notified(l)' <=> Notified(l)) /\ NotifiedLanes' = NotifiedLanes
    BY <1>2, <2>1 DEF Notified, NotifiedLanes, Last
  <2>3. \A l \in 1..Lanes :
          IF Broken' THEN fwd'[Last(l)].received_count = 0
          ELSE /\ Done' <= delivered'[l]
               /\ \/ Notified(l)'
                  \/ fwd'[Last(l)].received_count = delivered'[l] - Done'
    BY <1>2, <2>1, <2>2 DEF TokioInv, TokioNotices
  <2>4. fwd[Concentrator].received_count \in Nat
    BY <1>2 DEF Forwarders
  <2>5. /\ queue[Notifier] = <<>>
        /\ fwd[Concentrator].received_count + CountData(queue[Concentrator])
             = Cardinality(NotifiedLanes)
    <3>1. CountData(queue[Concentrator]) # 0
      BY <1>2
    <3> QED
      BY <3>1 DEF TokioInv, TokioNotices
  <2>6. queue'[Notifier] = <<>>
    BY <1>2, <2>5, Names
  <2>7. fwd'[Concentrator].received_count + CountData(queue'[Concentrator])
          = Cardinality(NotifiedLanes')
    BY <1>2, <2>2, <2>4, <2>5
  <2> QED
    BY <2>3, <2>6, <2>7 DEF TokioNotices, Last
<1> QED
  BY <1>2, <1>4, <1>5, <1>6 DEF TokioInv

\* What the elements of a lane accepted, other than one of them, they accepted
\* before; and an element accepts what was sent to it, in the order of the lane.
LEMMA AcceptCounts ==
  ASSUME TokioInv, NEW l \in 1..Lanes, NEW i \in 1..Pipelines, ReceiveData(Slot(l, i), {Slot(l, i)}),
         UNCHANGED <<phase, iteration, lane, id, spawned, fed>>
  PROVE  /\ \A x \in 1..Lanes : \A j \in 1..Pipelines :
              /\ Accepted(x, j)' = Accepted(x, j) + IF x = l /\ j = i THEN 1 ELSE 0
              /\ Sent(x, j - 1)' = Sent(x, j - 1)
              /\ j # Pipelines => Sent(x, j)' = Sent(x, j)
              /\ j # Pipelines /\ ~(x = l /\ j = i) =>
                   Swallowed(Slot(x, j))' = Swallowed(Slot(x, j))
         /\ Accepted(l, i) + 1 <= Sent(l, i - 1)
         /\ TokioOrder'
<1> USE PipelineAssumption
<1> DEFINE e == Slot(l, i)
<1>1. TokioTypes /\ e \in Elements
  BY Slots DEF TokioInv
<1>2. /\ Open(e)
      /\ CountData(queue[e]) \in Nat /\ CountData(queue[e]) >= 1
      /\ fwd'[e].received_count = fwd[e].received_count + 1
      /\ fwd'[e].send_count = fwd[e].send_count
      /\ \A x \in Elements : x # e => fwd'[x] = fwd[x]
      /\ \A x \in Elements : x # e => todo'[x] = todo[x]
      /\ \A x \in 1..Lanes : delivered'[x] = delivered[x] + IF e = Last(x) THEN 1 ELSE 0
      /\ \A x : FedTo(x)' = FedTo(x)
  BY <1>1, TokioReceiveDataFacts
<1>3. \A x \in 1..Lanes : \A j \in 1..Pipelines :
        /\ Slot(x, j) \in Elements
        /\ Slot(x, j) = e <=> x = l /\ j = i
        /\ Last(x) = e <=> x = l /\ i = Pipelines
  BY Slots
<1> HIDE DEF e
<1>4. ASSUME NEW x \in 1..Lanes, NEW j \in 1..Pipelines
      PROVE  /\ Accepted(x, j)' = Accepted(x, j) + IF x = l /\ j = i THEN 1 ELSE 0
             /\ j # Pipelines => Sent(x, j)' = Sent(x, j)
             /\ j # Pipelines /\ ~(x = l /\ j = i) =>
                  Swallowed(Slot(x, j))' = Swallowed(Slot(x, j))
  <2>1. Accepted(x, j) \in Nat /\ Accepted(x, Pipelines) = delivered[x]
    BY <1>1, TokioCounts
  <2>2. Accepted(x, j)' = Accepted(x, j) + IF x = l /\ j = i THEN 1 ELSE 0
    <3>1. CASE j = Pipelines
      <4>1. Accepted(x, j) = delivered[x] /\ Accepted(x, j)' = delivered'[x]
        BY <3>1, SlotCounts
      <4> QED
        BY <1>2, <1>3, <3>1, <4>1
    <3>2. CASE j # Pipelines
      <4>1. /\ Accepted(x, j) = fwd[Slot(x, j)].received_count
            /\ Accepted(x, j)' = fwd'[Slot(x, j)].received_count
        BY <3>2, SlotCounts
      <4>2. CASE Slot(x, j) = e
        BY <1>2, <1>3, <4>1, <4>2
      <4>3. CASE Slot(x, j) # e
        <5>1. fwd'[Slot(x, j)] = fwd[Slot(x, j)]
          BY <1>2, <1>3, <4>3
        <5>2. ~(x = l /\ j = i)
          BY <1>3, <4>3
        <5> QED
          BY <2>1, <4>1, <5>1, <5>2
      <4> QED
        BY <4>2, <4>3
    <3> QED
      BY <3>1, <3>2
  <2>3. j # Pipelines => Sent(x, j)' = Sent(x, j)
    <3>1. Sent(x, j) = fwd[Slot(x, j)].send_count /\ Sent(x, j)' = fwd'[Slot(x, j)].send_count
      BY SentCounts
    <3> QED
      BY <1>2, <1>3, <3>1
  <2>4. j # Pipelines /\ ~(x = l /\ j = i) => Swallowed(Slot(x, j))' = Swallowed(Slot(x, j))
    BY <1>2, <1>3 DEF Swallowed
  <2> QED
    BY <2>2, <2>3, <2>4
<1>5. ASSUME NEW x \in 1..Lanes, NEW j \in 1..Pipelines
      PROVE  Sent(x, j - 1)' = Sent(x, j - 1)
  <2>1. CASE j = 1
    BY <1>2, <2>1, SentCounts
  <2>2. CASE j # 1
    <3>1. j - 1 \in 1..Pipelines /\ j - 1 # Pipelines
      BY <2>2
    <3> QED
      BY <1>4, <3>1
  <2> QED
    BY <2>1, <2>2
<1>6. Accepted(l, i) + 1 <= Sent(l, i - 1)
  <2>1. Sent(l, i - 1) = Accepted(l, i) + CountData(queue[e])
    BY <1>2 DEF TokioInv, TokioHops, e
  <2>2. Accepted(l, i) \in Nat
    BY <1>1, TokioCounts
  <2> QED
    BY <1>2, <2>1, <2>2
<1>7. TokioOrder'
  <2> SUFFICES ASSUME NEW x \in 1..Lanes, NEW k \in 1..Pipelines, NEW j \in k..Pipelines
               PROVE  Accepted(x, k)' <= FedTo(x)' /\ Accepted(x, j)' <= Accepted(x, k)'
    BY DEF TokioOrder
  <2>1. j \in 1..Pipelines
    OBVIOUS
  <2>2. Accepted(x, k) <= FedTo(x) /\ Accepted(x, j) <= Accepted(x, k)
    BY DEF TokioInv, TokioOrder
  <2>3. /\ Accepted(x, k) \in Nat /\ Accepted(x, j) \in Nat /\ FedTo(x) \in Nat
        /\ Accepted(l, i) \in Nat /\ Sent(l, i - 1) \in Nat /\ FedTo(l) \in Nat
    BY <1>1, <2>1, TokioCounts
  <2>4. Sent(l, i - 1) <= FedTo(l) /\ \A p \in 1..(i - 1) : Sent(l, i - 1) <= Accepted(l, p)
    BY SentBounded
  <2>5. Accepted(x, k)' <= FedTo(x)'
    <3>1. CASE x = l /\ k = i
      BY <1>2, <1>4, <1>6, <2>3, <2>4, <3>1
    <3>2. CASE ~(x = l /\ k = i)
      BY <1>2, <1>4, <2>2, <2>3, <3>2
    <3> QED
      BY <3>1, <3>2
  <2>6. Accepted(x, j)' <= Accepted(x, k)'
    <3>1. /\ Accepted(x, k)' = Accepted(x, k) + IF x = l /\ k = i THEN 1 ELSE 0
          /\ Accepted(x, j)' = Accepted(x, j) + IF x = l /\ j = i THEN 1 ELSE 0
      BY <1>4, <2>1
    <3>2. CASE x = l /\ j = i /\ k # i
      <4>1. k \in 1..(i - 1)
        BY <3>2
      <4>2. Sent(l, i - 1) <= Accepted(l, k)
        BY <2>4, <4>1
      <4> QED
        BY <1>6, <2>3, <3>1, <3>2, <4>2
    <3>3. CASE ~(x = l /\ j = i /\ k # i)
      BY <2>2, <2>3, <3>1, <3>3
    <3> QED
      BY <3>2, <3>3
  <2> QED
    BY <2>5, <2>6
<1> QED
  BY <1>4, <1>5, <1>6, <1>7

\* No lane is to get more messages than the run has for it.
LEMMA ShareBounded ==
  ASSUME NEW f \in 0..(Messages * Lanes), NEW l \in 1..Lanes
  PROVE  Share(f, l) <= Messages /\ Share(f, l) \in Nat
<1> USE PipelineAssumption
<1> DEFINE q == f \div Lanes
           r == f % Lanes
<1>1. f \in Nat /\ f <= Messages * Lanes /\ Messages * Lanes \in Nat
  <2>1. Messages * Lanes \in Nat
    OBVIOUS
  <2> QED
    BY <2>1
<1>2. q \in Nat /\ r \in 0..(Lanes - 1) /\ f = Lanes * q + r
  BY <1>1, Division
<1>3. Share(f, l) = q + IF l <= r THEN 1 ELSE 0
  BY DEF Share
<1> HIDE DEF q, r
<1>4. q <= Messages
  <2> SUFFICES ASSUME q >= Messages + 1 PROVE FALSE
    BY <1>2
  <2>1. q - Messages \in Nat /\ q - Messages >= 1 /\ Lanes * q = Messages * Lanes + Lanes * (q - Messages)
    BY <1>2
  <2>2. Lanes * (q - Messages) >= Lanes /\ Lanes * (q - Messages) \in Nat
    BY <2>1
  <2> QED
    BY <1>1, <1>2, <2>1, <2>2
<1>5. q = Messages => r = 0
  <2> SUFFICES ASSUME q = Messages PROVE r = 0
    OBVIOUS
  <2>1. Lanes * q = Messages * Lanes
    OBVIOUS
  <2> QED
    BY <1>1, <1>2, <2>1
<1> QED
  BY <1>2, <1>3, <1>4, <1>5

\* After it, every element has accepted, or has in its channel, what was sent to it.
LEMMA AcceptHops ==
  ASSUME TokioInv, NEW l \in 1..Lanes, NEW i \in 1..Pipelines, ReceiveData(Slot(l, i), {Slot(l, i)}),
         UNCHANGED <<phase, iteration, lane, id, spawned, fed>>,
         NEW x \in 1..Lanes, NEW j \in 1..Pipelines
  PROVE  /\ Accepted(x, j)' <= Sent(x, j - 1)'
         /\ Open(Slot(x, j))' =>
              Sent(x, j - 1)' = Accepted(x, j)' + CountData(queue'[Slot(x, j)])
<1> DEFINE e == Slot(l, i)
<1>1. TokioTypes /\ e \in Elements
  BY Slots DEF TokioInv
<1>2. /\ Open(e)
      /\ CountData(queue[e]) \in Nat /\ CountData(queue'[e]) = CountData(queue[e]) - 1
      /\ \A c \in Channels : c # e => queue'[c] = queue[c]
      /\ \A y \in Elements : Open(y)' <=> Open(y)
  BY <1>1, TokioReceiveDataFacts
<1>3. /\ Accepted(x, j)' = Accepted(x, j) + IF x = l /\ j = i THEN 1 ELSE 0
      /\ Sent(x, j - 1)' = Sent(x, j - 1)
      /\ Accepted(l, i) + 1 <= Sent(l, i - 1)
  BY AcceptCounts
<1>4. /\ Slot(x, j) \in Elements /\ Slot(x, j) \in Channels
      /\ Slot(x, j) = e <=> x = l /\ j = i
  BY Slots
<1> HIDE DEF e
<1>5. /\ Accepted(x, j) <= Sent(x, j - 1)
      /\ Open(Slot(x, j)) => Sent(x, j - 1) = Accepted(x, j) + CountData(queue[Slot(x, j)])
  BY DEF TokioInv, TokioHops
<1>6. /\ Accepted(x, j) \in Nat /\ Sent(x, j - 1) \in Nat
      /\ CountData(queue[Slot(x, j)]) \in Nat
  BY <1>1, TokioCounts
<1>7. CASE Slot(x, j) = e
  BY <1>2, <1>3, <1>4, <1>5, <1>6, <1>7
<1>8. CASE Slot(x, j) # e
  <2>1. queue'[Slot(x, j)] = queue[Slot(x, j)]
    BY <1>2, <1>4, <1>8
  <2> QED
    BY <1>2, <1>3, <1>4, <1>5, <1>6, <1>8, <2>1
<1> QED
  BY <1>7, <1>8

\* The last element of a lane counts a message.
LEMMA TokioArriveInv ==
  ASSUME TokioInv, NEW l \in 1..Lanes, ReceiveData(Last(l), {Last(l)}),
         UNCHANGED <<phase, iteration, lane, id, spawned, fed>>
  PROVE  TokioInv'
<1> USE PipelineAssumption
<1> DEFINE e == Slot(l, Pipelines)
<1>1. /\ TokioTypes /\ Done \in Nat /\ e \in Elements /\ Last(l) = e /\ e # Concentrator /\ e # Notifier
      /\ Pipelines \in 1..Pipelines
  BY DoneType, Slots DEF TokioInv
<1>2. /\ TokioTypes' /\ TokioControl' /\ TokioLifetimes' /\ TokioConfiguration' /\ TokioActions'
      /\ fwd[e] \in Forwarders
      /\ \A c \in Channels : c # e => queue'[c] = queue[c]
      /\ fwd'[e].received_count = fwd[e].received_count + 1
      /\ \A x \in Elements : x # e => fwd'[x] = fwd[x]
      /\ \A x \in Elements : x # e => todo'[x] = todo[x]
      /\ \A x \in 1..Lanes : delivered'[x] = delivered[x] + IF e = Last(x) THEN 1 ELSE 0
      /\ \A x \in Elements : /\ Open(x)' <=> Open(x)
                             /\ pc'[x] = "panicked" <=> pc[x] = "panicked"
      /\ Done' = Done /\ (Broken' <=> Broken) /\ \A x : FedTo(x)' = FedTo(x)
  BY <1>1, TokioReceiveDataFacts
<1>3. /\ \A x \in 1..Lanes : \A j \in 1..Pipelines :
           /\ Accepted(x, j)' = Accepted(x, j) + IF x = l /\ j = Pipelines THEN 1 ELSE 0
           /\ Sent(x, j - 1)' = Sent(x, j - 1)
           /\ j # Pipelines => Sent(x, j)' = Sent(x, j)
           /\ j # Pipelines => Swallowed(Slot(x, j))' = Swallowed(Slot(x, j))
      /\ Accepted(l, Pipelines) + 1 <= Sent(l, Pipelines - 1)
      /\ TokioOrder'
  BY <1>1, AcceptCounts
<1>4. \A x \in 1..Lanes : \A j \in 1..Pipelines :
        /\ Slot(x, j) \in Elements /\ Slot(x, j) \in Channels
        /\ Slot(x, j) = e <=> x = l /\ j = Pipelines
        /\ pc'[Slot(x, j)] = "panicked" <=> pc[Slot(x, j)] = "panicked"
  BY <1>2, Slots
<1>5. \A x \in 1..Lanes : \A j \in 1..Pipelines : j # Pipelines =>
        /\ queue'[Slot(x, j)] = queue[Slot(x, j)] /\ fwd'[Slot(x, j)] = fwd[Slot(x, j)]
        /\ todo'[Slot(x, j)] = todo[Slot(x, j)]
  BY <1>2, <1>4
<1>6. /\ Accepted(l, Pipelines) = delivered[l] /\ delivered[l] \in Nat
      /\ FedTo(l) \in Nat /\ Sent(l, Pipelines - 1) \in Nat
  BY <1>1, TokioCounts
<1>7. ~Broken /\ ~Panicked(l)
  <2>1. Panicked(l) => Sent(l, Pipelines - 1) = 0
    BY PanickedDry
  <2>2. ~Panicked(l)
    BY <1>3, <1>6, <2>1
  <2> QED
    BY <2>2 DEF Broken
<1>8. delivered[l] + 1 <= FedTo(l)
  <2>1. Sent(l, Pipelines - 1) <= FedTo(l)
    BY <1>1, SentBounded
  <2> QED
    BY <1>3, <1>6, <2>1
<1> HIDE DEF e
<1>9. TokioHops'
  <2> SUFFICES ASSUME NEW x \in 1..Lanes, NEW j \in 1..Pipelines
               PROVE  /\ Accepted(x, j)' <= Sent(x, j - 1)'
                      /\ Open(Slot(x, j))' =>
                           Sent(x, j - 1)' = Accepted(x, j)' + CountData(queue'[Slot(x, j)])
                      /\ j < Pipelines =>
                           \/ Swallowed(Slot(x, j))' = 0
                           \/ /\ Sent(x, j)' = 0
                              /\ todo'[Slot(x, j)] = <<>>
                              /\ fwd'[Slot(x, j)].next_seq = 0
    BY DEF TokioHops
  <2>1. /\ Accepted(x, j)' <= Sent(x, j - 1)'
        /\ Open(Slot(x, j))' =>
             Sent(x, j - 1)' = Accepted(x, j)' + CountData(queue'[Slot(x, j)])
    BY <1>1, AcceptHops DEF e
  <2>2. j < Pipelines =>
          \/ Swallowed(Slot(x, j)) = 0
          \/ /\ Sent(x, j) = 0
             /\ todo[Slot(x, j)] = <<>>
             /\ fwd[Slot(x, j)].next_seq = 0
    BY DEF TokioInv, TokioHops
  <2> QED
    BY <1>3, <1>5, <2>1, <2>2
<1>10. TokioNumbers'
  <2> SUFFICES ASSUME NEW x \in 1..Lanes, NEW j \in 1..(Pipelines - 1), j # 1 \/ ~Broken
               PROVE  /\ Open(Slot(x, j))' => NumberedFrom(queue'[Slot(x, j)], Count(x, j)')
                      /\ Swallowed(Slot(x, j))' = 0 /\ Count(x, j)' > 0 =>
                           fwd'[Slot(x, j)].next_seq = Count(x, j)'
    BY <1>2 DEF TokioNumbers
  <2>1. j \in 1..Pipelines /\ j # Pipelines
    BY Slots
  <2>2. /\ Open(Slot(x, j)) => NumberedFrom(queue[Slot(x, j)], Count(x, j))
        /\ Swallowed(Slot(x, j)) = 0 /\ Count(x, j) > 0 =>
             fwd[Slot(x, j)].next_seq = Count(x, j)
    BY <1>7 DEF TokioInv, TokioNumbers
  <2>3. Count(x, j)' = Count(x, j)
    <3>1. Accepted(x, j) \in Nat
      BY <1>1, <2>1, TokioCounts
    <3>2. Accepted(x, j)' = Accepted(x, j)
      BY <1>3, <2>1, <3>1
    <3> QED
      BY <1>2, <3>2 DEF Count
  <2> QED
    BY <1>2, <1>3, <1>4, <1>5, <2>1, <2>2, <2>3
<1>11. TokioPanics'
  <2>1. \A j \in 2..Pipelines : j \in 1..Pipelines
    OBVIOUS
  <2>2. \A x \in 1..Lanes : \A j \in 1..Pipelines :
          pc[Slot(x, j)] = "panicked" =>
            /\ j < Pipelines
            /\ \/ Swallowed(Slot(x, j)) > 0
               \/ j = 1 /\ \E k \in 2..Pipelines : pc[Slot(x, k)] = "panicked"
    BY DEF TokioInv, TokioPanics
  <2> QED
    BY <1>3, <1>4, <2>1, <2>2 DEF TokioPanics
<1>12. TokioRuns'
  BY <1>2, RunsFrame
<1>13. TokioNotices'
  <2>1. /\ Done <= delivered[l]
        /\ Notified(l) \/ fwd[e].received_count = delivered[l] - Done
    BY <1>1, <1>7 DEF TokioInv, TokioNotices
  <2>2. fwd[e].received_count \in Nat
    BY <1>2 DEF Forwarders
  <2>3. ~Notified(l)
    <3>1. FedTo(l) <= Done + Messages
      <4>1. FedTo(l) = Done + IF phase = "waiting" THEN Share(fed[iteration], l) ELSE 0
        BY <1>7 DEF TokioInv, TokioRuns
      <4>2. CASE phase = "waiting"
        <5>1. fed[iteration] \in 0..(Messages * Lanes)
          <6>1. iteration \in 1..Iterations
            BY <4>2, DoneType
          <6> QED
            BY <1>1, <6>1 DEF TokioTypes
        <5>2. Share(fed[iteration], l) <= Messages /\ Share(fed[iteration], l) \in Nat
          BY <5>1, ShareBounded
        <5> QED
          BY <1>1, <4>1, <4>2, <5>2
      <4>3. CASE phase # "waiting"
        BY <1>1, <4>1, <4>3
      <4> QED
        BY <4>2, <4>3
    <3> QED
      BY <1>1, <1>6, <1>8, <3>1 DEF Notified
  <2>4. /\ Done <= delivered'[l] /\ ~Notified(l)'
        /\ fwd'[e].received_count = delivered'[l] - Done
    <3>1. delivered'[l] = delivered[l] + 1
      BY <1>1, <1>2
    <3>2. fwd'[e].received_count # 0
      BY <1>2, <2>2
    <3>3. ~Notified(l)'
      BY <1>1, <3>2 DEF Notified, Last, e
    <3> QED
      BY <1>1, <1>2, <1>6, <2>1, <2>3, <3>1, <3>3
  <2>5. ASSUME NEW x \in 1..Lanes, x # l
        PROVE  /\ delivered'[x] = delivered[x] /\ fwd'[Last(x)] = fwd[Last(x)]
               /\ Notified(x)' <=> Notified(x)
    <3>1. Last(x) # e /\ Last(x) \in Elements
      BY <1>4, <2>5, Slots
    <3>2. delivered[x] \in Nat
      BY <1>1 DEF TokioTypes, Types
    <3>3. delivered'[x] = delivered[x] /\ fwd'[Last(x)] = fwd[Last(x)]
      BY <1>2, <3>1, <3>2
    <3> QED
      BY <1>2, <3>3 DEF Notified, Last
  <2>6. NotifiedLanes' = NotifiedLanes
    <3>1. \A x \in 1..Lanes : Notified(x)' <=> Notified(x)
      BY <2>3, <2>4, <2>5
    <3> QED
      BY <3>1 DEF NotifiedLanes
  <2>7. \A x \in 1..Lanes :
          IF Broken' THEN fwd'[Last(x)].received_count = 0
          ELSE /\ Done' <= delivered'[x]
               /\ \/ Notified(x)'
                  \/ fwd'[Last(x)].received_count = delivered'[x] - Done'
    <3> SUFFICES ASSUME NEW x \in 1..Lanes
                 PROVE  /\ Done <= delivered'[x]
                        /\ \/ Notified(x)'
                           \/ fwd'[Last(x)].received_count = delivered'[x] - Done
      BY <1>2, <1>7
    <3>1. CASE x = l
      BY <1>1, <2>4, <3>1
    <3>2. CASE x # l
      BY <1>7, <2>5, <3>2 DEF TokioInv, TokioNotices
    <3> QED
      BY <3>1, <3>2
  <2>8. /\ fwd'[Concentrator] = fwd[Concentrator] /\ queue'[Concentrator] = queue[Concentrator]
        /\ queue'[Notifier] = queue[Notifier]
    BY <1>1, <1>2, Names
  <2>9. phase' = phase
    OBVIOUS
  <2> QED
    BY <2>6, <2>7, <2>8, <2>9 DEF TokioInv, TokioNotices, Last
<1> QED
  BY <1>2, <1>3, <1>9, <1>10, <1>11, <1>12, <1>13 DEF TokioInv

\* An element in front of the last knows the next one from when it is configured,
\* and nobody before that.
LEMMA TokioSenders ==
  ASSUME TokioInv, NEW l \in 1..Lanes, NEW i \in 1..Pipelines
  PROVE  LET e == Slot(l, i)
         IN  /\ fwd[e].senders = <<>> \/ (i < Pipelines /\ fwd[e].senders = <<Slot(l, i + 1)>>)
             /\ i < Pipelines /\ fwd[e].senders = <<>> =>
                  Unconfigured(e) /\ Sent(l, i) = 0 /\ fwd[e].next_seq = 0
             /\ fwd[e].senders # <<>> => ~Awaits(e) /\ Configured(e)
<1> DEFINE e == Slot(l, i)
<1>1. e \in Elements
  BY Slots
<1>2. IF Awaits(e) THEN Unconfigured(e) ELSE Configured(e)
  BY <1>1 DEF TokioInv, TokioConfiguration
<1>3. Configured(e) => IF i = Pipelines THEN fwd[e].senders = <<>>
                                        ELSE fwd[e].senders = <<Slot(l, i + 1)>>
  BY ConfiguredSlots
<1>4. Sent(l, i) = fwd[e].send_count
  BY SentCounts
<1>5. <<Slot(l, i + 1)>> # <<>> /\ (i < Pipelines <=> i # Pipelines)
  BY PipelineAssumption
<1> HIDE DEF e
<1>6. CASE Awaits(e)
  BY <1>2, <1>4, <1>6 DEF Unconfigured, e
<1>7. CASE ~Awaits(e)
  BY <1>2, <1>3, <1>5, <1>7 DEF e
<1> QED
  BY <1>6, <1>7

\* The first message in the channel of an element that forwards bears the number
\* that it has accepted so far.
LEMMA FirstNumber ==
  ASSUME TokioInv, NEW l \in 1..Lanes, NEW i \in 1..Pipelines, i < Pipelines, i # 1 \/ ~Broken,
         Open(Slot(l, i)), queue[Slot(l, i)] # <<>>, ~is_config(Head(queue[Slot(l, i)]))
  PROVE  /\ Count(l, i) \in Nat /\ Head(queue[Slot(l, i)]).n = Count(l, i)
         /\ NumberedFrom(Tail(queue[Slot(l, i)]), Count(l, i) + 1)
<1>1. queue[Slot(l, i)] \in Seq(Message)
  BY TokioCounts DEF TokioInv
<1>2. Count(l, i) \in Nat /\ Count(l, i) \in Int
  BY CountNat
<1>3. NumberedFrom(queue[Slot(l, i)], Count(l, i))
  <2>1. i \in 1..(Pipelines - 1)
    BY PipelineAssumption
  <2> QED
    BY <2>1 DEF TokioInv, TokioNumbers
<1> QED
  BY <1>1, <1>2, <1>3, TakeFirst

\* An element that dropped data accepts nothing once it forwards.
LEMMA DroppedNoMore ==
  ASSUME TokioInv, NEW l \in 1..Lanes, NEW i \in 1..Pipelines, i < Pipelines,
         pc[Slot(l, i)] = "recv", queue[Slot(l, i)] # <<>>, ~is_config(Head(queue[Slot(l, i)])),
         fwd[Slot(l, i)].senders # <<>>, Swallowed(Slot(l, i)) # 0
  PROVE  ~in_sequence(fwd[Slot(l, i)], Head(queue[Slot(l, i)]))
<1> USE PipelineAssumption
<1> DEFINE e == Slot(l, i)
<1>1. Open(e) /\ e \in Elements
  BY Slots, Names DEF Open
<1>2. fwd[e].next_seq = 0
  BY DEF TokioInv, TokioHops
<1>3. i # 1 \/ ~Broken
  <2> SUFFICES ASSUME i = 1, Broken PROVE FALSE
    OBVIOUS
  <2>1. Panicked(l) /\ 1 < Pipelines
    BY DEF Broken
  <2>2. pc[Slot(l, 1)] = "panicked"
    BY <2>1, PanickedDry
  <2> QED
    BY <2>2
<1>4. Count(l, i) \in Nat /\ Head(queue[e]).n = Count(l, i)
  BY <1>1, <1>3, FirstNumber
<1>5. Accepted(l, i) > 0 /\ delivered[l] = 0 /\ Accepted(l, i) \in Nat
  BY SwallowedLane, TokioCounts DEF TokioInv
<1>6. Count(l, i) = Accepted(l, i)
  <2>1. CASE i = 1
    <3>1. Done <= delivered[l] /\ Done \in Nat
      BY <1>3, <2>1, DoneType DEF TokioInv, TokioNotices
    <3> QED
      BY <1>5, <2>1, <3>1 DEF Count
  <2>2. CASE i # 1
    BY <1>5, <2>2 DEF Count
  <2> QED
    BY <2>1, <2>2
<1> QED
  BY <1>2, <1>4, <1>5, <1>6 DEF in_sequence

\* An element in front of the last accepts a message.
LEMMA TokioForwardInv ==
  ASSUME TokioInv, NEW l \in 1..Lanes, NEW i \in 1..Pipelines, i < Pipelines,
         ReceiveData(Slot(l, i), {Slot(l, i)}),
         UNCHANGED <<phase, iteration, lane, id, spawned, fed>>
  PROVE  TokioInv'
<1> USE PipelineAssumption
<1> DEFINE e == Slot(l, i)
<1>1. /\ TokioTypes /\ Done \in Nat /\ e \in Elements /\ e \in Channels
      /\ e # Concentrator /\ e # Notifier
      /\ \A x \in 1..Lanes : e # Last(x)
      /\ pc[e] = "recv" /\ queue[e] # <<>> /\ ~is_config(Head(queue[e]))
      /\ queue'[e] = Tail(queue[e])
  <2>1. e \in Elements /\ e \in Channels /\ e # Concentrator /\ e # Notifier
    BY Slots
  <2>2. pc[e] = "recv" /\ queue[e] # <<>> /\ ~is_config(Head(queue[e]))
    BY DEF ReceiveData, Receiving
  <2>3. queue' = [queue EXCEPT ![e] = Tail(queue[e])]
    BY DEF ReceiveData, TakeHead
  <2>4. TokioTypes /\ Done \in Nat
    BY DoneType DEF TokioInv
  <2>5. \A x \in 1..Lanes : e # Last(x)
    BY Slots
  <2> HIDE DEF e
  <2>6. queue'[e] = Tail(queue[e])
    BY <2>1, <2>3, <2>4 DEF TokioTypes, Types
  <2> QED
    BY <2>1, <2>2, <2>4, <2>5, <2>6
<1>2. /\ TokioTypes' /\ TokioControl' /\ TokioLifetimes' /\ TokioConfiguration' /\ TokioActions'
      /\ Open(e) /\ todo[e] = <<>>
      /\ fwd[e] \in Forwarders /\ in_sequence(fwd[e], Head(queue[e]))
      /\ \A c \in Channels : c # e => queue'[c] = queue[c]
      /\ fwd'[e].received_count = fwd[e].received_count + 1
      /\ fwd'[e].send_count = fwd[e].send_count
      /\ fwd[e].senders = <<>> => fwd'[e].next_seq = fwd[e].next_seq
      /\ fwd[e].senders # <<>> =>
           fwd'[e].next_seq = IF Head(queue[e]).n = fwd[e].next_seq
                                THEN fwd[e].next_seq + 1 ELSE 1
      /\ \A x \in Elements : x # e => fwd'[x] = fwd[x]
      /\ todo'[e] = fwd[e].senders
      /\ \A x \in Elements : x # e => todo'[x] = todo[x]
      /\ delivered' = delivered
      /\ \A x \in Elements : /\ Open(x)' <=> Open(x)
                             /\ pc'[x] = "panicked" <=> pc[x] = "panicked"
      /\ Done' = Done /\ (Broken' <=> Broken) /\ \A x : FedTo(x)' = FedTo(x)
  BY <1>1, TokioReceiveDataFacts
<1>3. /\ \A x \in 1..Lanes : \A j \in 1..Pipelines :
           /\ Accepted(x, j)' = Accepted(x, j) + IF x = l /\ j = i THEN 1 ELSE 0
           /\ j # Pipelines => Sent(x, j)' = Sent(x, j)
           /\ j # Pipelines /\ ~(x = l /\ j = i) =>
                Swallowed(Slot(x, j))' = Swallowed(Slot(x, j))
      /\ TokioOrder'
  BY AcceptCounts
<1>4. \A x \in 1..Lanes : \A j \in 1..Pipelines :
        /\ Slot(x, j) \in Elements /\ Slot(x, j) \in Channels
        /\ Slot(x, j) = e <=> x = l /\ j = i
        /\ pc'[Slot(x, j)] = "panicked" <=> pc[Slot(x, j)] = "panicked"
  <2>1. \A x \in 1..Lanes : \A j \in 1..Pipelines :
          /\ Slot(x, j) \in Elements /\ Slot(x, j) \in Channels
          /\ Slot(x, j) = e <=> x = l /\ j = i
    BY Slots
  <2>2. \A x \in Elements : pc'[x] = "panicked" <=> pc[x] = "panicked"
    BY <1>2
  <2> QED
    BY <2>1, <2>2
<1>5. \A x \in 1..Lanes : \A j \in 1..Pipelines : ~(x = l /\ j = i) =>
        /\ queue'[Slot(x, j)] = queue[Slot(x, j)] /\ fwd'[Slot(x, j)] = fwd[Slot(x, j)]
        /\ todo'[Slot(x, j)] = todo[Slot(x, j)]
  BY <1>2, <1>4
<1>6. /\ fwd[e].senders = <<>> \/ Len(fwd[e].senders) = 1
      /\ Len(fwd[e].senders) \in Nat
      /\ fwd[e].senders = <<>> => Sent(l, i) = 0 /\ fwd[e].next_seq = 0
      /\ fwd[e].senders # <<>> => Swallowed(e) = 0
  <2>1. /\ fwd[e].senders = <<>> \/ fwd[e].senders = <<Slot(l, i + 1)>>
        /\ fwd[e].senders = <<>> => Sent(l, i) = 0 /\ fwd[e].next_seq = 0
    BY TokioSenders
  <2>2. Len(<<Slot(l, i + 1)>>) = 1
    OBVIOUS
  <2>3. fwd[e].senders # <<>> => Swallowed(e) = 0
    BY <1>1, <1>2, DroppedNoMore
  <2>4. Len(<<>>) = 0
    BY EmptySeq
  <2> QED
    BY <2>1, <2>2, <2>3, <2>4
<1>7. /\ Accepted(l, i) \in Nat /\ Sent(l, i) \in Nat
      /\ Swallowed(e) = Accepted(l, i) - Sent(l, i)
      /\ Swallowed(Slot(l, i))' = (Accepted(l, i) + 1) - Sent(l, i) - Len(fwd[e].senders)
      /\ Swallowed(e) >= 0
  <2>1. /\ Accepted(l, i) \in Nat /\ Sent(l, i) \in Nat
        /\ Swallowed(e) = Accepted(l, i) - Sent(l, i) - Len(todo[e])
        /\ Accepted(l, i) = fwd[e].received_count
    BY <1>1, TokioCounts
  <2>2. Sent(l, i) = fwd[e].send_count
    BY SentCounts
  <2>3. Len(todo[e]) = 0
    BY <1>2, EmptySeq
  <2>4. Swallowed(Slot(l, i))' = fwd'[e].received_count - fwd'[e].send_count - Len(todo'[e])
    BY DEF Swallowed
  <2>5. Swallowed(e) >= 0
    BY SentBounded
  <2>6. Swallowed(Slot(l, i))' = (Accepted(l, i) + 1) - Sent(l, i) - Len(fwd[e].senders)
    <3>1. fwd'[e].received_count = Accepted(l, i) + 1 /\ fwd'[e].send_count = Sent(l, i)
      BY <1>2, <2>1, <2>2
    <3>2. Len(todo'[e]) = Len(fwd[e].senders)
      BY <1>2
    <3> HIDE DEF e
    <3> QED
      BY <2>4, <3>1, <3>2, Zenon
  <2> QED
    BY <1>2, <2>1, <2>2, <2>3, <2>5, <2>6
<1>8. /\ fwd[e].senders = <<>> => Swallowed(Slot(l, i))' > 0
      /\ fwd[e].senders # <<>> => Swallowed(Slot(l, i))' = 0
  <2>1. CASE fwd[e].senders = <<>>
    <3>1. Len(fwd[e].senders) = 0
      BY <2>1, EmptySeq
    <3> QED
      BY <1>7, <2>1, <3>1
  <2>2. CASE fwd[e].senders # <<>>
    <3>1. Len(fwd[e].senders) = 1 /\ Swallowed(e) = 0
      BY <1>6, <2>2
    <3>2. Swallowed(Slot(l, i))' = 0
      BY <1>7, <3>1
    <3> QED
      BY <2>2, <3>2
  <2> QED
    BY <2>1, <2>2
<1> HIDE DEF e
<1>9. TokioHops'
  <2> SUFFICES ASSUME NEW x \in 1..Lanes, NEW j \in 1..Pipelines
               PROVE  /\ Accepted(x, j)' <= Sent(x, j - 1)'
                      /\ Open(Slot(x, j))' =>
                           Sent(x, j - 1)' = Accepted(x, j)' + CountData(queue'[Slot(x, j)])
                      /\ j < Pipelines =>
                           \/ Swallowed(Slot(x, j))' = 0
                           \/ /\ Sent(x, j)' = 0
                              /\ todo'[Slot(x, j)] = <<>>
                              /\ fwd'[Slot(x, j)].next_seq = 0
    BY DEF TokioHops
  <2>1. /\ Accepted(x, j)' <= Sent(x, j - 1)'
        /\ Open(Slot(x, j))' =>
             Sent(x, j - 1)' = Accepted(x, j)' + CountData(queue'[Slot(x, j)])
    BY AcceptHops DEF e
  <2>2. j < Pipelines =>
          \/ Swallowed(Slot(x, j)) = 0
          \/ /\ Sent(x, j) = 0
             /\ todo[Slot(x, j)] = <<>>
             /\ fwd[Slot(x, j)].next_seq = 0
    BY DEF TokioInv, TokioHops
  <2>3. CASE x = l /\ j = i
    <3>1. Slot(x, j) = e /\ Sent(x, j)' = Sent(l, i)
      BY <1>3, <1>4, <2>3
    <3> QED
      BY <1>2, <1>6, <1>8, <2>1, <3>1 DEF e
  <2>4. CASE ~(x = l /\ j = i)
    BY <1>3, <1>5, <2>1, <2>2, <2>4
  <2> QED
    BY <2>3, <2>4
<1>10. TokioNumbers'
  <2> SUFFICES ASSUME NEW x \in 1..Lanes, NEW j \in 1..(Pipelines - 1), j # 1 \/ ~Broken
               PROVE  /\ Open(Slot(x, j))' => NumberedFrom(queue'[Slot(x, j)], Count(x, j)')
                      /\ Swallowed(Slot(x, j))' = 0 /\ Count(x, j)' > 0 =>
                           fwd'[Slot(x, j)].next_seq = Count(x, j)'
    BY <1>2 DEF TokioNumbers
  <2>1. j \in 1..Pipelines /\ j # Pipelines
    BY Slots
  <2>2. /\ Open(Slot(x, j)) => NumberedFrom(queue[Slot(x, j)], Count(x, j))
        /\ Swallowed(Slot(x, j)) = 0 /\ Count(x, j) > 0 =>
             fwd[Slot(x, j)].next_seq = Count(x, j)
    BY DEF TokioInv, TokioNumbers
  <2>3. Accepted(x, j) \in Nat
    BY <1>1, <2>1, TokioCounts
  <2>4. CASE x = l /\ j = i
    <3>1. Slot(x, j) = e
      BY <2>4 DEF e
    <3>2. /\ Count(l, i) \in Nat /\ Head(queue[e]).n = Count(l, i)
          /\ NumberedFrom(Tail(queue[e]), Count(l, i) + 1)
      BY <1>1, <1>2, <2>4, FirstNumber DEF e
    <3>3. Count(l, i)' = Count(l, i) + 1
      <4>1. Accepted(l, i)' = Accepted(l, i) + 1
        BY <1>3
      <4>2. Count(l, i)' = Accepted(l, i)' - IF i = 1 THEN Done ELSE 0
        BY <1>2 DEF Count
      <4>3. Done \in Nat /\ Accepted(l, i) \in Nat
        BY <1>1, <1>7
      <4> QED
        BY <4>1, <4>2, <4>3 DEF Count
    <3>4. fwd[e].senders # <<>> => fwd'[e].next_seq = Count(l, i) + 1
      <4>1. Count(l, i) > 0 => (fwd[e].senders # <<>> => fwd[e].next_seq = Count(l, i))
        BY <1>6, <2>2, <2>4, <3>1
      <4>2. fwd[e].next_seq \in Nat
        BY <1>2 DEF Forwarders
      <4> QED
        BY <1>2, <3>2, <4>1, <4>2
    <3>5. Swallowed(Slot(l, i))' = 0 => fwd[e].senders # <<>>
      BY <1>8
    <3> QED
      BY <1>1, <2>4, <3>1, <3>2, <3>3, <3>4, <3>5
  <2>5. CASE ~(x = l /\ j = i)
    <3>1. Count(x, j)' = Count(x, j)
      <4>1. Accepted(x, j)' = Accepted(x, j)
        BY <1>3, <2>1, <2>3, <2>5
      <4> QED
        BY <1>2, <4>1 DEF Count
    <3> QED
      BY <1>2, <1>3, <1>4, <1>5, <2>1, <2>2, <2>5, <3>1
  <2> QED
    BY <2>4, <2>5
<1>11. TokioPanics'
  <2>1. \A j \in 2..Pipelines : j \in 1..Pipelines
    OBVIOUS
  <2>2. \A x \in 1..Lanes : \A j \in 1..Pipelines :
          pc[Slot(x, j)] = "panicked" =>
            /\ j < Pipelines /\ Slot(x, j) # e
            /\ \/ Swallowed(Slot(x, j)) > 0
               \/ j = 1 /\ \E k \in 2..Pipelines : pc[Slot(x, k)] = "panicked"
    BY <1>1 DEF TokioInv, TokioPanics
  <2> QED
    BY <1>3, <1>4, <2>1, <2>2 DEF TokioPanics
<1>12. TokioRuns'
  BY <1>2, RunsFrame
<1>13. TokioNotices'
  <2>1. \A x \in 1..Lanes : fwd'[Last(x)].received_count = fwd[Last(x)].received_count
    BY <1>1, <1>2, Slots
  <2>2. /\ fwd'[Concentrator] = fwd[Concentrator] /\ queue'[Concentrator] = queue[Concentrator]
        /\ queue'[Notifier] = queue[Notifier]
    BY <1>1, <1>2, Names
  <2> QED
    BY <1>2, <2>1, <2>2, NoticesFrame
<1> QED
  BY <1>2, <1>3, <1>9, <1>10, <1>11, <1>12, <1>13 DEF TokioInv

-----------------------------------------------------------------------------
(* An element forwards.                                                    *)

\* A message that is passed on goes to the next element of the lane, with the
\* number of those sent to it before.
LEMMA PassesOn ==
  ASSUME TokioInv, NEW e \in Elements, handle_action(e)
  PROVE  \E l \in 1..Lanes, i \in 1..(Pipelines - 1) :
           /\ e = Slot(l, i)
           /\ fwd[e].senders = <<Slot(l, i + 1)>> /\ todo[e] = <<Slot(l, i + 1)>>
           /\ fwd[e].send_count = Sent(l, i)
           /\ Swallowed(e) = 0 /\ Accepted(l, i) = Sent(l, i) + 1
           /\ Sent(l, i) \in Nat
<1> USE PipelineAssumption
<1>1. /\ TokioTypes /\ Types /\ todo[e] # <<>> /\ todo[e] = fwd[e].senders
  BY DEF TokioInv, TokioTypes, TokioActions, handle_action
<1>2. e # Concentrator
  <2>1. Unconfigured(e) \/ Configured(e)
    BY DEF TokioInv, TokioConfiguration
  <2>2. Unconfigured(e) => fwd[e].senders = <<>>
    BY DEF Unconfigured
  <2>3. e = Concentrator /\ Configured(e) => fwd[e].senders = <<>>
    BY ConfiguredSlots
  <2> QED
    BY <1>1, <2>1, <2>2, <2>3
<1>3. PICK l \in 1..Lanes, i \in 1..Pipelines : e = Slot(l, i)
  BY <1>2, Slots
<1>4. i < Pipelines /\ fwd[e].senders = <<Slot(l, i + 1)>>
  BY <1>1, <1>3, TokioSenders
<1>5. i \in 1..(Pipelines - 1)
  BY <1>4
<1>6. Swallowed(Slot(l, i)) = 0
  BY <1>1, <1>3, <1>4 DEF TokioInv, TokioHops
<1>7. /\ Accepted(l, i) \in Nat /\ Sent(l, i) \in Nat
      /\ Swallowed(Slot(l, i)) = Accepted(l, i) - Sent(l, i) - Len(todo[Slot(l, i)])
  BY <1>1, <1>4, TokioCounts
<1>8. Len(todo[Slot(l, i)]) = 1
  <2>1. todo[Slot(l, i)] = <<Slot(l, i + 1)>>
    BY <1>1, <1>3, <1>4
  <2>2. Len(<<Slot(l, i + 1)>>) = 1
    OBVIOUS
  <2> QED
    BY <2>1, <2>2
<1>9. Accepted(l, i) = Sent(l, i) + 1
  BY <1>6, <1>7, <1>8
<1>10. fwd[e].send_count = Sent(l, i)
  BY <1>3, SentCounts
<1>11. todo[e] = <<Slot(l, i + 1)>>
  BY <1>1, <1>4
<1>12. Swallowed(e) = 0
  BY <1>3, <1>6
<1> QED
  BY <1>3, <1>4, <1>5, <1>7, <1>9, <1>10, <1>11, <1>12

\* One turn of the loop in handle_action keeps TokioInv.
LEMMA TokioHandleActionInv ==
  ASSUME TokioInv, NEW e \in Elements, handle_action(e),
         UNCHANGED <<phase, iteration, lane, id, spawned, fed>>
  PROVE  TokioInv'
<1> USE PipelineAssumption, DriverAssumption
<1>1. PICK l \in 1..Lanes, i \in 1..(Pipelines - 1) :
        /\ e = Slot(l, i)
        /\ fwd[e].senders = <<Slot(l, i + 1)>> /\ todo[e] = <<Slot(l, i + 1)>>
        /\ fwd[e].send_count = Sent(l, i)
        /\ Swallowed(e) = 0 /\ Accepted(l, i) = Sent(l, i) + 1
        /\ Sent(l, i) \in Nat
  BY PassesOn
<1> DEFINE c == Slot(l, i + 1)
<1>2. /\ TokioTypes /\ TokioControl /\ Types /\ Control
      /\ UNCHANGED <<pc, delivered, phase, iteration, lane, id, spawned, fed>>
      /\ pc[e] = "action"
      /\ send_cmd(Head(todo[e]), TestData(fwd[e].send_count))
      /\ fwd' = [fwd EXCEPT ![e] = count_send(fwd[e])]
      /\ todo' = [todo EXCEPT ![e] = Tail(todo[e])]
  BY DEF TokioInv, TokioTypes, TokioControl, handle_action
<1>3. /\ i \in 1..Pipelines /\ i # Pipelines /\ i < Pipelines /\ i + 1 \in 1..Pipelines /\ i + 1 # 1
      /\ e \in Channels /\ fwd[e] \in Forwarders
      /\ c \in Elements /\ c \in Channels /\ c # e /\ c # Concentrator /\ c # Notifier
  <2>1. i \in 1..Pipelines /\ i # Pipelines /\ i < Pipelines /\ i + 1 \in 1..Pipelines /\ i + 1 # 1 /\ i + 1 # i
    BY Slots
  <2> QED
    BY <1>1, <1>2, <2>1, Slots, Names DEF Types
<1>4. send_cmd(c, TestData(Sent(l, i)))
  <2>1. Head(<<c>>) = c
    OBVIOUS
  <2> QED
    BY <1>1, <1>2, <2>1
<1>5. todo'[e] = <<>> /\ \A x \in Elements : x # e => todo'[x] = todo[x]
  <2>1. Tail(<<c>>) = <<>>
    OBVIOUS
  <2>2. Tail(todo[e]) = <<>>
    BY <1>1, <2>1
  <2> QED
    BY <1>2, <2>2 DEF Types
<1> HIDE DEF c
<1>6. /\ queue' \in [Channels -> Seq(Message)]
      /\ \A d \in Channels : Len(queue'[d]) <= Cap
      /\ \A d \in Channels : d # c => queue'[d] = queue[d]
      /\ ~Open(c) => queue' = queue
      /\ Configures(queue'[c]) <=> Configures(queue[c])
      /\ \A m : OnlyConfig(queue[c], m) => OnlyConfig(queue'[c], m)
      /\ Open(c) =>
           /\ Len(queue'[c]) = Len(queue[c]) + 1
           /\ CountData(queue'[c]) = CountData(queue[c]) + 1
           /\ \A a \in Int : NumberedFrom(queue[c], a) /\ Sent(l, i) = a + CountData(queue[c]) =>
                               NumberedFrom(queue'[c], a)
  BY <1>1, <1>2, <1>3, <1>4, TokioSend
<1>7. /\ fwd' \in [Elements -> Forwarders]
      /\ \A x \in Elements : x # e => fwd'[x] = fwd[x]
      /\ fwd'[e] = count_send(fwd[e])
      /\ fwd'[e].send_count = fwd[e].send_count + 1 /\ fwd'[e].received_count = fwd[e].received_count
      /\ fwd'[e].next_seq = fwd[e].next_seq /\ fwd'[e].senders = fwd[e].senders
      /\ fwd'[e].notify_sender = fwd[e].notify_sender /\ fwd'[e].notify_count = fwd[e].notify_count
  <2> DEFINE g == count_send(fwd[e])
  <2>1. /\ g \in Forwarders
        /\ g.send_count = fwd[e].send_count + 1 /\ g.received_count = fwd[e].received_count
        /\ g.next_seq = fwd[e].next_seq /\ g.senders = fwd[e].senders
        /\ g.notify_sender = fwd[e].notify_sender /\ g.notify_count = fwd[e].notify_count
    BY <1>3, CountSend
  <2>2. fwd' = [fwd EXCEPT ![e] = g]
    BY <1>2
  <2> HIDE DEF g
  <2>3. fwd'[e] = g /\ \A x \in Elements : x # e => fwd'[x] = fwd[x]
    BY <1>2, <2>2 DEF Types
  <2>4. fwd' \in [Elements -> Forwarders]
    BY <1>2, <2>1, <2>2 DEF Types
  <2> QED
    BY <2>1, <2>3, <2>4 DEF g
<1>8. TokioTypes' /\ TokioControl'
  <2>1. todo' \in [Elements -> Seq(LaneElements)]
    <3>1. Tail(todo[e]) \in Seq(LaneElements)
      <4>1. <<>> \in Seq(LaneElements) /\ Tail(todo[e]) = <<>>
        BY <1>2, <1>5 DEF Types
      <4> QED
        BY <4>1
    <3> QED
      BY <1>2, <3>1 DEF Types
  <2>2. Types'
    BY <1>2, <1>6, <1>7, <2>1 DEF Types
  <2> QED
    BY <1>2, <2>2 DEF TokioTypes, TokioControl, Control
<1>9. /\ \A x \in Elements : /\ Open(x)' <=> Open(x)
                             /\ ConfigSent(x)' <=> ConfigSent(x)
                             /\ Created(x)' <=> Created(x)
      /\ Done' = Done /\ (Broken' <=> Broken)
      /\ \A x : FedTo(x)' = FedTo(x)
  BY <1>2 DEF Open, ConfigSent, Created, Done, Broken, Panicked, FedTo, FedInto
<1>10. TokioLifetimes'
  BY <1>2, <1>9, LifetimesFrame DEF TokioInv, TokioLifetimes
<1>11. TokioActions'
  <2> SUFFICES ASSUME NEW x \in Elements
               PROVE  /\ todo'[x] # <<>> => pc'[x] = "action" /\ todo'[x] = fwd'[x].senders
                      /\ pc'[x] = "action" => fwd'[x].received_count >= 1
    BY DEF TokioActions
  <2>1. /\ todo[x] # <<>> => pc[x] = "action" /\ todo[x] = fwd[x].senders
        /\ pc[x] = "action" => fwd[x].received_count >= 1
    BY DEF TokioInv, TokioActions
  <2>2. CASE x = e
    BY <1>2, <1>5, <1>7, <2>1, <2>2
  <2>3. CASE x # e
    BY <1>2, <1>5, <1>7, <2>1, <2>3
  <2> QED
    BY <2>2, <2>3
<1>12. TokioConfiguration'
  <2>1. ~Unconfigured(e)
    BY <1>1 DEF Unconfigured
  <2>2. ASSUME NEW x \in Elements
        PROVE  /\ ~Open(x) => queue'[x] = queue[x]
               /\ Configures(queue'[x]) <=> Configures(queue[x])
               /\ OnlyConfig(queue[x], ConfigOf(x)) => OnlyConfig(queue'[x], ConfigOf(x))
               /\ fwd'[x].senders = fwd[x].senders
               /\ fwd'[x].notify_sender = fwd[x].notify_sender
               /\ fwd'[x].notify_count = fwd[x].notify_count
               /\ Unconfigured(x) => fwd'[x].send_count = 0 /\ fwd'[x].next_seq = 0
    <3>1. x \in Channels
      BY Names
    <3>2. /\ ~Open(x) => queue'[x] = queue[x]
          /\ Configures(queue'[x]) <=> Configures(queue[x])
          /\ OnlyConfig(queue[x], ConfigOf(x)) => OnlyConfig(queue'[x], ConfigOf(x))
      <4>1. CASE x = c
        BY <1>6, <4>1
      <4>2. CASE x # c
        BY <1>6, <3>1, <4>2
      <4> QED
        BY <4>1, <4>2
    <3>3. /\ fwd'[x].senders = fwd[x].senders
          /\ fwd'[x].notify_sender = fwd[x].notify_sender
          /\ fwd'[x].notify_count = fwd[x].notify_count
          /\ Unconfigured(x) => fwd'[x].send_count = 0 /\ fwd'[x].next_seq = 0
      BY <1>7, <2>1 DEF Unconfigured
    <3> QED
      BY <3>2, <3>3
  <2>3. ~Configures(queue'[Notifier])
    BY <1>3, <1>6, Names DEF TokioInv, TokioConfiguration
  <2> QED
    BY <1>2, <1>9, <2>2, <2>3, ConfigurationFrame
<1>13. /\ \A x \in 1..Lanes : \A j \in 1..Pipelines :
            /\ Accepted(x, j)' = Accepted(x, j)
            /\ Sent(x, j)' = Sent(x, j) + IF x = l /\ j = i THEN 1 ELSE 0
            /\ Sent(x, j - 1)' = Sent(x, j - 1) + IF x = l /\ j = i + 1 THEN 1 ELSE 0
            /\ j < Pipelines => (Swallowed(Slot(x, j))' = Swallowed(Slot(x, j)))
            /\ Slot(x, j) = e <=> x = l /\ j = i
            /\ Slot(x, j) = c <=> x = l /\ j = i + 1
  <2> SUFFICES ASSUME NEW x \in 1..Lanes, NEW j \in 1..Pipelines
               PROVE  /\ Accepted(x, j)' = Accepted(x, j)
                      /\ Sent(x, j)' = Sent(x, j) + IF x = l /\ j = i THEN 1 ELSE 0
                      /\ Sent(x, j - 1)' = Sent(x, j - 1) + IF x = l /\ j = i + 1 THEN 1 ELSE 0
                      /\ j < Pipelines => (Swallowed(Slot(x, j))' = Swallowed(Slot(x, j)))
                      /\ Slot(x, j) = e <=> x = l /\ j = i
                      /\ Slot(x, j) = c <=> x = l /\ j = i + 1
    OBVIOUS
  <2>1. /\ \A y : \A k \in 1..Pipelines : Slot(y, k) = e <=> y = l /\ k = i
        /\ Slot(x, j) = c <=> x = l /\ j = i + 1
        /\ \A k \in 1..Pipelines : Slot(x, k) \in Elements
    BY <1>1, Slots DEF c
  <2>2. /\ Accepted(x, j) \in Nat /\ Sent(x, j - 1) \in Nat /\ Sent(x, j) \in Nat
    BY <1>2, TokioCounts
  <2>3. Accepted(x, j)' = Accepted(x, j)
    <3>1. CASE j = Pipelines
      BY <1>2, <3>1, SlotCounts
    <3>2. CASE j # Pipelines
      BY <1>7, <2>1, <3>2, SlotCounts
    <3> QED
      BY <3>1, <3>2
  <2>4. \A k \in 1..Pipelines : Sent(x, k) \in Nat =>
          Sent(x, k)' = Sent(x, k) + IF x = l /\ k = i THEN 1 ELSE 0
    <3> SUFFICES ASSUME NEW k \in 1..Pipelines, Sent(x, k) \in Nat
                 PROVE  Sent(x, k)' = Sent(x, k) + IF x = l /\ k = i THEN 1 ELSE 0
      OBVIOUS
    <3>1. Sent(x, k) = fwd[Slot(x, k)].send_count /\ Sent(x, k)' = fwd'[Slot(x, k)].send_count
      BY SentCounts
    <3>2. CASE Slot(x, k) = e
      <4>1. fwd'[Slot(x, k)].send_count = fwd[Slot(x, k)].send_count + 1
        BY <1>7, <3>2
      <4> QED
        BY <2>1, <3>1, <3>2, <4>1
    <3>3. CASE Slot(x, k) # e
      BY <1>7, <2>1, <3>1, <3>3
    <3> QED
      BY <3>2, <3>3
  <2>5. Sent(x, j - 1)' = Sent(x, j - 1) + IF x = l /\ j = i + 1 THEN 1 ELSE 0
    <3>1. CASE j = 1
      <4>1. Sent(x, 0)' = Sent(x, 0)
        BY <1>9, SentCounts
      <4>2. j # i + 1
        BY <1>3, <3>1
      <4> QED
        BY <2>2, <3>1, <4>1, <4>2
    <3>2. CASE j # 1
      <4>1. j - 1 \in 1..Pipelines /\ (j - 1 = i <=> j = i + 1)
        BY <1>3, <3>2
      <4> QED
        BY <2>2, <2>4, <4>1
    <3> QED
      BY <3>1, <3>2
  <2>6. j < Pipelines => Swallowed(Slot(x, j))' = Swallowed(Slot(x, j))
    <3> SUFFICES ASSUME j < Pipelines
                 PROVE  Swallowed(Slot(x, j))' = Swallowed(Slot(x, j))
      OBVIOUS
    <3>1. CASE Slot(x, j) = e
      <4>1. Swallowed(Slot(x, j))' = fwd'[e].received_count - fwd'[e].send_count - Len(todo'[e])
        BY <3>1 DEF Swallowed
      <4>2. fwd'[e].received_count = Sent(l, i) + 1
        <5>1. Accepted(l, i) = fwd[e].received_count
          BY <1>1, <1>3, SlotCounts
        <5> QED
          BY <1>1, <1>7, <5>1
      <4>3. fwd'[e].send_count = Sent(l, i) + 1 /\ Len(todo'[e]) = 0
        BY <1>1, <1>5, <1>7, EmptySeq
      <4>4. Swallowed(Slot(x, j))' = (Sent(l, i) + 1) - (Sent(l, i) + 1) - 0
        BY <4>1, <4>2, <4>3, Zenon
      <4>5. Swallowed(Slot(x, j))' = 0
        BY <1>1, <4>4
      <4> QED
        BY <1>1, <3>1, <4>5
    <3>2. CASE Slot(x, j) # e
      BY <1>5, <1>7, <2>1, <3>2 DEF Swallowed
    <3> QED
      BY <3>1, <3>2
  <2> QED
    BY <2>1, <2>2, <2>3, <2>4, <2>5, <2>6
<1>14. TokioHops'
  <2> SUFFICES ASSUME NEW x \in 1..Lanes, NEW j \in 1..Pipelines
               PROVE  /\ Accepted(x, j)' <= Sent(x, j - 1)'
                      /\ Open(Slot(x, j))' =>
                           Sent(x, j - 1)' = Accepted(x, j)' + CountData(queue'[Slot(x, j)])
                      /\ j < Pipelines =>
                           \/ Swallowed(Slot(x, j))' = 0
                           \/ /\ Sent(x, j)' = 0
                              /\ todo'[Slot(x, j)] = <<>>
                              /\ fwd'[Slot(x, j)].next_seq = 0
    BY DEF TokioHops
  <2>1. /\ Accepted(x, j) <= Sent(x, j - 1)
        /\ Open(Slot(x, j)) => Sent(x, j - 1) = Accepted(x, j) + CountData(queue[Slot(x, j)])
        /\ j < Pipelines =>
             \/ Swallowed(Slot(x, j)) = 0
             \/ /\ Sent(x, j) = 0
                /\ todo[Slot(x, j)] = <<>>
                /\ fwd[Slot(x, j)].next_seq = 0
    BY DEF TokioInv, TokioHops
  <2>2. /\ Accepted(x, j) \in Nat /\ Sent(x, j - 1) \in Nat /\ Sent(x, j) \in Nat
        /\ CountData(queue[Slot(x, j)]) \in Nat
        /\ Slot(x, j) \in Elements /\ Slot(x, j) \in Channels
    BY <1>2, TokioCounts, Slots
  <2>3. Accepted(x, j)' <= Sent(x, j - 1)'
    <3>1. /\ Accepted(x, j)' = Accepted(x, j)
          /\ Sent(x, j - 1)' = Sent(x, j - 1) + IF x = l /\ j = i + 1 THEN 1 ELSE 0
      BY <1>13
    <3>2. Sent(x, j - 1)' = Sent(x, j - 1) \/ Sent(x, j - 1)' = Sent(x, j - 1) + 1
      BY <2>2, <3>1
    <3> QED
      BY <2>1, <2>2, <3>1, <3>2
  <2>4. Open(Slot(x, j))' =>
          Sent(x, j - 1)' = Accepted(x, j)' + CountData(queue'[Slot(x, j)])
    <3> SUFFICES ASSUME Open(Slot(x, j))
                 PROVE  Sent(x, j - 1)' = Accepted(x, j)' + CountData(queue'[Slot(x, j)])
      BY <1>9, <2>2
    <3>1. CASE Slot(x, j) = c
      <4>1. CountData(queue'[Slot(x, j)]) = CountData(queue[Slot(x, j)]) + 1
        BY <1>6, <3>1
      <4>2. Sent(x, j - 1)' = Sent(x, j - 1) + 1 /\ Accepted(x, j)' = Accepted(x, j)
        BY <1>13, <3>1
      <4> QED
        BY <2>1, <2>2, <4>1, <4>2
    <3>2. CASE Slot(x, j) # c
      <4>1. queue'[Slot(x, j)] = queue[Slot(x, j)]
        BY <1>6, <2>2, <3>2
      <4>2. Sent(x, j - 1)' = Sent(x, j - 1) /\ Accepted(x, j)' = Accepted(x, j)
        BY <1>13, <2>2, <3>2
      <4> QED
        BY <2>1, <4>1, <4>2
    <3> QED
      BY <3>1, <3>2
  <2>5. j < Pipelines =>
          \/ Swallowed(Slot(x, j))' = 0
          \/ /\ Sent(x, j)' = 0
             /\ todo'[Slot(x, j)] = <<>>
             /\ fwd'[Slot(x, j)].next_seq = 0
    <3>1. CASE Slot(x, j) = e
      BY <1>1, <1>13, <3>1
    <3>2. CASE Slot(x, j) # e
      BY <1>5, <1>7, <1>13, <2>1, <2>2, <3>2
    <3> QED
      BY <3>1, <3>2
  <2> QED
    BY <2>3, <2>4, <2>5
<1>15. TokioOrder'
  <2>1. \A x \in 1..Lanes : \A k \in 1..Pipelines : \A j \in k..Pipelines : j \in 1..Pipelines
    OBVIOUS
  <2> QED
    BY <1>9, <1>13, <2>1 DEF TokioInv, TokioOrder
<1>16. TokioNumbers'
  <2> SUFFICES ASSUME NEW x \in 1..Lanes, NEW j \in 1..(Pipelines - 1), j # 1 \/ ~Broken
               PROVE  /\ Open(Slot(x, j))' => NumberedFrom(queue'[Slot(x, j)], Count(x, j)')
                      /\ Swallowed(Slot(x, j))' = 0 /\ Count(x, j)' > 0 =>
                           fwd'[Slot(x, j)].next_seq = Count(x, j)'
    BY <1>9 DEF TokioNumbers
  <2>1. j \in 1..Pipelines /\ j # Pipelines /\ j < Pipelines
    BY Slots
  <2>2. Slot(x, j) \in Elements /\ Slot(x, j) \in Channels
    BY <2>1, Slots
  <2>3. /\ Open(Slot(x, j)) => NumberedFrom(queue[Slot(x, j)], Count(x, j))
        /\ Swallowed(Slot(x, j)) = 0 /\ Count(x, j) > 0 =>
             fwd[Slot(x, j)].next_seq = Count(x, j)
    BY DEF TokioInv, TokioNumbers
  <2>4. Count(x, j)' = Count(x, j)
    <3>1. Accepted(x, j)' = Accepted(x, j)
      BY <1>13, <2>1
    <3> QED
      BY <1>9, <3>1 DEF Count
  <2>5. Swallowed(Slot(x, j))' = Swallowed(Slot(x, j)) /\ fwd'[Slot(x, j)].next_seq = fwd[Slot(x, j)].next_seq
    BY <1>7, <1>13, <2>1, <2>2
  <2>6. Open(Slot(x, j)) => NumberedFrom(queue'[Slot(x, j)], Count(x, j))
    <3> SUFFICES ASSUME Open(Slot(x, j))
                 PROVE  NumberedFrom(queue'[Slot(x, j)], Count(x, j))
      OBVIOUS
    <3>1. CASE Slot(x, j) = c
      <4>1. x = l /\ j = i + 1 /\ j # 1 /\ j - 1 = i
        BY <1>3, <1>13, <2>1, <3>1
      <4>2. /\ Accepted(x, j) \in Nat /\ CountData(queue[Slot(x, j)]) \in Nat
            /\ Sent(x, j - 1) = Accepted(x, j) + CountData(queue[Slot(x, j)])
        BY <1>2, <2>1, TokioCounts DEF TokioInv, TokioHops
      <4>3. Count(x, j) = Accepted(x, j)
        BY <4>1, <4>2 DEF Count
      <4>4. Sent(l, i) = Count(x, j) + CountData(queue[c]) /\ Count(x, j) \in Int
        BY <3>1, <4>1, <4>2, <4>3
      <4> QED
        BY <1>6, <2>3, <3>1, <4>4
    <3>2. CASE Slot(x, j) # c
      BY <1>6, <2>2, <2>3, <3>2
    <3> QED
      BY <3>1, <3>2
  <2> QED
    BY <1>9, <2>2, <2>3, <2>4, <2>5, <2>6
<1>17. TokioPanics'
  <2>1. \A x \in 1..Lanes : \A j \in 1..Pipelines :
          pc[Slot(x, j)] = "panicked" =>
            /\ j < Pipelines
            /\ \/ Swallowed(Slot(x, j)) > 0
               \/ j = 1 /\ \E k \in 2..Pipelines : pc[Slot(x, k)] = "panicked"
    BY DEF TokioInv, TokioPanics
  <2> QED
    BY <1>2, <1>13, <2>1 DEF TokioPanics
<1>18. TokioRuns'
  BY <1>2, <1>9, RunsFrame
<1>19. TokioNotices'
  <2>1. \A x \in 1..Lanes : fwd'[Last(x)].received_count = fwd[Last(x)].received_count
    BY <1>7, Slots
  <2>2. /\ fwd'[Concentrator].received_count = fwd[Concentrator].received_count
        /\ queue'[Concentrator] = queue[Concentrator]
        /\ queue'[Notifier] = queue[Notifier]
    BY <1>3, <1>6, <1>7, Names
  <2> QED
    BY <1>2, <1>9, <2>1, <2>2, NoticesFrame
<1> QED
  BY <1>8, <1>10, <1>11, <1>12, <1>14, <1>15, <1>16, <1>17, <1>18, <1>19 DEF TokioInv

-----------------------------------------------------------------------------
(* The end of an element's turn.                                           *)

\* What it does to the receivers, whatever there is to notify.
LEMMA TokioTurn ==
  ASSUME TokioInv, NEW e \in Elements, handle_notification(e),
         UNCHANGED <<phase, iteration, lane, id, spawned, fed>>
  PROVE  /\ TokioTypes /\ TokioControl /\ Types /\ Control /\ TokioControl' /\ TokioLifetimes'
         /\ UNCHANGED <<todo, delivered, phase, iteration, lane, id, spawned, fed>>
         /\ pc[e] = "action" /\ todo[e] = <<>> /\ pc' = [pc EXCEPT ![e] = "recv"]
         /\ \A c \in Channels : Open(c)' <=> Open(c)
         /\ \A x \in Elements : /\ Open(x)' <=> Open(x)
                                /\ pc'[x] = "panicked" <=> pc[x] = "panicked"
                                /\ ConfigSent(x)' <=> ConfigSent(x)
         /\ Done' = Done
         /\ \A x \in Elements : x # e => pc'[x] = pc[x]
         /\ pc'[e] = "recv"
         /\ fwd[e] \in Forwarders /\ fwd[e].received_count >= 1
         /\ e \in Channels /\ e # Notifier
<1>1. /\ TokioTypes /\ TokioControl /\ Types /\ Control
      /\ UNCHANGED <<todo, delivered, phase, iteration, lane, id, spawned, fed>>
      /\ pc[e] = "action" /\ todo[e] = <<>> /\ pc' = [pc EXCEPT ![e] = "recv"]
  BY DEF TokioInv, TokioTypes, TokioControl, handle_notification
<1>2. e \in Channels /\ e # Notifier /\ fwd[e] \in Forwarders /\ fwd[e].received_count >= 1
  BY <1>1, Names DEF Types, TokioInv, TokioActions
<1>3. pc'[e] = "recv" /\ \A c \in Channels : c # e => pc'[c] = pc[c]
  BY <1>1, <1>2 DEF Types
<1>4. \A c \in Channels : Open(c)' <=> Open(c)
  BY <1>1, <1>3 DEF Open
<1>5. \A x \in Elements : /\ Open(x)' <=> Open(x)
                          /\ pc'[x] = "panicked" <=> pc[x] = "panicked"
                          /\ ConfigSent(x)' <=> ConfigSent(x)
                          /\ Created(x)' <=> Created(x)
                          /\ x # e => pc'[x] = pc[x]
  BY <1>1, <1>3, <1>4, Names DEF ConfigSent, Created
<1>6. Done' = Done
  BY <1>1 DEF Done
<1>7. TokioControl'
  BY <1>1 DEF TokioControl, Control
<1>8. TokioLifetimes'
  <2>1. Created(e)
    BY <1>1 DEF TokioInv, TokioLifetimes
  <2>2. \A x \in Elements : ~Created(x)' => pc'[x] = "unborn"
    BY <1>5, <2>1 DEF TokioInv, TokioLifetimes
  <2>3. pc'[Notifier] = pc[Notifier]
    BY <1>2, <1>3, Names
  <2> QED
    BY <1>1, <1>5, <2>2, <2>3, LifetimesFrame DEF TokioInv, TokioLifetimes
<1> QED
  BY <1>1, <1>2, <1>3, <1>4, <1>5, <1>6, <1>7, <1>8

\* There is nothing to notify.
LEMMA TokioNotDueInv ==
  ASSUME TokioInv, NEW e \in Elements, handle_notification(e), ~notification_due(fwd[e]),
         UNCHANGED <<phase, iteration, lane, id, spawned, fed>>
  PROVE  TokioInv'
<1>1. /\ TokioTypes /\ Types /\ TokioControl' /\ TokioLifetimes'
      /\ UNCHANGED <<todo, delivered, phase, iteration, lane, id, spawned, fed>>
      /\ pc[e] = "action" /\ todo[e] = <<>> /\ pc' = [pc EXCEPT ![e] = "recv"]
      /\ \A x \in Elements : /\ Open(x)' <=> Open(x)
                             /\ pc'[x] = "panicked" <=> pc[x] = "panicked"
                             /\ ConfigSent(x)' <=> ConfigSent(x)
      /\ Done' = Done
      /\ \A x \in Elements : x # e => pc'[x] = pc[x]
      /\ pc'[e] = "recv"
  BY TokioTurn
<1>2. queue' = queue /\ fwd' = fwd
  BY DEF handle_notification
<1>3. TokioHops' /\ TokioOrder' /\ TokioNumbers' /\ TokioPanics' /\ TokioNotices'
      /\ (Broken' <=> Broken) /\ \A x : FedTo(x)' = FedTo(x)
  BY <1>1, <1>2, LanesFrame
<1>4. TokioRuns'
  BY <1>1, <1>3, RunsFrame
<1>5. TokioConfiguration'
  <2>1. ~Configures(queue'[Notifier])
    BY <1>2 DEF TokioInv, TokioConfiguration
  <2> QED
    BY <1>1, <1>2, <2>1, ConfigurationFrame DEF Unconfigured
<1>6. TokioActions'
  BY <1>1, <1>2 DEF TokioInv, TokioActions
<1>7. TokioTypes'
  <2>1. pc' \in [Channels -> {"unborn", "recv", "action", "exited", "panicked"}]
    BY <1>1 DEF Types
  <2> QED
    BY <1>1, <1>2, <2>1 DEF TokioTypes, Types
<1> QED
  BY <1>1, <1>3, <1>4, <1>5, <1>6, <1>7 DEF TokioInv

\* Only an element at the end of a lane and the concentrator ever have something
\* to notify, once they are configured.
LEMMA Notifies ==
  ASSUME TokioInv, NEW e \in Elements, handle_notification(e), notification_due(fwd[e])
  PROVE  /\ ~Awaits(e) /\ Configured(e)
         /\ \/ e = Concentrator /\ fwd[e].received_count = Lanes /\ fwd[e].notify_sender = Notifier
            \/ \E l \in 1..Lanes : /\ e = Last(l) /\ fwd[e].received_count = Messages
                                   /\ fwd[e].notify_sender = Concentrator
<1>1. fwd[e].received_count >= 1 /\ fwd[e].received_count = fwd[e].notify_count
  BY DEF TokioInv, TokioActions, handle_notification, notification_due
<1>2. ~Awaits(e) /\ Configured(e)
  <2>1. ~Unconfigured(e)
    BY <1>1 DEF Unconfigured
  <2> QED
    BY <2>1 DEF TokioInv, TokioConfiguration
<1>3. CASE e = Concentrator
  BY <1>1, <1>2, <1>3, ConfiguredSlots
<1>4. CASE e # Concentrator
  <2>1. PICK l \in 1..Lanes, i \in 1..Pipelines : e = Slot(l, i)
    BY <1>4, Slots
  <2>2. i = Pipelines
    <3> SUFFICES ASSUME i # Pipelines PROVE FALSE
      OBVIOUS
    <3>1. fwd[e].notify_count = 0
      BY <1>2, <2>1, ConfiguredSlots
    <3> QED
      BY <1>1, <3>1
  <2>3. e = Last(l)
    BY <2>1, <2>2 DEF Last
  <2>4. fwd[e].notify_count = Messages /\ fwd[e].notify_sender = Concentrator
    BY <1>2, <2>1, <2>2, ConfiguredSlots
  <2> QED
    BY <1>1, <1>2, <2>3, <2>4
<1> QED
  BY <1>3, <1>4

\* What a notification does, whoever sends it: one message to `c`, and the counts
\* of the sender start again from 0.
LEMMA TokioNotifyFacts ==
  ASSUME TokioInv, NEW e \in Elements, handle_notification(e), notification_due(fwd[e]),
         UNCHANGED <<phase, iteration, lane, id, spawned, fed>>,
         NEW c \in Channels, fwd[e].notify_sender = c, Open(c), c # e,
         \A l \in 1..Lanes : \A i \in 1..Pipelines :
           Slot(l, i) # c /\ (Slot(l, i) = e => i = Pipelines)
  PROVE  /\ TokioTypes' /\ TokioControl' /\ TokioLifetimes' /\ TokioConfiguration' /\ TokioActions'
         /\ TokioHops' /\ TokioOrder' /\ TokioNumbers' /\ TokioPanics' /\ TokioRuns'
         /\ \A d \in Channels : d # c => queue'[d] = queue[d]
         /\ Len(queue'[c]) = Len(queue[c]) + 1
         /\ CountData(queue'[c]) = CountData(queue[c]) + 1
         /\ fwd'[e].received_count = 0
         /\ \A x \in Elements : x # e => fwd'[x] = fwd[x]
         /\ delivered' = delivered /\ Done' = Done /\ (Broken' <=> Broken)
<1>1. /\ TokioTypes /\ Types /\ TokioControl' /\ TokioLifetimes'
      /\ UNCHANGED <<todo, delivered, phase, iteration, lane, id, spawned, fed>>
      /\ pc[e] = "action" /\ todo[e] = <<>> /\ pc' = [pc EXCEPT ![e] = "recv"]
      /\ \A x \in Elements : /\ Open(x)' <=> Open(x)
                             /\ pc'[x] = "panicked" <=> pc[x] = "panicked"
                             /\ ConfigSent(x)' <=> ConfigSent(x)
      /\ Done' = Done
      /\ \A x \in Elements : x # e => pc'[x] = pc[x]
      /\ pc'[e] = "recv"
      /\ fwd[e] \in Forwarders
  BY TokioTurn
<1> DEFINE n == fwd[e].received_count
<1>2. n \in Nat /\ send_cmd(c, TestData(n))
      /\ fwd' = [fwd EXCEPT ![e] = get_and_clear_received_count(fwd[e])]
  BY <1>1 DEF handle_notification, Forwarders
<1> HIDE DEF n
<1>3. /\ queue' \in [Channels -> Seq(Message)]
      /\ \A d \in Channels : Len(queue'[d]) <= Cap
      /\ \A d \in Channels : d # c => queue'[d] = queue[d]
      /\ Configures(queue'[c]) <=> Configures(queue[c])
      /\ \A m : OnlyConfig(queue[c], m) => OnlyConfig(queue'[c], m)
      /\ Len(queue'[c]) = Len(queue[c]) + 1
      /\ CountData(queue'[c]) = CountData(queue[c]) + 1
  BY <1>1, <1>2, TokioSend
<1>4. fwd'[e] = get_and_clear_received_count(fwd[e]) /\ \A x \in Elements : x # e => fwd'[x] = fwd[x]
  BY <1>1, <1>2 DEF Types
<1>5. /\ fwd'[e] \in Forwarders /\ fwd'[e].received_count = 0
      /\ fwd'[e].senders = fwd[e].senders
      /\ fwd'[e].notify_sender = fwd[e].notify_sender
      /\ fwd'[e].notify_count = fwd[e].notify_count
  BY <1>1, <1>4, ClearCount
<1>6. TokioTypes'
  <2>1. fwd' \in [Elements -> Forwarders]
    BY <1>1, <1>2, <1>4, <1>5 DEF Types
  <2>2. pc' \in [Channels -> {"unborn", "recv", "action", "exited", "panicked"}]
    BY <1>1 DEF Types
  <2> QED
    BY <1>1, <1>3, <2>1, <2>2 DEF TokioTypes, Types
<1>7. TokioHops' /\ TokioOrder' /\ TokioNumbers' /\ TokioPanics'
      /\ (Broken' <=> Broken) /\ \A x : FedTo(x)' = FedTo(x)
  <2>1. \A l \in 1..Lanes : \A i \in 1..Pipelines :
          /\ queue'[Slot(l, i)] = queue[Slot(l, i)]
          /\ i # Pipelines => fwd'[Slot(l, i)] = fwd[Slot(l, i)]
          /\ Open(Slot(l, i))' => Open(Slot(l, i))
          /\ pc'[Slot(l, i)] = "panicked" <=> pc[Slot(l, i)] = "panicked"
    <3> SUFFICES ASSUME NEW l \in 1..Lanes, NEW i \in 1..Pipelines
                 PROVE  /\ queue'[Slot(l, i)] = queue[Slot(l, i)]
                        /\ i # Pipelines => fwd'[Slot(l, i)] = fwd[Slot(l, i)]
                        /\ Open(Slot(l, i))' => Open(Slot(l, i))
                        /\ pc'[Slot(l, i)] = "panicked" <=> pc[Slot(l, i)] = "panicked"
      OBVIOUS
    <3>1. Slot(l, i) \in Elements /\ Slot(l, i) \in Channels
      BY Slots
    <3> QED
      BY <1>1, <1>3, <1>4, <3>1
  <2> QED
    BY <1>1, <2>1, SlotsFrame
<1>8. TokioRuns'
  BY <1>1, <1>7, RunsFrame
<1>9. TokioConfiguration'
  <2>1. ~Unconfigured(e)
    <3>1. fwd[e].notify_sender # None
      BY Names
    <3> QED
      BY <3>1 DEF Unconfigured
  <2>2. ASSUME NEW x \in Elements
        PROVE  /\ ~Open(x) => queue'[x] = queue[x]
               /\ Configures(queue'[x]) <=> Configures(queue[x])
               /\ OnlyConfig(queue[x], ConfigOf(x)) => OnlyConfig(queue'[x], ConfigOf(x))
               /\ fwd'[x].senders = fwd[x].senders
               /\ fwd'[x].notify_sender = fwd[x].notify_sender
               /\ fwd'[x].notify_count = fwd[x].notify_count
               /\ Unconfigured(x) => fwd'[x].send_count = 0 /\ fwd'[x].next_seq = 0
    <3>1. x \in Channels
      BY Names
    <3>2. /\ ~Open(x) => queue'[x] = queue[x]
          /\ Configures(queue'[x]) <=> Configures(queue[x])
          /\ OnlyConfig(queue[x], ConfigOf(x)) => OnlyConfig(queue'[x], ConfigOf(x))
      <4>1. CASE x = c
        BY <1>3, <4>1
      <4>2. CASE x # c
        BY <1>3, <3>1, <4>2
      <4> QED
        BY <4>1, <4>2
    <3>3. /\ fwd'[x].senders = fwd[x].senders
          /\ fwd'[x].notify_sender = fwd[x].notify_sender
          /\ fwd'[x].notify_count = fwd[x].notify_count
          /\ Unconfigured(x) => fwd'[x].send_count = 0 /\ fwd'[x].next_seq = 0
      BY <1>4, <1>5, <2>1 DEF Unconfigured
    <3> QED
      BY <3>2, <3>3
  <2>3. ~Configures(queue'[Notifier])
    <3>1. ~Configures(queue[Notifier])
      BY DEF TokioInv, TokioConfiguration
    <3> QED
      BY <1>3, <3>1, Names
  <2> QED
    BY <1>1, <2>2, <2>3, ConfigurationFrame
<1>10. TokioActions'
  <2> SUFFICES ASSUME NEW x \in Elements
               PROVE  /\ todo'[x] # <<>> => pc'[x] = "action" /\ todo'[x] = fwd'[x].senders
                      /\ pc'[x] = "action" => fwd'[x].received_count >= 1
    BY DEF TokioActions
  <2>1. /\ todo[x] # <<>> => pc[x] = "action" /\ todo[x] = fwd[x].senders
        /\ pc[x] = "action" => fwd[x].received_count >= 1
    BY DEF TokioInv, TokioActions
  <2> QED
    BY <1>1, <1>4, <2>1
<1> QED
  BY <1>1, <1>3, <1>4, <1>5, <1>6, <1>7, <1>8, <1>9, <1>10

\* The end of a lane notifies the concentrator, when all the run's messages are there.
LEMMA TokioLaneNotifyInv ==
  ASSUME TokioInv, NEW l \in 1..Lanes, handle_notification(Last(l)),
         notification_due(fwd[Last(l)]),
         UNCHANGED <<phase, iteration, lane, id, spawned, fed>>
  PROVE  TokioInv'
<1> USE PipelineAssumption
<1> DEFINE e == Last(l)
<1>1. /\ e \in Elements /\ e # Concentrator /\ e # Notifier /\ e = Slot(l, Pipelines)
      /\ \A k \in 1..Lanes : Last(k) \in Elements /\ (k # l => Last(k) # e)
      /\ \A k \in 1..Lanes : \A i \in 1..Pipelines :
           Slot(k, i) # Concentrator /\ (Slot(k, i) = e => i = Pipelines)
  BY Slots
<1>2. fwd[e].notify_sender = Concentrator /\ fwd[e].received_count = Messages
  BY <1>1, Notifies
<1>3. ~Notified(l)
  BY <1>2 DEF Notified
<1>4. ~Broken /\ Done \in Nat /\ delivered[l] \in Nat /\ delivered[l] = Done + Messages
  <2>1. Pipelines \in 1..Pipelines
    BY Slots
  <2>2. Done \in Nat /\ delivered[l] \in Nat
    BY <2>1, DoneType, TokioCounts DEF TokioInv
  <2>3. ~Broken
    BY <1>2 DEF TokioInv, TokioNotices
  <2>4. Messages = delivered[l] - Done
    BY <1>2, <1>3, <2>3 DEF TokioInv, TokioNotices
  <2> QED
    BY <2>2, <2>3, <2>4
<1>5. phase = "waiting"
  <2>1. Pipelines \in 1..Pipelines
    BY Slots
  <2>2. delivered[l] <= FedTo(l) /\ FedTo(l) \in Nat
    BY <2>1, TokioCounts DEF TokioInv, TokioOrder
  <2>3. phase # "waiting" => FedTo(l) = Done + 0
    BY <1>4 DEF TokioInv, TokioRuns
  <2> QED
    BY <1>4, <2>2, <2>3
<1>6. Open(Concentrator) /\ Concentrator \in Channels
  BY <1>4, <1>5, Names DEF TokioInv, TokioLifetimes
<1> HIDE DEF e
<1>7. /\ TokioTypes' /\ TokioControl' /\ TokioLifetimes' /\ TokioConfiguration' /\ TokioActions'
      /\ TokioHops' /\ TokioOrder' /\ TokioNumbers' /\ TokioPanics' /\ TokioRuns'
      /\ \A d \in Channels : d # Concentrator => queue'[d] = queue[d]
      /\ CountData(queue'[Concentrator]) = CountData(queue[Concentrator]) + 1
      /\ fwd'[e].received_count = 0
      /\ \A x \in Elements : x # e => fwd'[x] = fwd[x]
      /\ delivered' = delivered /\ Done' = Done /\ (Broken' <=> Broken)
  <2>1. handle_notification(e) /\ notification_due(fwd[e])
    BY DEF e
  <2> QED
    BY <1>1, <1>2, <1>6, <2>1, TokioNotifyFacts
<1>8. Notified(l)' /\ \A k \in 1..Lanes : k # l => (Notified(k)' <=> Notified(k))
  BY <1>1, <1>4, <1>7 DEF Notified, e, Last
<1>9. NotifiedLanes' = NotifiedLanes \cup {l} /\ l \notin NotifiedLanes
  BY <1>3, <1>8 DEF NotifiedLanes
<1>10. /\ Cardinality(NotifiedLanes) \in Nat
       /\ Cardinality(NotifiedLanes') = Cardinality(NotifiedLanes) + 1
  <2>1. IsFiniteSet(NotifiedLanes)
    <3>1. IsFiniteSet(1..Lanes) /\ NotifiedLanes \subseteq 1..Lanes
      BY FS_Interval DEF NotifiedLanes
    <3> QED
      BY <3>1, FS_Subset
  <2> QED
    BY <1>9, <2>1, FS_AddElement, FS_CardinalityType
<1>11. TokioNotices'
  <2>1. \A k \in 1..Lanes :
          IF Broken' THEN fwd'[Last(k)].received_count = 0
          ELSE /\ Done' <= delivered'[k]
               /\ \/ Notified(k)'
                  \/ fwd'[Last(k)].received_count = delivered'[k] - Done'
    <3> SUFFICES ASSUME NEW k \in 1..Lanes
                 PROVE  /\ Done <= delivered[k]
                        /\ \/ Notified(k)'
                           \/ fwd'[Last(k)].received_count = delivered[k] - Done
      BY <1>4, <1>7
    <3>1. /\ Done <= delivered[k]
          /\ \/ Notified(k)
             \/ fwd[Last(k)].received_count = delivered[k] - Done
      BY <1>4 DEF TokioInv, TokioNotices
    <3> QED
      BY <1>1, <1>7, <1>8, <3>1
  <2>2. /\ queue[Notifier] = <<>>
        /\ fwd[Concentrator].received_count + CountData(queue[Concentrator])
             = Cardinality(NotifiedLanes)
    BY <1>9 DEF TokioInv, TokioNotices
  <2>3. queue'[Notifier] = <<>> /\ fwd'[Concentrator] = fwd[Concentrator]
    BY <1>1, <1>7, <2>2, Names
  <2>4. fwd[Concentrator].received_count \in Nat /\ CountData(queue[Concentrator]) \in Nat
    <3>1. queue[Concentrator] \in Seq(Message) /\ fwd[Concentrator] \in Forwarders
      BY Names DEF TokioInv, TokioTypes, Types
    <3> QED
      BY <3>1, CountDataType DEF Forwarders
  <2>5. fwd'[Concentrator].received_count + CountData(queue'[Concentrator])
          = Cardinality(NotifiedLanes')
    BY <1>7, <1>10, <2>2, <2>3, <2>4
  <2> QED
    BY <2>1, <2>3, <2>5 DEF TokioNotices, Last
<1> QED
  BY <1>7, <1>11 DEF TokioInv

\* The notification of the run, when all the lanes have notified the concentrator.
LEMMA TokioConcentratorNotifyInv ==
  ASSUME TokioInv, handle_notification(Concentrator), notification_due(fwd[Concentrator]),
         UNCHANGED <<phase, iteration, lane, id, spawned, fed>>
  PROVE  TokioInv'
<1> USE PipelineAssumption
<1>1. /\ Concentrator \in Elements /\ Notifier \in Channels /\ Notifier # Concentrator
      /\ Concentrator \in Channels
      /\ \A k \in 1..Lanes : \A i \in 1..Pipelines :
           Slot(k, i) # Notifier /\ Slot(k, i) # Concentrator
      /\ \A k \in 1..Lanes : Last(k) \in Elements /\ Last(k) # Concentrator
  BY Names, Slots
<1>2. fwd[Concentrator].notify_sender = Notifier /\ fwd[Concentrator].received_count = Lanes
  <2> DEFINE e == Concentrator
  <2>1. \/ e = Concentrator /\ fwd[e].received_count = Lanes /\ fwd[e].notify_sender = Notifier
        \/ \E l \in 1..Lanes : /\ e = Last(l) /\ fwd[e].received_count = Messages
                               /\ fwd[e].notify_sender = Concentrator
    BY <1>1, Notifies
  <2>2. \A l \in 1..Lanes : e # Last(l)
    BY <1>1
  <2> HIDE DEF e
  <2>3. fwd[e].received_count = Lanes /\ fwd[e].notify_sender = Notifier
    BY <2>1, <2>2
  <2> QED
    BY <2>3 DEF e
<1>3. /\ queue[Notifier] = <<>>
      /\ Lanes + CountData(queue[Concentrator]) = Cardinality(NotifiedLanes)
  BY <1>2 DEF TokioInv, TokioNotices
<1>4. CountData(queue[Concentrator]) \in Nat
  <2>1. queue[Concentrator] \in Seq(Message)
    BY <1>1 DEF TokioInv, TokioTypes, Types
  <2> QED
    BY <2>1, CountDataType
<1>5. /\ IsFiniteSet(1..Lanes) /\ Cardinality(1..Lanes) = Lanes
      /\ NotifiedLanes \subseteq 1..Lanes
  BY FS_Interval DEF NotifiedLanes
<1>6. /\ Cardinality(NotifiedLanes) \in Nat
      /\ Cardinality(NotifiedLanes) <= Lanes
      /\ Cardinality(NotifiedLanes) = Lanes => NotifiedLanes = 1..Lanes
  <2>1. /\ IsFiniteSet(NotifiedLanes)
        /\ Cardinality(NotifiedLanes) <= Cardinality(1..Lanes)
        /\ Cardinality(1..Lanes) = Cardinality(NotifiedLanes) => 1..Lanes = NotifiedLanes
    BY <1>5, FS_Subset
  <2>2. Cardinality(NotifiedLanes) \in Nat
    BY <2>1, FS_CardinalityType
  <2> QED
    BY <1>5, <2>1, <2>2
<1>7. CountData(queue[Concentrator]) = 0 /\ NotifiedLanes = 1..Lanes
  BY <1>3, <1>4, <1>6
<1>8. ~Broken /\ phase = "waiting"
  <2>1. 1 \in 1..Lanes
    OBVIOUS
  <2>2. Notified(1)
    BY <1>7, <2>1 DEF NotifiedLanes
  <2>3. ~Broken
    BY <2>1, <2>2, PanickedSilent DEF Broken
  <2>4. Pipelines \in 1..Pipelines
    BY Slots
  <2>5. delivered[1] <= FedTo(1) /\ FedTo(1) \in Nat /\ Done \in Nat
    BY <2>1, <2>4, DoneType, TokioCounts DEF TokioInv, TokioOrder
  <2>6. delivered[1] = Done + Messages
    BY <2>2 DEF Notified
  <2>7. phase # "waiting" => FedTo(1) = Done + 0
    BY <2>1, <2>3 DEF TokioInv, TokioRuns
  <2> QED
    BY <2>3, <2>5, <2>6, <2>7
<1>9. Open(Notifier)
  BY <1>1, <1>8 DEF TokioInv, TokioLifetimes, Open
<1>10. /\ TokioTypes' /\ TokioControl' /\ TokioLifetimes' /\ TokioConfiguration' /\ TokioActions'
       /\ TokioHops' /\ TokioOrder' /\ TokioNumbers' /\ TokioPanics' /\ TokioRuns'
       /\ \A d \in Channels : d # Notifier => queue'[d] = queue[d]
       /\ Len(queue'[Notifier]) = Len(queue[Notifier]) + 1
       /\ fwd'[Concentrator].received_count = 0
       /\ \A x \in Elements : x # Concentrator => fwd'[x] = fwd[x]
       /\ delivered' = delivered /\ Done' = Done /\ (Broken' <=> Broken)
  BY <1>1, <1>2, <1>9, TokioNotifyFacts
<1>11. \A k \in 1..Lanes : fwd'[Last(k)] = fwd[Last(k)]
  BY <1>1, <1>10
<1>12. (\A k \in 1..Lanes : Notified(k)' <=> Notified(k)) /\ NotifiedLanes' = NotifiedLanes
  BY <1>10, <1>11 DEF Notified, NotifiedLanes, Last
<1>13. TokioNotices'
  <2>1. \A k \in 1..Lanes :
          IF Broken' THEN fwd'[Last(k)].received_count = 0
          ELSE /\ Done' <= delivered'[k]
               /\ \/ Notified(k)'
                  \/ fwd'[Last(k)].received_count = delivered'[k] - Done'
    BY <1>10, <1>11, <1>12 DEF TokioInv, TokioNotices
  <2>2. Len(queue'[Notifier]) = 1
    BY <1>3, <1>10, EmptySeq
  <2>3. CountData(queue'[Concentrator]) = 0
    BY <1>1, <1>7, <1>10
  <2>4. phase' = "waiting"
    BY <1>8
  <2> QED
    BY <1>7, <1>10, <1>12, <2>1, <2>2, <2>3, <2>4 DEF TokioNotices, Last
<1> QED
  BY <1>10, <1>13 DEF TokioInv

\* The end of an element's turn, whichever element it is.
LEMMA TokioHandleNotificationInv ==
  ASSUME TokioInv, NEW e \in Elements, handle_notification(e),
         UNCHANGED <<phase, iteration, lane, id, spawned, fed>>
  PROVE  TokioInv'
<1>1. CASE ~notification_due(fwd[e])
  BY <1>1, TokioNotDueInv
<1>2. CASE notification_due(fwd[e])
  <2>1. e = Concentrator \/ \E l \in 1..Lanes : e = Last(l)
    BY <1>2, Notifies
  <2> QED
    BY <1>2, <2>1, TokioConcentratorNotifyInv, TokioLaneNotifyInv
<1> QED
  BY <1>1, <1>2

-----------------------------------------------------------------------------
(* An element ends.                                                        *)

\* What that does, whether it panicked or found its channel disconnected.
LEMMA TokioClose ==
  ASSUME TokioInv, NEW e \in Elements, pc[e] = "recv", ~Awaits(e),
         NEW label \in {"exited", "panicked"}, Close({e}, label),
         UNCHANGED <<phase, iteration, lane, id, spawned, fed>>
  PROVE  /\ TokioTypes' /\ TokioControl' /\ TokioConfiguration' /\ TokioActions'
         /\ UNCHANGED <<fwd, todo, delivered, phase, iteration, lane, id, spawned, fed>>
         /\ e \in Channels /\ e # Notifier /\ Open(e) /\ Created(e)
         /\ pc'[e] = label /\ \A c \in Channels : c # e => pc'[c] = pc[c]
         /\ queue'[e] = <<>> /\ \A c \in Channels : c # e => queue'[c] = queue[c]
         /\ \A c \in Channels : Open(c)' <=> Open(c) /\ c # e
         /\ \A x \in Elements : ~Created(x)' => pc'[x] = "unborn"
         /\ pc'[Notifier] = pc[Notifier]
         /\ Done' = Done /\ \A x : FedTo(x)' = FedTo(x)
<1>1. /\ TokioTypes /\ TokioControl /\ Types /\ Control
      /\ UNCHANGED <<fwd, todo, delivered, phase, iteration, lane, id, spawned, fed>>
  BY DEF TokioInv, TokioTypes, TokioControl, Close
<1>2. e \in Channels /\ e # Notifier /\ Open(e)
  BY Names DEF Open
<1>3. /\ pc'[e] = label /\ \A c \in Channels : c # e => pc'[c] = pc[c]
      /\ queue'[e] = <<>> /\ \A c \in Channels : c # e => queue'[c] = queue[c]
  BY <1>2 DEF Close
<1>4. Created(e)
  BY DEF TokioInv, TokioLifetimes
<1>5. \A c \in Channels : Open(c)' <=> Open(c) /\ c # e
  BY <1>3 DEF Open
<1>6. \A x \in Elements : /\ Created(x)' <=> Created(x)
                          /\ ConfigSent(x)' <=> ConfigSent(x)
  BY <1>1 DEF Created, ConfigSent
<1>7. \A x \in Elements : ~Created(x)' => pc'[x] = "unborn"
  BY <1>3, <1>4, <1>6, Names DEF TokioInv, TokioLifetimes
<1>8. TokioTypes' /\ TokioControl'
  <2>1. pc' \in [Channels -> {"unborn", "recv", "action", "exited", "panicked"}]
    <3>1. pc' = [c \in Channels |-> IF c \in {e} THEN label ELSE pc[c]]
      BY DEF Close
    <3>2. \A c \in Channels : pc[c] \in {"unborn", "recv", "action", "exited", "panicked"}
      BY <1>1 DEF Types
    <3> QED
      BY <3>1, <3>2
  <2>2. queue' \in [Channels -> Seq(Message)]
    <3>1. queue' = [c \in Channels |-> IF c \in {e} THEN <<>> ELSE queue[c]]
      BY DEF Close
    <3>2. <<>> \in Seq(Message) /\ \A c \in Channels : queue[c] \in Seq(Message)
      BY <1>1 DEF Types
    <3> QED
      BY <3>1, <3>2
  <2>3. \A c \in Channels : Len(queue'[c]) <= Cap
    <3>1. Len(<<>>) = 0 /\ 0 <= Cap
      BY EmptySeq, PipelineAssumption
    <3>2. Len(queue'[e]) <= Cap
      BY <1>3, <3>1
    <3> QED
      BY <1>1, <1>3, <3>2 DEF Types
  <2>4. Types'
    BY <1>1, <2>1, <2>2, <2>3 DEF Types
  <2> QED
    BY <1>1, <2>4 DEF TokioTypes, TokioControl, Control
<1>9. TokioActions'
  <2>1. todo[e] = <<>>
    BY DEF TokioInv, TokioActions
  <2>2. pc'[e] # "action"
    BY <1>3
  <2> QED
    BY <1>1, <1>3, <2>1, <2>2, Names DEF TokioInv, TokioActions
<1>10. TokioConfiguration'
  <2>1. \A x : Job(x)' = Job(x) /\ ConfigOf(x)' = ConfigOf(x)
    BY DEF Job, ConfigOf, After
  <2>2. \A s \in spawned' : s = Job(s.to)'
    BY <1>1, <2>1 DEF TokioInv, TokioConfiguration
  <2>3. ASSUME NEW x \in Elements
        PROVE  /\ ~Open(x)' => queue'[x] = <<>> /\ ~Awaits(x)'
               /\ Job(x)' \in spawned' => ConfigSent(x)'
               /\ Job(x)' \in spawned' \/ ~ConfigSent(x)' => ~Configures(queue'[x])
               /\ OnlyConfig(queue'[x], ConfigOf(x)')
               /\ IF Awaits(x)' THEN Unconfigured(x)' ELSE Configured(x)'
    <3>1. /\ ~Open(x) => queue[x] = <<>> /\ ~Awaits(x)
          /\ Job(x) \in spawned => ConfigSent(x)
          /\ Job(x) \in spawned \/ ~ConfigSent(x) => ~Configures(queue[x])
          /\ OnlyConfig(queue[x], ConfigOf(x))
          /\ IF Awaits(x) THEN Unconfigured(x) ELSE Configured(x)
      BY DEF TokioInv, TokioConfiguration
    <3>2. (Unconfigured(x)' <=> Unconfigured(x)) /\ (Configured(x)' <=> Configured(x))
      BY <1>1 DEF Unconfigured, Configured, After
    <3>3. CASE x = e
      <4>1. ~Configures(queue'[x]) /\ OnlyConfig(queue'[x], ConfigOf(x)')
        BY <1>3, <3>3, NothingInIt
      <4>2. ~Awaits(x)'
        BY <1>1, <1>6, <2>1, <3>3, <4>1 DEF Awaits
      <4> QED
        BY <1>1, <1>3, <1>6, <2>1, <3>1, <3>2, <3>3, <4>1, <4>2
    <3>4. CASE x # e
      <4>1. queue'[x] = queue[x] /\ (Open(x)' <=> Open(x))
        BY <1>3, <1>5, <3>4, Names
      <4>2. Awaits(x)' <=> Awaits(x)
        BY <1>1, <1>6, <2>1, <4>1 DEF Awaits
      <4> QED
        BY <1>1, <1>6, <2>1, <3>1, <3>2, <4>1, <4>2
    <3> QED
      BY <3>3, <3>4
  <2>4. ~Configures(queue'[Notifier])
    BY <1>2, <1>3, Names DEF TokioInv, TokioConfiguration
  <2> QED
    BY <2>2, <2>3, <2>4 DEF TokioConfiguration
<1>11. Done' = Done /\ \A x : FedTo(x)' = FedTo(x)
  BY <1>1 DEF Done, FedTo, FedInto
<1>12. pc'[Notifier] = pc[Notifier]
  BY <1>2, <1>3, Names
<1> QED
  BY <1>1, <1>2, <1>3, <1>4, <1>5, <1>7, <1>8, <1>9, <1>10, <1>11, <1>12

\* Only an element that forwards meets a sequence error: one that dropped data, or
\* the head of a lane that is broken already.
LEMMA OutOfSequence ==
  ASSUME TokioInv, NEW e \in Elements, SequenceError(e, {e})
  PROVE  /\ pc[e] = "recv" /\ ~Awaits(e)
         /\ \E l \in 1..Lanes, i \in 1..Pipelines :
              /\ e = Slot(l, i) /\ i < Pipelines
              /\ \/ Swallowed(Slot(l, i)) > 0
                 \/ /\ i = 1 /\ Broken
                    /\ \E j \in 2..Pipelines : pc[Slot(l, j)] = "panicked"
<1> USE PipelineAssumption
<1>1. /\ pc[e] = "recv" /\ queue[e] # <<>> /\ ~is_config(Head(queue[e]))
      /\ ~in_sequence(fwd[e], Head(queue[e]))
  BY DEF SequenceError, Receiving
<1>2. fwd[e].senders # <<>> /\ Head(queue[e]).n # fwd[e].next_seq /\ Head(queue[e]).n # 0
  BY <1>1 DEF in_sequence
<1>3. e # Concentrator
  <2>1. Unconfigured(e) \/ Configured(e)
    BY DEF TokioInv, TokioConfiguration
  <2>2. Unconfigured(e) => fwd[e].senders = <<>>
    BY DEF Unconfigured
  <2>3. e = Concentrator /\ Configured(e) => fwd[e].senders = <<>>
    BY ConfiguredSlots
  <2> QED
    BY <1>2, <2>1, <2>2, <2>3
<1>4. PICK l \in 1..Lanes, i \in 1..Pipelines : e = Slot(l, i)
  BY <1>3, Slots
<1>5. i < Pipelines /\ ~Awaits(e)
  BY <1>2, <1>4, TokioSenders
<1>6. CASE Swallowed(Slot(l, i)) # 0
  <2>1. Swallowed(Slot(l, i)) >= 0
    BY <1>5, SentBounded
  <2>2. Accepted(l, i) \in Nat /\ Sent(l, i) \in Nat /\ Len(todo[Slot(l, i)]) \in Nat
        /\ Swallowed(Slot(l, i)) = Accepted(l, i) - Sent(l, i) - Len(todo[Slot(l, i)])
    BY <1>5, TokioCounts DEF TokioInv
  <2>3. Swallowed(Slot(l, i)) > 0
    BY <1>6, <2>1, <2>2
  <2> QED
    BY <1>1, <1>4, <1>5, <2>3
<1>7. CASE Swallowed(Slot(l, i)) = 0
  <2>1. i = 1 /\ Broken
    <3> SUFFICES ASSUME i # 1 \/ ~Broken PROVE FALSE
      OBVIOUS
    <3>1. Open(e)
      BY <1>1, Names DEF Open
    <3>2. Count(l, i) \in Nat /\ Head(queue[e]).n = Count(l, i)
      BY <1>1, <1>4, <1>5, <3>1, FirstNumber
    <3>3. Count(l, i) > 0 => fwd[e].next_seq = Count(l, i)
      <4>1. i \in 1..(Pipelines - 1)
        BY <1>5
      <4> QED
        BY <1>4, <1>7, <4>1 DEF TokioInv, TokioNumbers
    <3> QED
      BY <1>2, <3>2, <3>3
  <2>2. PICK j \in 1..Pipelines : pc[Slot(l, j)] = "panicked"
    BY <2>1 DEF Broken, Panicked
  <2>3. j # 1
    BY <1>1, <1>4, <2>1, <2>2
  <2>4. j \in 2..Pipelines
    BY <2>3
  <2> QED
    BY <1>1, <1>4, <1>5, <2>1, <2>2, <2>4
<1> QED
  BY <1>6, <1>7

\* A sequence error keeps TokioInv.
LEMMA TokioSequenceErrorInv ==
  ASSUME TokioInv, NEW e \in Elements, SequenceError(e, {e}),
         UNCHANGED <<phase, iteration, lane, id, spawned, fed>>
  PROVE  TokioInv'
<1> USE PipelineAssumption
<1>1. pc[e] = "recv" /\ ~Awaits(e)
  BY OutOfSequence
<1>2. PICK l \in 1..Lanes, i \in 1..Pipelines :
        /\ e = Slot(l, i) /\ i < Pipelines
        /\ \/ Swallowed(Slot(l, i)) > 0
           \/ /\ i = 1 /\ Broken
              /\ \E j \in 2..Pipelines : pc[Slot(l, j)] = "panicked"
  BY OutOfSequence
<1>3. /\ TokioTypes' /\ TokioControl' /\ TokioConfiguration' /\ TokioActions'
      /\ UNCHANGED <<fwd, todo, delivered, phase, iteration, lane, id, spawned, fed>>
      /\ e \in Channels /\ e # Notifier /\ Open(e) /\ Created(e)
      /\ pc'[e] = "panicked" /\ \A c \in Channels : c # e => pc'[c] = pc[c]
      /\ queue'[e] = <<>> /\ \A c \in Channels : c # e => queue'[c] = queue[c]
      /\ \A c \in Channels : Open(c)' <=> Open(c) /\ c # e
      /\ \A x \in Elements : ~Created(x)' => pc'[x] = "unborn"
      /\ pc'[Notifier] = pc[Notifier]
      /\ Done' = Done /\ \A x : FedTo(x)' = FedTo(x)
  BY <1>1, TokioClose DEF SequenceError
<1>4. /\ \A x \in 1..Lanes : \A j \in 1..Pipelines :
           /\ Slot(x, j) \in Elements /\ Slot(x, j) \in Channels
           /\ Slot(x, j) = e <=> x = l /\ j = i
           /\ Slot(x, j) # Concentrator
      /\ e # Concentrator /\ e # Notifier
      /\ \A x \in 1..Lanes : Last(x) # e
  <2>1. \A x \in 1..Lanes : \A j \in 1..Pipelines :
          /\ Slot(x, j) \in Elements /\ Slot(x, j) \in Channels
          /\ Slot(x, j) = e <=> x = l /\ j = i
          /\ Slot(x, j) # Concentrator
    BY <1>2, Slots
  <2>2. e # Concentrator /\ e # Notifier
    BY <1>2, Slots
  <2>3. \A x \in 1..Lanes : Last(x) = Slot(x, Pipelines) /\ Pipelines \in 1..Pipelines
    BY Slots
  <2>4. Pipelines # i
    BY <1>2
  <2> QED
    BY <2>1, <2>2, <2>3, <2>4
<1>5. /\ \A x \in 1..Lanes : \A j \in 1..Pipelines :
           pc'[Slot(x, j)] = "panicked" <=> pc[Slot(x, j)] = "panicked" \/ (x = l /\ j = i)
      /\ \A x \in 1..Lanes : Panicked(x)' <=> Panicked(x) \/ x = l
      /\ Broken => Broken'
  <2>1. \A x \in 1..Lanes : \A j \in 1..Pipelines :
          pc'[Slot(x, j)] = "panicked" <=> pc[Slot(x, j)] = "panicked" \/ (x = l /\ j = i)
    <3> SUFFICES ASSUME NEW x \in 1..Lanes, NEW j \in 1..Pipelines
                 PROVE  pc'[Slot(x, j)] = "panicked" <=> pc[Slot(x, j)] = "panicked" \/ (x = l /\ j = i)
      OBVIOUS
    <3>1. CASE Slot(x, j) = e
      BY <1>3, <1>4, <3>1
    <3>2. CASE Slot(x, j) # e
      BY <1>3, <1>4, <3>2
    <3> QED
      BY <3>1, <3>2
  <2>2. \A x \in 1..Lanes : Panicked(x)' <=> Panicked(x) \/ x = l
    BY <1>2, <2>1 DEF Panicked
  <2> QED
    BY <2>1, <2>2 DEF Broken
<1>6. \A x \in 1..Lanes : \A j \in 1..Pipelines :
        /\ Accepted(x, j)' = Accepted(x, j)
        /\ Sent(x, j)' = Sent(x, j) /\ Sent(x, j - 1)' = Sent(x, j - 1)
        /\ Swallowed(Slot(x, j))' = Swallowed(Slot(x, j))
        /\ Count(x, j)' = Count(x, j)
  BY <1>3 DEF Accepted, Sent, Swallowed, Count
<1>7. TokioHops'
  <2> SUFFICES ASSUME NEW x \in 1..Lanes, NEW j \in 1..Pipelines
               PROVE  /\ Accepted(x, j)' <= Sent(x, j - 1)'
                      /\ Open(Slot(x, j))' =>
                           Sent(x, j - 1)' = Accepted(x, j)' + CountData(queue'[Slot(x, j)])
                      /\ j < Pipelines =>
                           \/ Swallowed(Slot(x, j))' = 0
                           \/ /\ Sent(x, j)' = 0
                              /\ todo'[Slot(x, j)] = <<>>
                              /\ fwd'[Slot(x, j)].next_seq = 0
    BY DEF TokioHops
  <2>1. /\ Accepted(x, j) <= Sent(x, j - 1)
        /\ Open(Slot(x, j)) => Sent(x, j - 1) = Accepted(x, j) + CountData(queue[Slot(x, j)])
        /\ j < Pipelines =>
             \/ Swallowed(Slot(x, j)) = 0
             \/ /\ Sent(x, j) = 0
                /\ todo[Slot(x, j)] = <<>>
                /\ fwd[Slot(x, j)].next_seq = 0
    BY DEF TokioInv, TokioHops
  <2>2. Open(Slot(x, j))' => Open(Slot(x, j)) /\ queue'[Slot(x, j)] = queue[Slot(x, j)]
    BY <1>3, <1>4
  <2> QED
    BY <1>3, <1>6, <2>1, <2>2
<1>8. TokioOrder'
  <2>1. \A x \in 1..Lanes : \A k \in 1..Pipelines : \A j \in k..Pipelines : j \in 1..Pipelines
    OBVIOUS
  <2> QED
    BY <1>3, <1>6, <2>1 DEF TokioInv, TokioOrder
<1>9. TokioNumbers'
  <2> SUFFICES ASSUME NEW x \in 1..Lanes, NEW j \in 1..(Pipelines - 1), j # 1 \/ ~Broken'
               PROVE  /\ Open(Slot(x, j))' => NumberedFrom(queue'[Slot(x, j)], Count(x, j)')
                      /\ Swallowed(Slot(x, j))' = 0 /\ Count(x, j)' > 0 =>
                           fwd'[Slot(x, j)].next_seq = Count(x, j)'
    BY DEF TokioNumbers
  <2>1. j \in 1..Pipelines
    BY Slots
  <2>2. /\ Open(Slot(x, j)) => NumberedFrom(queue[Slot(x, j)], Count(x, j))
        /\ Swallowed(Slot(x, j)) = 0 /\ Count(x, j) > 0 =>
             fwd[Slot(x, j)].next_seq = Count(x, j)
    BY <1>5 DEF TokioInv, TokioNumbers
  <2>3. Open(Slot(x, j))' => Open(Slot(x, j)) /\ queue'[Slot(x, j)] = queue[Slot(x, j)]
    BY <1>3, <1>4, <2>1
  <2> QED
    BY <1>3, <1>6, <2>1, <2>2, <2>3
<1>10. TokioPanics'
  <2> SUFFICES ASSUME NEW x \in 1..Lanes, NEW j \in 1..Pipelines, pc'[Slot(x, j)] = "panicked"
               PROVE  /\ j < Pipelines
                      /\ \/ Swallowed(Slot(x, j))' > 0
                         \/ j = 1 /\ \E k \in 2..Pipelines : pc'[Slot(x, k)] = "panicked"
    BY DEF TokioPanics
  <2>1. \A k \in 2..Pipelines : k \in 1..Pipelines
    OBVIOUS
  <2>2. CASE pc[Slot(x, j)] = "panicked"
    <3>1. /\ j < Pipelines
          /\ \/ Swallowed(Slot(x, j)) > 0
             \/ j = 1 /\ \E k \in 2..Pipelines : pc[Slot(x, k)] = "panicked"
      BY <2>2 DEF TokioInv, TokioPanics
    <3> QED
      BY <1>5, <1>6, <2>1, <3>1
  <2>3. CASE x = l /\ j = i
    BY <1>2, <1>5, <1>6, <2>1, <2>3
  <2> QED
    BY <1>5, <2>2, <2>3
<1>11. TokioLifetimes'
  <2>1. phase' \notin {"teardown", "torndown"} =>
          \A x \in 1..Lanes : \A j \in 1..Pipelines :
            ~Open(Slot(x, j))' => \E k \in 1..j : pc'[Slot(x, k)] = "panicked"
    <3> SUFFICES ASSUME phase \notin {"teardown", "torndown"},
                        NEW x \in 1..Lanes, NEW j \in 1..Pipelines, ~Open(Slot(x, j))'
                 PROVE  \E k \in 1..j : pc'[Slot(x, k)] = "panicked"
      BY <1>3
    <3>1. j \in 1..j /\ \A k \in 1..j : k \in 1..Pipelines
      OBVIOUS
    <3>2. CASE Slot(x, j) = e
      BY <1>3, <3>1, <3>2
    <3>3. CASE Slot(x, j) # e
      <4>1. ~Open(Slot(x, j))
        BY <1>3, <1>4, <3>3
      <4>2. PICK k \in 1..j : pc[Slot(x, k)] = "panicked"
        BY <4>1 DEF TokioInv, TokioLifetimes
      <4> QED
        BY <1>5, <3>1, <4>2
    <3> QED
      BY <3>2, <3>3
  <2>2. phase' \notin {"teardown", "torndown"} => (~Open(Concentrator)' => Broken')
    <3>1. Open(Concentrator)' <=> Open(Concentrator)
      BY <1>3, <1>4, Names
    <3> QED
      BY <1>3, <1>5, <3>1 DEF TokioInv, TokioLifetimes
  <2>3. pc'[Concentrator] # "panicked"
    BY <1>3, <1>4, Names DEF TokioInv, TokioLifetimes
  <2>4. pc'[Notifier] = CASE phase' = "setup" -> "unborn"
                          [] phase' = "torndown" -> "exited"
                          [] OTHER -> "recv"
    BY <1>3 DEF TokioInv, TokioLifetimes
  <2> QED
    BY <1>3, <2>1, <2>2, <2>3, <2>4 DEF TokioLifetimes
<1>12. TokioRuns'
  <2> SUFFICES ASSUME ~Broken'
               PROVE  /\ \A k \in 1..Iterations :
                           k < iteration \/ (k = iteration /\ phase # "waiting") =>
                             fed[k] = Messages * Lanes
                      /\ \A x \in 1..Lanes :
                           FedTo(x) = Done + IF phase = "waiting" THEN Share(fed[iteration], x) ELSE 0
    BY <1>3 DEF TokioRuns, Share
  <2> QED
    BY <1>5 DEF TokioInv, TokioRuns
<1>13. (\A x \in 1..Lanes : Notified(x)' <=> Notified(x)) /\ NotifiedLanes' = NotifiedLanes
  BY <1>3 DEF Notified, NotifiedLanes, Last
<1>14. \A x \in 1..Lanes :
         IF Broken' THEN fwd[Last(x)].received_count = 0
         ELSE /\ Done <= delivered[x]
              /\ \/ Notified(x)
                 \/ fwd[Last(x)].received_count = delivered[x] - Done
  <2> SUFFICES ASSUME NEW x \in 1..Lanes, ~Broken, Broken'
               PROVE  fwd[Last(x)].received_count = 0
    BY <1>5 DEF TokioInv, TokioNotices
  <2>1. delivered[x] = 0
    <3>1. CASE x = l
      <4>1. Swallowed(Slot(l, i)) # 0
        BY <1>2
      <4> QED
        BY <1>2, <3>1, <4>1, SwallowedLane
    <3>2. CASE x # l
      <4>1. Panicked(x)
        BY <1>5, <3>2 DEF Broken
      <4> QED
        BY <4>1, PanickedLane
    <3> QED
      BY <3>1, <3>2
  <2>2. /\ Done <= delivered[x]
        /\ \/ Notified(x)
           \/ fwd[Last(x)].received_count = delivered[x] - Done
    BY DEF TokioInv, TokioNotices
  <2>3. Done = 0
    BY <2>1, <2>2, DoneType
  <2> QED
    BY <2>1, <2>2, <2>3 DEF Notified
<1>15. TokioNotices'
  <2>1. /\ queue'[Concentrator] = queue[Concentrator]
        /\ queue'[Notifier] = queue[Notifier]
    BY <1>3, <1>4, Names
  <2>2. \/ /\ queue[Notifier] = <<>>
           /\ fwd[Concentrator].received_count + CountData(queue[Concentrator])
                = Cardinality(NotifiedLanes)
        \/ /\ Len(queue[Notifier]) = 1
           /\ phase = "waiting"
           /\ NotifiedLanes = 1..Lanes
           /\ fwd[Concentrator].received_count = 0 /\ CountData(queue[Concentrator]) = 0
    BY DEF TokioInv, TokioNotices
  <2> QED
    BY <1>3, <1>13, <1>14, <2>1, <2>2 DEF TokioNotices, Last
<1> QED
  BY <1>3, <1>7, <1>8, <1>9, <1>10, <1>11, <1>12, <1>15 DEF TokioInv

\* An element whose channel is disconnected has its configuration, and before
\* teardown those before it ended.
LEMMA TokioNoneEndsEarly ==
  ASSUME TokioInv, NEW e \in Elements, pc[e] = "recv", queue[e] = <<>>,
         Disconnected(e, AllHeld)
  PROVE  /\ ~Awaits(e)
         /\ phase \notin {"teardown", "torndown"} =>
              /\ e = Concentrator => Broken
              /\ \A l \in 1..Lanes : \A i \in 1..Pipelines : e = Slot(l, i) =>
                   \E k \in 1..i : pc[Slot(l, k)] = "panicked"
<1> USE PipelineAssumption
<1>1. e \notin AllHeld /\ e \notin Held
  BY DEF Disconnected, AllHeld
<1>2. /\ Types /\ Control /\ lane \in 1..(Lanes + 1) /\ (phase = "setup" => id \in 1..(Pipelines + 1))
      /\ phase # "sending"
  BY DEF TokioInv, TokioTypes, TokioControl, Types, Control
<1>3. Created(e)
  BY DEF TokioInv, TokioLifetimes
<1>4. phase = "setup" => e # Concentrator /\ e # <<lane, id - 1>> /\ e \notin Heads
  BY <1>1 DEF Held
<1>5. ConfigSent(e)
  <2> SUFFICES ASSUME phase = "setup"
               PROVE  e[1] \in 1..(lane - 1) \/ (e[1] = lane /\ e[2] < id - 1)
    BY DEF ConfigSent
  <2>1. PICK l \in 1..Lanes, i \in 1..Pipelines : e = Slot(l, i)
    BY <1>4, Slots
  <2>2. e[1] = l /\ e[2] = i
    BY <2>1, Slots
  <2>3. l < lane \/ (l = lane /\ i < id)
    BY <1>3, <1>4, <2>2 DEF Created
  <2>4. ~(l = lane /\ i = id - 1)
    BY <1>4, <2>1 DEF Slot
  <2> QED
    BY <1>2, <2>2, <2>3, <2>4
<1>6. Job(e) \notin spawned
  <2> SUFFICES ASSUME Job(e) \in spawned PROVE FALSE
    OBVIOUS
  <2>1. Job(e).to = e
    BY DEF Job
  <2>2. e \in {Job(e).to, Job(e).msg.to}
    BY <2>1
  <2>3. e \in UNION {{s.to, s.msg.to} : s \in spawned}
    BY <2>2, Zenon
  <2>4. e \in AllHeld
    BY <2>3, Zenon DEF AllHeld
  <2> QED
    BY <1>1, <2>4
<1>7. ~Awaits(e)
  BY <1>5, <1>6, NothingInIt DEF Awaits
<1>8. ASSUME phase \notin {"teardown", "torndown"}, e = Concentrator
      PROVE  Broken
  <2> SUFFICES ASSUME NEW l \in 1..Lanes PROVE Panicked(l)
    BY DEF Broken
  <2>1. /\ Last(l) \in Elements /\ Last(l) # Concentrator /\ Last(l) = Slot(l, Pipelines)
        /\ Pipelines \in 1..Pipelines /\ Last(l)[2] = Pipelines
    BY Slots
  <2>2. phase # "setup"
    BY <1>4, <1>8
  <2>3. ConfigSent(Last(l))
    BY <2>2, AllSent
  <2>4. ConfigOf(Last(l)).to = e
    BY <1>8, <2>1 DEF ConfigOf, Notify
  <2>5. ~Open(Slot(l, Pipelines))
    BY <2>1, <2>3, <2>4, TargetHeld
  <2>6. \E k \in 1..Pipelines : pc[Slot(l, k)] = "panicked"
    BY <1>8, <2>1, <2>5 DEF TokioInv, TokioLifetimes
  <2> QED
    BY <2>6 DEF Panicked
<1>9. ASSUME phase \notin {"teardown", "torndown"}, NEW l \in 1..Lanes, NEW i \in 1..Pipelines,
             e = Slot(l, i)
      PROVE  \E k \in 1..i : pc[Slot(l, k)] = "panicked"
  <2>1. e[1] = l /\ e[2] = i /\ e # Concentrator
    BY <1>9, Slots
  <2>2. phase = "setup" => l < lane \/ (l = lane /\ i < id)
    BY <1>3, <2>1 DEF Created
  <2>3. i # 1
    <3> SUFFICES ASSUME i = 1 PROVE FALSE
      OBVIOUS
    <3>1. e = <<l, 1>>
      BY <1>9 DEF Slot
    <3>2. e \in Heads
      <4>1. CASE phase = "setup"
        <5>1. l \in {k \in 1..Lanes : k < lane \/ (k = lane /\ id > 1)}
          BY <1>2, <2>2, <4>1
        <5> QED
          BY <3>1, <4>1, <5>1 DEF Heads
      <4>2. CASE phase # "setup"
        BY <1>9, <3>1, <4>2 DEF Heads
      <4> QED
        BY <4>1, <4>2
    <3> QED
      BY <1>1, <3>2 DEF Held
  <2> DEFINE p == Slot(l, i - 1)
  <2>4. i - 1 \in 1..Pipelines /\ i - 1 # Pipelines /\ (i - 1) + 1 = i
    BY <2>3
  <2>5. /\ p \in Elements /\ p # Concentrator /\ p[1] = l /\ p[2] = i - 1
        /\ After(p) = Slot(l, (i - 1) + 1)
    BY <2>4, Slots
  <2> HIDE DEF p
  <2>6. ConfigSent(p)
    <3> SUFFICES ASSUME phase = "setup"
                 PROVE  p[1] \in 1..(lane - 1) \/ (p[1] = lane /\ p[2] < id - 1)
      BY DEF ConfigSent
    <3> QED
      BY <1>2, <2>2, <2>5
  <2>7. ConfigOf(p).to = e
    BY <1>9, <2>4, <2>5 DEF ConfigOf, AddSender
  <2>8. ~Open(p)
    BY <2>5, <2>6, <2>7, TargetHeld
  <2>9. PICK k \in 1..(i - 1) : pc[Slot(l, k)] = "panicked"
    BY <1>9, <2>4, <2>8 DEF TokioInv, TokioLifetimes, p
  <2>10. k \in 1..i
    BY <2>4
  <2> QED
    BY <2>9, <2>10
<1> QED
  BY <1>7, <1>8, <1>9

\* An element that ends keeps TokioInv.
LEMMA TokioExitInv ==
  ASSUME TokioInv, NEW e \in Elements, Exit(e, {e}, AllHeld),
         UNCHANGED <<phase, iteration, lane, id, spawned, fed>>
  PROVE  TokioInv'
<1>1. pc[e] = "recv" /\ queue[e] = <<>> /\ Disconnected(e, AllHeld) /\ Close({e}, "exited")
  BY DEF Exit
<1>2. /\ ~Awaits(e)
      /\ phase \notin {"teardown", "torndown"} =>
           /\ e = Concentrator => Broken
           /\ \A l \in 1..Lanes : \A i \in 1..Pipelines : e = Slot(l, i) =>
                \E k \in 1..i : pc[Slot(l, k)] = "panicked"
  BY <1>1, TokioNoneEndsEarly
<1>3. /\ TokioTypes' /\ TokioControl' /\ TokioConfiguration' /\ TokioActions'
      /\ UNCHANGED <<fwd, todo, delivered, phase, iteration, lane, id, spawned, fed>>
      /\ e \in Channels /\ e # Notifier /\ Open(e)
      /\ pc'[e] = "exited" /\ \A c \in Channels : c # e => pc'[c] = pc[c]
      /\ queue'[e] = <<>> /\ \A c \in Channels : c # e => queue'[c] = queue[c]
      /\ \A c \in Channels : Open(c)' <=> Open(c) /\ c # e
      /\ \A x \in Elements : ~Created(x)' => pc'[x] = "unborn"
      /\ pc'[Notifier] = pc[Notifier]
      /\ Done' = Done
  BY <1>1, <1>2, TokioClose
<1>4. \A c \in Channels : /\ queue'[c] = queue[c]
                          /\ pc'[c] = "panicked" <=> pc[c] = "panicked"
                          /\ Open(c)' => Open(c)
  BY <1>1, <1>3
<1>5. TokioHops' /\ TokioOrder' /\ TokioNumbers' /\ TokioPanics' /\ TokioNotices'
      /\ (Broken' <=> Broken) /\ \A x : FedTo(x)' = FedTo(x)
  <2>1. \A x \in Elements : /\ queue'[x] = queue[x]
                            /\ pc'[x] = "panicked" <=> pc[x] = "panicked"
                            /\ Open(x)' => Open(x)
    BY <1>4, Names
  <2>2. queue'[Notifier] = queue[Notifier]
    BY <1>4, Names
  <2> QED
    BY <1>3, <2>1, <2>2, LanesFrame
<1>6. TokioRuns'
  BY <1>3, <1>5, RunsFrame
<1>7. TokioLifetimes'
  <2>1. phase' \notin {"teardown", "torndown"} =>
          \A x \in 1..Lanes : \A j \in 1..Pipelines :
            ~Open(Slot(x, j))' => \E k \in 1..j : pc'[Slot(x, k)] = "panicked"
    <3> SUFFICES ASSUME phase \notin {"teardown", "torndown"},
                        NEW x \in 1..Lanes, NEW j \in 1..Pipelines, ~Open(Slot(x, j))'
                 PROVE  \E k \in 1..j : pc'[Slot(x, k)] = "panicked"
      BY <1>3
    <3>1. Slot(x, j) \in Channels /\ \A k \in 1..j : k \in 1..Pipelines
      BY PipelineAssumption, Slots
    <3>2. \A k \in 1..j : Slot(x, k) \in Channels
      BY <3>1, Slots
    <3>3. \E k \in 1..j : pc[Slot(x, k)] = "panicked"
      <4>1. CASE Slot(x, j) = e
        BY <1>2, <4>1
      <4>2. CASE Slot(x, j) # e
        <5>1. ~Open(Slot(x, j))
          BY <1>3, <3>1, <4>2
        <5> QED
          BY <5>1 DEF TokioInv, TokioLifetimes
      <4> QED
        BY <4>1, <4>2
    <3> QED
      BY <1>4, <3>2, <3>3
  <2>2. phase' \notin {"teardown", "torndown"} => (~Open(Concentrator)' => Broken')
    <3>1. Open(Concentrator)' <=> Open(Concentrator) /\ Concentrator # e
      BY <1>3, Names
    <3> QED
      BY <1>2, <1>3, <1>5, <3>1 DEF TokioInv, TokioLifetimes
  <2>3. pc'[Concentrator] # "panicked"
    BY <1>4, Names DEF TokioInv, TokioLifetimes
  <2>4. pc'[Notifier] = CASE phase' = "setup" -> "unborn"
                          [] phase' = "torndown" -> "exited"
                          [] OTHER -> "recv"
    BY <1>3 DEF TokioInv, TokioLifetimes
  <2> QED
    BY <1>3, <2>1, <2>2, <2>3, <2>4 DEF TokioLifetimes
<1> QED
  BY <1>3, <1>5, <1>6, <1>7 DEF TokioInv

-----------------------------------------------------------------------------
(* Every step.                                                             *)

\* An element that accepts data, whichever it is.
LEMMA TokioReceiveDataInv ==
  ASSUME TokioInv, NEW e \in Elements, ReceiveData(e, {e}),
         UNCHANGED <<phase, iteration, lane, id, spawned, fed>>
  PROVE  TokioInv'
<1>1. CASE e = Concentrator
  BY <1>1, TokioCountLaneInv
<1>2. CASE e # Concentrator
  <2>1. PICK l \in 1..Lanes, i \in 1..Pipelines : e = Slot(l, i)
    BY <1>2, Slots
  <2>2. CASE i = Pipelines
    <3>1. e = Last(l)
      BY <2>1, <2>2 DEF Last
    <3> QED
      BY <3>1, TokioArriveInv
  <2>3. CASE i # Pipelines
    <3>1. i < Pipelines
      BY <2>3, PipelineAssumption
    <3> QED
      BY <2>1, <3>1, TokioForwardInv
  <2> QED
    BY <2>2, <2>3
<1> QED
  BY <1>1, <1>2

\* A step of a task.
LEMMA TokioTaskInv == ASSUME TokioInv, NEW e \in Elements, TaskStep(e) PROVE TokioInv'
<1>1. /\ ElementStep(e, {e}, AllHeld)
      /\ UNCHANGED <<phase, iteration, lane, id, spawned, fed>>
  BY DEF TaskStep
<1>2. CASE ReceiveConfig(e, {e})
  BY <1>1, <1>2, TokioReceiveConfigInv
<1>3. CASE ReceiveData(e, {e})
  BY <1>1, <1>3, TokioReceiveDataInv
<1>4. CASE SequenceError(e, {e})
  BY <1>1, <1>4, TokioSequenceErrorInv
<1>5. CASE handle_action(e)
  BY <1>1, <1>5, TokioHandleActionInv
<1>6. CASE handle_notification(e)
  BY <1>1, <1>6, TokioHandleNotificationInv
<1>7. CASE Exit(e, {e}, AllHeld)
  BY <1>1, <1>7, TokioExitInv
<1> QED
  BY <1>1, <1>2, <1>3, <1>4, <1>5, <1>6, <1>7 DEF ElementStep, Receive

\* A step of the main thread.
LEMMA TokioMainInv == ASSUME TokioInv, MainStep PROVE TokioInv'
  BY SpawnElementInv, SpawnLaneNotifyInv, SpawnNotifierNotifyInv, SpawnFeederInv,
     TokioRunWaitInv, TokioDropHeadInv, TokioDropNotifierInv DEF MainStep

\* Nothing is sent, and nothing is counted.
LEMMA TokioInit == Init => TokioInv
<1> SUFFICES ASSUME Init PROVE TokioInv
  OBVIOUS
<1> USE PipelineAssumption, DriverAssumption
<1>1. PipelineInit /\ DriverInit /\ spawned = {} /\ fed = [k \in 1..Iterations |-> 0]
  BY DEF Init
<1>2. Types /\ Control /\ phase = "setup" /\ iteration = 0 /\ lane = 1 /\ id = 1
  BY <1>1, InitInv DEF DriverInv, DriverInit
<1>3. /\ \A c \in Channels : /\ queue[c] = <<>>
                             /\ pc[c] = IF c = Concentrator THEN "recv" ELSE "unborn"
      /\ \A e \in Elements : todo[e] = <<>> /\ fwd[e] = new /\ e \in Channels
      /\ \A l \in 1..Lanes : delivered[l] = 0
  BY <1>1, Names DEF PipelineInit
<1>4. TokioTypes
  BY <1>1, <1>2 DEF TokioTypes
<1>5. TokioControl
  BY <1>1, <1>2 DEF TokioControl
<1>6. \A l \in 1..Lanes : ~Panicked(l)
  <2> SUFFICES ASSUME NEW l \in 1..Lanes, NEW i \in 1..Pipelines PROVE pc[Slot(l, i)] # "panicked"
    BY DEF Panicked
  <2> QED
    BY <1>3, Slots
<1>7. ~Broken
  <2>1. 1 \in 1..Lanes
    OBVIOUS
  <2> QED
    BY <1>6, <2>1 DEF Broken
<1>8. \A c \in Channels : Open(c)
  BY <1>3 DEF Open
<1>9. TokioLifetimes
  <2>1. \A e \in Elements : ~Created(e) => pc[e] = "unborn"
    BY <1>2, <1>3 DEF Created
  <2>2. \A l \in 1..Lanes : \A i \in 1..Pipelines : Open(Slot(l, i))
    BY <1>8, Slots
  <2>3. /\ Open(Concentrator) /\ pc[Concentrator] # "panicked" /\ pc[Notifier] = "unborn"
    BY <1>3, <1>8, Names
  <2> QED
    BY <1>2, <2>1, <2>2, <2>3 DEF TokioLifetimes
<1>10. TokioConfiguration
  <2>1. \A e \in Elements : ~ConfigSent(e)
    BY <1>2, Names DEF ConfigSent
  <2>2. \A e \in Elements : Unconfigured(e)
    BY <1>3 DEF Unconfigured, new
  <2>3. ~Configures(queue[Notifier])
    BY <1>3, Names, NothingInIt
  <2> QED
    BY <1>1, <1>3, <1>8, <2>1, <2>2, <2>3, NothingInIt DEF TokioConfiguration, Awaits
<1>11. TokioActions
  BY <1>3 DEF TokioActions
<1>12. \A l \in 1..Lanes : FedTo(l) = 0
  <2> SUFFICES ASSUME NEW l \in 1..Lanes PROVE FedInto(l) = {}
    BY FS_EmptySet DEF FedTo
  <2> SUFFICES ASSUME NEW x \in (1..Iterations) \X (0..(Messages * Lanes - 1)), x[2] < fed[x[1]]
               PROVE  FALSE
    BY DEF FedInto
  <2>1. x[1] \in 1..Iterations /\ x[2] >= 0
    OBVIOUS
  <2>2. fed[x[1]] = 0
    BY <1>1, <2>1
  <2> QED
    BY <2>1, <2>2
<1>13. Done = 0
  BY <1>2 DEF Done
<1>14. ASSUME NEW l \in 1..Lanes, NEW i \in 1..Pipelines
       PROVE  /\ Accepted(l, i) = 0 /\ Sent(l, i - 1) = 0 /\ Count(l, i) = 0
              /\ queue[Slot(l, i)] = <<>> /\ CountData(queue[Slot(l, i)]) = 0
              /\ Swallowed(Slot(l, i)) = 0
  <2>1. \A j \in 1..Pipelines : fwd[Slot(l, j)] = new
    BY <1>3, Slots
  <2>2. i - 1 = 0 \/ i - 1 \in 1..Pipelines
    OBVIOUS
  <2>3. new.received_count = 0 /\ new.send_count = 0
    BY DEF new
  <2>4. queue[Slot(l, i)] = <<>> /\ todo[Slot(l, i)] = <<>>
    BY <1>3, Slots
  <2>5. Accepted(l, i) = 0
    BY <1>3, <2>1, <2>3, SlotCounts
  <2>6. Sent(l, i - 1) = 0
    BY <1>12, <2>1, <2>2, <2>3, SentCounts
  <2>7. Count(l, i) = 0
    BY <1>13, <2>5 DEF Count
  <2>8. Swallowed(Slot(l, i)) = 0
    BY <2>1, <2>3, <2>4, EmptySeq DEF Swallowed
  <2> QED
    BY <2>4, <2>5, <2>6, <2>7, <2>8, NothingInIt
<1>15. TokioHops /\ TokioOrder
  <2>1. TokioHops
    BY <1>14 DEF TokioHops
  <2>2. \A i \in 1..Pipelines : \A j \in i..Pipelines : j \in 1..Pipelines
    OBVIOUS
  <2> QED
    BY <1>12, <1>14, <2>1, <2>2 DEF TokioOrder
<1>16. TokioNumbers
  <2> SUFFICES ASSUME NEW l \in 1..Lanes, NEW i \in 1..(Pipelines - 1)
               PROVE  NumberedFrom(queue[Slot(l, i)], Count(l, i)) /\ ~(Count(l, i) > 0)
    BY DEF TokioNumbers
  <2>1. i \in 1..Pipelines
    BY Slots
  <2>2. queue[Slot(l, i)] = <<>> /\ Count(l, i) = 0
    BY <1>14, <2>1
  <2> QED
    BY <2>2, NothingInIt
<1>17. TokioPanics
  BY <1>6 DEF TokioPanics, Panicked
<1>18. TokioRuns
  BY <1>2, <1>12, <1>13 DEF TokioRuns
<1>19. TokioNotices
  <2>1. \A l \in 1..Lanes : fwd[Last(l)].received_count = 0
    BY <1>3, Slots DEF new
  <2>2. NotifiedLanes = {}
    BY <1>3, <1>13 DEF NotifiedLanes, Notified
  <2>3. queue[Notifier] = <<>> /\ queue[Concentrator] = <<>> /\ fwd[Concentrator].received_count = 0
    BY <1>3, Names DEF new
  <2> QED
    BY <1>3, <1>7, <1>13, <2>1, <2>2, <2>3, FS_EmptySet, NothingInIt DEF TokioNotices
<1> QED
  BY <1>4, <1>5, <1>9, <1>10, <1>11, <1>15, <1>16, <1>17, <1>18, <1>19 DEF TokioInv

\* Where nothing changes, TokioInv stands.
LEMMA TokioStutter == ASSUME TokioInv, UNCHANGED allVars PROVE TokioInv'
<1>1. UNCHANGED <<queue, fwd, pc, todo, delivered, phase, iteration, lane, id, spawned, fed>>
  BY DEF allVars
<1>2. /\ Done' = Done
      /\ \A e \in Elements : /\ Open(e)' <=> Open(e)
                             /\ ConfigSent(e)' <=> ConfigSent(e)
                             /\ Created(e)' <=> Created(e)
  BY <1>1 DEF Done, Open, ConfigSent, Created
<1>3. /\ TokioHops' /\ TokioOrder' /\ TokioNumbers' /\ TokioPanics' /\ TokioNotices'
      /\ TokioActions' /\ (Broken' <=> Broken) /\ \A l : FedTo(l)' = FedTo(l)
  BY <1>1, <1>2, StandStill
<1>4. TokioRuns'
  BY <1>1, <1>2, <1>3, RunsFrame
<1>5. TokioConfiguration'
  <2>1. ~Configures(queue'[Notifier])
    BY <1>1 DEF TokioInv, TokioConfiguration
  <2> QED
    BY <1>1, <1>2, <2>1, ConfigurationFrame DEF Unconfigured
<1>6. TokioLifetimes'
  BY <1>1, <1>2, LifetimesFrame DEF TokioInv, TokioLifetimes
<1>7. TokioTypes' /\ TokioControl'
  BY <1>1 DEF TokioInv, TokioTypes, TokioControl, Types, Control
<1> QED
  BY <1>3, <1>4, <1>5, <1>6, <1>7 DEF TokioInv

\* TokioInv is inductive.
LEMMA TokioNext == TokioInv /\ [Next]_allVars => TokioInv'
<1> SUFFICES ASSUME TokioInv, [Next]_allVars PROVE TokioInv'
  OBVIOUS
<1>1. CASE MainStep
  BY <1>1, TokioMainInv
<1>2. CASE ConfigureAll
  BY <1>2, ConfigureInv DEF ConfigureAll
<1>3. ASSUME NEW k \in 1..Iterations, Feed(k) PROVE TokioInv'
  BY <1>3, FeedInv
<1>4. ASSUME NEW e \in Elements, TaskStep(e) PROVE TokioInv'
  BY <1>4, TokioTaskInv
<1>5. CASE UNCHANGED allVars
  BY <1>5, TokioStutter
<1> QED
  BY <1>1, <1>2, <1>3, <1>4, <1>5 DEF Next

-----------------------------------------------------------------------------
(* What the invariant says.                                                *)

\* TokioInv holds in every reachable state.
THEOREM TokioInvariance == Safety => []TokioInv
<1>1. Init => TokioInv
  BY TokioInit
<1>2. TokioInv /\ [Next]_allVars => TokioInv'
  BY TokioNext
<1> QED
  BY <1>1, <1>2, PTL DEF Safety

\* Every variable has its type, and no channel exceeds its capacity.
THEOREM TokioTyping == Safety => []TokioTypeOK
<1> USE PipelineAssumption
<1>1. TokioInv => TokioTypeOK
  <2> SUFFICES ASSUME TokioInv PROVE TokioTypeOK
    OBVIOUS
  <2>1. TokioTypes /\ Types /\ Control /\ TokioControl
    BY DEF TokioInv, TokioTypes, TokioControl
  <2>2. ASSUME NEW c \in Channels
        PROVE  Len(queue[c]) <= Cap /\ \A j \in DOMAIN queue[c] : MessageOK(queue[c][j])
    <3>1. queue[c] \in Seq(Message) /\ Len(queue[c]) <= Cap
      BY <2>1 DEF Types
    <3>2. \A j \in DOMAIN queue[c] : queue[c][j] \in Message
      BY <3>1, ElementOfSeq, LenProperties
    <3> QED
      BY <3>1, <3>2 DEF MessageOK, Message
  <2>3. ASSUME NEW e \in Elements
        PROVE  ForwarderOK(fwd[e]) /\ Len(todo[e]) <= Len(fwd[e].senders)
    <3>1. fwd[e] \in Forwarders /\ fwd[e].senders \in Seq(LaneElements) /\ todo[e] \in Seq(LaneElements)
      BY <2>1 DEF Types, Forwarders
    <3>2. \A j \in DOMAIN fwd[e].senders : fwd[e].senders[j] \in LaneElements
      BY <3>1, ElementOfSeq, LenProperties
    <3>3. ForwarderOK(fwd[e])
      BY <3>1, <3>2 DEF ForwarderOK, Forwarders
    <3>4. CASE todo[e] = <<>>
      <4>1. Len(todo[e]) = 0 /\ Len(fwd[e].senders) \in Nat
        BY <3>1, <3>4, EmptySeq, LenProperties
      <4> QED
        BY <3>3, <4>1
    <3>5. CASE todo[e] # <<>>
      <4>1. todo[e] = fwd[e].senders
        BY <3>5 DEF TokioInv, TokioActions
      <4> QED
        BY <3>1, <3>3, <4>1, LenProperties
    <3> QED
      BY <3>4, <3>5
  <2>4. PipelineTypeOK
    BY <2>1, <2>2, <2>3 DEF PipelineTypeOK, Types
  <2>5. id \in 0..(Messages + Pipelines + 1)
    BY <2>1 DEF Types, Control, TokioControl
  <2>6. TypeOK
    BY <2>1, <2>4, <2>5 DEF TypeOK, Types
  <2>7. \A s \in spawned : s.to \in Elements /\ MessageOK(s.msg)
    BY <2>1 DEF TokioTypes, MessageOK, Message
  <2> QED
    BY <2>1, <2>6, <2>7 DEF TokioTypeOK, TokioTypes
<1> QED
  BY <1>1, TokioInvariance, PTL

\* An element panics only when it dropped data itself, but for the head of a lane
\* in which a later element did (the feeders of two runs then meet there).
THEOREM TokioPanicking == Safety => []PanicOnlyAfterSwallow
<1>1. TokioInv => PanicOnlyAfterSwallow
  <2> SUFFICES ASSUME TokioInv PROVE PanicOnlyAfterSwallow
    OBVIOUS
  <2>1. pc[Concentrator] # "panicked"
    BY DEF TokioInv, TokioLifetimes
  <2>2. \A l \in 1..Lanes : \A i \in 1..Pipelines :
          pc[Slot(l, i)] = "panicked" =>
            \/ Swallowed(Slot(l, i)) > 0
            \/ i = 1 /\ \E j \in 2..Pipelines : pc[Slot(l, j)] = "panicked"
    BY DEF TokioInv, TokioPanics
  <2>3. \A j \in 2..Pipelines : j \in 1..Pipelines /\ j # 1
    BY PipelineAssumption
  <2>4. \A l \in 1..Lanes : \A i \in 1..Pipelines :
          pc[Slot(l, i)] = "panicked" =>
            \E j \in 1..Pipelines : /\ pc[Slot(l, j)] = "panicked"
                                    /\ Swallowed(Slot(l, j)) > 0
                                    /\ i = j \/ i = 1
    BY <2>2, <2>3
  <2> QED
    BY <2>1, <2>4 DEF PanicOnlyAfterSwallow, Slot
<1> QED
  BY <1>1, TokioInvariance, PTL

\* The data in a channel is what is not configuration, of which there is one at most.
LEMMA DataCounted ==
  ASSUME NEW c, queue[c] \in Seq(Message), NEW m, OnlyConfig(queue[c], m)
  PROVE  Cardinality(DataIn(c)) = CountData(queue[c])
<1> DEFINE q == queue[c]
<1>1. DOMAIN q = 1..Len(q) /\ Len(q) \in Nat
  BY LenProperties
<1>2. IsFiniteSet(1..Len(q)) /\ Cardinality(1..Len(q)) = Len(q)
  BY <1>1, FS_Interval
<1>3. CASE Configures(q)
  <2>1. PICK p \in 1..Len(q) : is_config(q[p])
    BY <1>3 DEF Configures
  <2>2. DataIn(c) = (1..Len(q)) \ {p}
    BY <1>1, <2>1 DEF DataIn, OnlyConfig
  <2>3. Cardinality((1..Len(q)) \ {p}) = Cardinality(1..Len(q)) - 1
    BY <1>2, <2>1, FS_RemoveElement
  <2> QED
    BY <1>2, <1>3, <2>2, <2>3 DEF CountData
<1>4. CASE ~Configures(q)
  <2>1. DataIn(c) = 1..Len(q)
    BY <1>1, <1>4 DEF DataIn, Configures
  <2> QED
    BY <1>1, <1>2, <1>4, <2>1 DEF CountData
<1> QED
  BY <1>3, <1>4

\* An element passes on all that it accepts, or nothing, and of what is sent to an
\* element that has not ended nothing is lost.
THEOREM TokioConservation == Safety => []LiveLaneConservation
<1>1. TokioInv => LiveLaneConservation
  <2> SUFFICES ASSUME TokioInv, NEW l \in 1..Lanes, NEW i \in 1..Pipelines
               PROVE  /\ Open(<<l, i>>) =>
                           Sent(l, i - 1) = Accepted(l, i) + Cardinality(DataIn(<<l, i>>))
                      /\ i < Pipelines =>
                           \/ Swallowed(<<l, i>>) = 0
                           \/ Sent(l, i) = 0 /\ todo[<<l, i>>] = <<>>
    BY DEF LiveLaneConservation
  <2>1. <<l, i>> = Slot(l, i)
    BY DEF Slot
  <2>2. /\ Open(Slot(l, i)) => Sent(l, i - 1) = Accepted(l, i) + CountData(queue[Slot(l, i)])
        /\ i < Pipelines =>
             \/ Swallowed(Slot(l, i)) = 0
             \/ Sent(l, i) = 0 /\ todo[Slot(l, i)] = <<>>
    BY DEF TokioInv, TokioHops
  <2>3. queue[Slot(l, i)] \in Seq(Message)
    BY TokioCounts DEF TokioInv
  <2>4. OnlyConfig(queue[Slot(l, i)], ConfigOf(Slot(l, i)))
    BY Slots DEF TokioInv, TokioConfiguration
  <2>5. Cardinality(DataIn(Slot(l, i))) = CountData(queue[Slot(l, i)])
    BY <2>3, <2>4, DataCounted
  <2> QED
    BY <2>1, <2>2, <2>5
<1> QED
  BY <1>1, TokioInvariance, PTL

\* A run returns with messages missing only when every lane met a sequence error.
THEOREM TokioEarlyReturn == Safety => []EarlyReturnOnlyAfterPanic
<1>1. TokioInv => EarlyReturnOnlyAfterPanic
  <2> SUFFICES ASSUME TokioInv, phase = "idle",
                      NEW l \in 1..Lanes, delivered[l] < iteration * Messages
               PROVE  \A x \in 1..Lanes : \E i \in 1..Pipelines : pc[<<x, i>>] = "panicked"
    BY DEF EarlyReturnOnlyAfterPanic
  <2>1. Done = iteration * Messages /\ Done \in Nat
    BY DoneType DEF Done
  <2>2. delivered[l] \in Nat
    BY DEF TokioInv, TokioTypes, Types
  <2>3. ~Broken => Done <= delivered[l]
    BY DEF TokioInv, TokioNotices
  <2>4. Broken
    BY <2>1, <2>2, <2>3
  <2> QED
    BY <2>4 DEF Broken, Panicked, Slot
<1> QED
  BY <1>1, TokioInvariance, PTL

\* The driver is notified once per run, when all its messages are at the end.
THEOREM TokioNotification == Safety => []NotifiedOnlyWhenDone
<1>1. TokioInv => NotifiedOnlyWhenDone
  <2> SUFFICES ASSUME TokioInv
               PROVE  /\ Len(queue[Notifier]) <= 1
                      /\ queue[Notifier] # <<>> =>
                           \A l \in 1..Lanes : delivered[l] = iteration * Messages
    BY DEF NotifiedOnlyWhenDone
  <2>1. CASE queue[Notifier] = <<>>
    BY <2>1, EmptySeq
  <2>2. CASE queue[Notifier] # <<>>
    <3>1. Len(queue[Notifier]) = 1 /\ phase = "waiting" /\ NotifiedLanes = 1..Lanes
      BY <2>2 DEF TokioInv, TokioNotices
    <3>2. iteration * Messages = Done + Messages
      BY <3>1, DoneType
    <3>3. \A l \in 1..Lanes : delivered[l] = Done + Messages
      BY <3>1 DEF NotifiedLanes, Notified
    <3> QED
      BY <3>1, <3>2, <3>3
  <2> QED
    BY <2>1, <2>2
<1> QED
  BY <1>1, TokioInvariance, PTL
=============================================================================
