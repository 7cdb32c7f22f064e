--------------------------- MODULE DriverProofs ---------------------------
(***************************************************************************)
(* DriverInv is kept by every step of Driver and Pipeline, for any number  *)
(* of lanes, elements, messages and runs and any capacity, however the     *)
(* elements are spawned and whichever of them share a thread.  The modules *)
(* of the drivers conclude from it what their properties say.              *)
(***************************************************************************)
EXTENDS DriverInvariant, FiniteSetTheorems, SequenceTheorems, TLAPS

-----------------------------------------------------------------------------
(* Names.                                                                  *)

\* The names of elements and channels are what they look like, and differ.
LEMMA Names ==
  /\ LaneElements \subseteq Elements /\ Elements \subseteq Channels
  /\ Concentrator \in Elements /\ Concentrator \notin LaneElements
  /\ Notifier \in Channels /\ Notifier \notin Elements
  /\ None \notin Channels
  /\ \A e \in Elements : e # Concentrator => e \in LaneElements
  /\ \A c \in Channels : c # Notifier => c \in Elements
  /\ Concentrator[1] = 0 /\ Concentrator[2] = 0
  /\ \A e \in LaneElements : /\ e[1] \in 1..Lanes /\ e[2] \in 1..Pipelines
                             /\ e = Slot(e[1], e[2])
<1> USE DEF LaneElements, Elements, Channels, Concentrator, Notifier, None, Slot
<1>1. None \notin Channels
  <2>1. Len(<<>>) = 0 /\ (\A x, y : Len(<<x, y>>) = 2)
    OBVIOUS
  <2>2. \A c \in Channels : \E x, y : c = <<x, y>>
    OBVIOUS
  <2> QED
    BY <2>1, <2>2
<1> QED
  BY <1>1, PipelineAssumption

\* The elements by lane and position.
LEMMA Slots ==
  /\ \A l \in 1..Lanes : \A i \in 1..Pipelines :
       /\ Slot(l, i) \in LaneElements /\ Slot(l, i) \in Elements /\ Slot(l, i) \in Channels
       /\ Slot(l, i) # Concentrator /\ Slot(l, i) # Notifier
  /\ \A l, i : Slot(l, i)[1] = l /\ Slot(l, i)[2] = i /\ After(Slot(l, i)) = Slot(l, i + 1)
  /\ \A l, i, k, j : Slot(l, i) = Slot(k, j) => l = k /\ i = j
  /\ \A e \in Elements : \/ e = Concentrator
                         \/ \E l \in 1..Lanes, i \in 1..Pipelines : e = Slot(l, i)
  /\ \A l \in 1..Lanes : /\ Last(l) = Slot(l, Pipelines)
                         /\ Last(l) \in LaneElements /\ Last(l) \in Elements
  /\ Pipelines \in 1..Pipelines
  /\ \A i \in 1..(Pipelines - 1) : i \in 1..Pipelines /\ i # Pipelines /\ i + 1 \in 1..Pipelines
<1>1. Pipelines \in Nat \ {0} /\ Pipelines \in 1..Pipelines
  BY PipelineAssumption
<1>2. \A i \in 1..(Pipelines - 1) : i \in 1..Pipelines /\ i # Pipelines /\ i + 1 \in 1..Pipelines
  BY <1>1
<1>3. /\ \A l, i : Slot(l, i)[1] = l /\ Slot(l, i)[2] = i /\ After(Slot(l, i)) = Slot(l, i + 1)
      /\ \A l, i, k, j : Slot(l, i) = Slot(k, j) => l = k /\ i = j
  BY DEF Slot, After
<1>4. \A l \in 1..Lanes : \A i \in 1..Pipelines : Slot(l, i) \in LaneElements
  BY DEF Slot, LaneElements
<1> QED
  BY <1>1, <1>2, <1>3, <1>4, Names DEF Last

\* Counts, by position.
LEMMA SlotCounts ==
  ASSUME NEW l, NEW i
  PROVE  /\ i # Pipelines => Accepted(l, i) = fwd[Slot(l, i)].received_count
         /\ i # 0 => Passed(l, i) = fwd[Slot(l, i)].send_count
         /\ Accepted(l, Pipelines) = delivered[l]
         /\ Passed(l, 0) = SentTo(l)
         /\ i # Pipelines => Accepted(l, i)' = fwd'[Slot(l, i)].received_count
         /\ i # 0 => Passed(l, i)' = fwd'[Slot(l, i)].send_count
         /\ Accepted(l, Pipelines)' = delivered'[l]
         /\ Passed(l, 0)' = SentTo(l)'
BY DEF Accepted, Passed, Slot

-----------------------------------------------------------------------------
(* What is in a channel.                                                   *)

\* A channel's contents, seen from both ends.
LEMMA MessageFacts ==
  /\ \A n \in Nat : TestData(n) \in Message /\ ~is_config(TestData(n)) /\ TestData(n).n = n
  /\ \A c \in Channels : \A n \in Nat : Notify(c, n) \in Message /\ is_config(Notify(c, n))
  /\ \A c \in Channels : AddSender(c) \in Message /\ is_config(AddSender(c))
BY DEF TestData, Notify, AddSender, Message, is_config

\* Test data goes behind what a channel holds, and keeps it numbered when it
\* bears the next number.
LEMMA AppendData ==
  ASSUME NEW q \in Seq(Message), DataBehind(q), NEW n \in Nat
  PROVE  LET r == Append(q, TestData(n))
         IN  /\ r \in Seq(Message)
             /\ Len(r) = Len(q) + 1
             /\ r # <<>>
             /\ q # <<>> => r[1] = q[1]
             /\ DataBehind(r)
             /\ HasConfig(r) <=> HasConfig(q)
             /\ NData(r) = NData(q) + 1
             /\ \A a \in Int : Numbered(q, a) /\ n = a + NData(q) => Numbered(r, a)
<1> DEFINE r == Append(q, TestData(n))
<1>1. /\ r \in Seq(Message) /\ Len(r) = Len(q) + 1 /\ Len(q) \in Nat
      /\ \A j \in 1..Len(q) : r[j] = q[j]
      /\ r[Len(q) + 1] = TestData(n)
      /\ r # <<>>
  BY MessageFacts, AppendProperties, LenProperties
<1>2. q = <<>> <=> Len(q) = 0
  BY EmptySeq
<1>3. ~is_config(TestData(n)) /\ TestData(n).n = n
  BY MessageFacts
<1> HIDE DEF r
<1>4. q # <<>> => r[1] = q[1]
  BY <1>1, <1>2
<1>5. HasConfig(r) <=> HasConfig(q)
  BY <1>1, <1>2, <1>3, <1>4 DEF HasConfig
<1>6. DataBehind(r)
  BY <1>1, <1>3 DEF DataBehind
<1>7. NData(r) = NData(q) + 1
  BY <1>1, <1>5 DEF NData
<1>8. ASSUME NEW a \in Int, Numbered(q, a), n = a + NData(q)
      PROVE  Numbered(r, a)
  <2> SUFFICES ASSUME NEW j \in 1..Len(r), ~is_config(r[j])
               PROVE  r[j].n = a + j - IF HasConfig(r) THEN 2 ELSE 1
    BY DEF Numbered
  <2>1. CASE j \in 1..Len(q)
    BY <2>1, <1>1, <1>5, <1>8 DEF Numbered
  <2>2. CASE j = Len(q) + 1
    <3>1. r[j].n = n
      BY <2>2, <1>1, <1>3
    <3>2. n = a + IF HasConfig(r) THEN Len(q) - 1 ELSE Len(q)
      BY <1>5, <1>8 DEF NData
    <3> QED
      BY <2>2, <3>1, <3>2, <1>1
  <2> QED
    BY <2>1, <2>2, <1>1
<1> QED
  BY <1>1, <1>4, <1>5, <1>6, <1>7, <1>8 DEF r

\* The configuration is put in an empty channel.
LEMMA AppendConfig ==
  ASSUME NEW m \in Message, is_config(m)
  PROVE  LET r == Append(<<>>, m)
         IN  /\ r \in Seq(Message)
             /\ Len(r) = 1
             /\ r[1] = m
             /\ DataBehind(r) /\ HasConfig(r) /\ NData(r) = 0 /\ NData(<<>>) = 0
             /\ \A a : Numbered(r, a)
<1> DEFINE r == Append(<<>>, m)
<1>1. r \in Seq(Message) /\ Len(r) = 1 /\ r[1] = m /\ r # <<>>
  BY AppendProperties, EmptySeq
<1> HIDE DEF r
<1>2. DataBehind(r) /\ HasConfig(r) /\ NData(r) = 0 /\ \A a : Numbered(r, a)
  BY <1>1 DEF DataBehind, HasConfig, NData, Numbered
<1>3. NData(<<>>) = 0
  BY DEF NData, HasConfig
<1> QED
  BY <1>1, <1>2, <1>3 DEF r

\* An empty channel holds no data, and no configuration.
LEMMA EmptyQueue ==
  /\ NData(<<>>) = 0 /\ ~HasConfig(<<>>) /\ DataBehind(<<>>)
  /\ \A a : Numbered(<<>>, a)
BY DEF NData, HasConfig, DataBehind, Numbered

\* Where there is no data, there is nothing to number.
LEMMA NoData ==
  ASSUME NEW q \in Seq(Message), NData(q) = 0
  PROVE  \A a : Numbered(q, a)
<1>1. Len(q) \in Nat /\ (q # <<>> => Len(q) # 0)
  BY LenProperties, EmptySeq
<1>2. CASE HasConfig(q)
  <2>1. Len(q) = 1 /\ is_config(q[1])
    BY <1>1, <1>2 DEF NData, HasConfig
  <2>2. \A j \in 1..Len(q) : is_config(q[j])
    BY <2>1
  <2> QED
    BY <2>2 DEF Numbered
<1>3. CASE ~HasConfig(q)
  BY <1>1, <1>3 DEF NData, Numbered
<1> QED
  BY <1>2, <1>3

\* What is left behind the configuration is the same data.
LEMMA TakeConfig ==
  ASSUME NEW q \in Seq(Message), DataBehind(q), HasConfig(q)
  PROVE  /\ Tail(q) \in Seq(Message)
         /\ Len(Tail(q)) = Len(q) - 1
         /\ Head(q) = q[1]
         /\ DataBehind(Tail(q)) /\ ~HasConfig(Tail(q))
         /\ NData(Tail(q)) = NData(q)
         /\ \A a \in Int : Numbered(q, a) => Numbered(Tail(q), a)
<1>1. q # <<>> /\ is_config(q[1])
  BY DEF HasConfig
<1> DEFINE r == Tail(q)
<1>2. /\ r \in Seq(Message) /\ Len(r) = Len(q) - 1 /\ Head(q) = q[1]
      /\ Len(q) \in Nat
      /\ \A j \in 1..Len(r) : r[j] = q[j + 1]
      /\ r # <<>> => Len(r) >= 1
  BY <1>1, HeadTailProperties, LenProperties, EmptySeq
<1> HIDE DEF r
<1>3. \A j \in 1..Len(r) : ~is_config(r[j])
  BY <1>2 DEF DataBehind
<1>4. DataBehind(r) /\ ~HasConfig(r)
  BY <1>2, <1>3 DEF DataBehind, HasConfig
<1>5. NData(r) = NData(q)
  BY <1>2, <1>4 DEF NData
<1>6. ASSUME NEW a \in Int, Numbered(q, a)
      PROVE  Numbered(r, a)
  <2> SUFFICES ASSUME NEW j \in 1..Len(r)
               PROVE  r[j].n = a + j - 1
    BY <1>4 DEF Numbered
  <2>1. j + 1 \in 1..Len(q) /\ r[j] = q[j + 1]
    BY <1>2
  <2>2. ~is_config(q[j + 1])
    BY <1>3, <2>1
  <2>3. q[j + 1].n = a + (j + 1) - 2
    BY <1>6, <2>1, <2>2 DEF Numbered
  <2> QED
    BY <2>1, <2>3
<1> QED
  BY <1>2, <1>4, <1>5, <1>6 DEF r

\* Taking data from the front leaves the rest, numbered from one more on.
LEMMA TakeData ==
  ASSUME NEW q \in Seq(Message), DataBehind(q), q # <<>>, ~HasConfig(q)
  PROVE  /\ Tail(q) \in Seq(Message)
         /\ Len(Tail(q)) = Len(q) - 1
         /\ Head(q) = q[1]
         /\ DataBehind(Tail(q)) /\ ~HasConfig(Tail(q))
         /\ NData(q) >= 1
         /\ NData(Tail(q)) = NData(q) - 1
         /\ \A a \in Int : Numbered(q, a) => Head(q).n = a /\ Numbered(Tail(q), a + 1)
<1>1. ~is_config(q[1])
  BY DEF HasConfig
<1> DEFINE r == Tail(q)
<1>2. /\ r \in Seq(Message) /\ Len(r) = Len(q) - 1 /\ Head(q) = q[1]
      /\ Len(q) \in Nat /\ Len(q) >= 1
      /\ \A j \in 1..Len(r) : r[j] = q[j + 1]
      /\ r # <<>> => Len(r) >= 1
  BY HeadTailProperties, LenProperties, EmptySeq
<1> HIDE DEF r
<1>3. \A j \in 1..Len(r) : ~is_config(r[j])
  BY <1>2 DEF DataBehind
<1>4. DataBehind(r) /\ ~HasConfig(r)
  BY <1>2, <1>3 DEF DataBehind, HasConfig
<1>5. NData(r) = NData(q) - 1 /\ NData(q) >= 1
  BY <1>2, <1>4 DEF NData
<1>6. ASSUME NEW a \in Int, Numbered(q, a)
      PROVE  q[1].n = a /\ Numbered(r, a + 1)
  <2>1. q[1].n = a + 1 - 1
    BY <1>1, <1>2, <1>6 DEF Numbered
  <2>2. ASSUME NEW j \in 1..Len(r)
        PROVE  r[j].n = (a + 1) + j - 1
    <3>1. j + 1 \in 1..Len(q) /\ r[j] = q[j + 1]
      BY <1>2
    <3>2. ~is_config(q[j + 1])
      BY <1>3, <3>1
    <3>3. q[j + 1].n = a + (j + 1) - 1
      BY <1>6, <3>1, <3>2 DEF Numbered
    <3> QED
      BY <3>1, <3>3
  <2> QED
    BY <2>1, <2>2, <1>4 DEF Numbered
<1> QED
  BY <1>2, <1>4, <1>5, <1>6 DEF r

\* NData counts the data in a channel.
LEMMA DataCount ==
  ASSUME NEW c, queue[c] \in Seq(Message), DataBehind(queue[c])
  PROVE  /\ Cardinality(DataIn(c)) = NData(queue[c])
         /\ NData(queue[c]) \in Nat
<1> DEFINE q == queue[c]
<1>1. DOMAIN q = 1..Len(q) /\ Len(q) \in Nat /\ (q = <<>> <=> Len(q) = 0)
  BY LenProperties, EmptySeq
<1>2. CASE HasConfig(q)
  <2>1. DataIn(c) = 2..Len(q) /\ Len(q) >= 1
    BY <1>1, <1>2 DEF DataIn, HasConfig, DataBehind
  <2> QED
    BY <1>1, <1>2, <2>1, FS_Interval DEF NData
<1>3. CASE ~HasConfig(q)
  <2>1. DataIn(c) = 1..Len(q)
    BY <1>1, <1>3 DEF DataIn, HasConfig, DataBehind
  <2> QED
    BY <1>1, <1>3, <2>1, FS_Interval DEF NData
<1> QED
  BY <1>2, <1>3

-----------------------------------------------------------------------------
(* The forwarder.                                                          *)

\* A send is counted, and nothing else changes.
LEMMA CountSend ==
  ASSUME NEW f \in Forwarders
  PROVE  LET g == count_send(f)
         IN  /\ g \in Forwarders
             /\ g.send_count = f.send_count + 1 /\ g.received_count = f.received_count
             /\ g.next_seq = f.next_seq /\ g.senders = f.senders
             /\ g.notify_sender = f.notify_sender /\ g.notify_count = f.notify_count
BY DEF count_send, Forwarders

\* A notification starts the counts again.
LEMMA ClearCount ==
  ASSUME NEW f \in Forwarders
  PROVE  LET g == get_and_clear_received_count(f)
         IN  /\ g \in Forwarders
             /\ g.send_count = 0 /\ g.received_count = 0
             /\ g.next_seq = f.next_seq /\ g.senders = f.senders
             /\ g.notify_sender = f.notify_sender /\ g.notify_count = f.notify_count
BY DEF get_and_clear_received_count, Forwarders

\* A message that bears the next number, or a 0 where a run may start.
LEMMA ValidateSequence ==
  ASSUME NEW f \in Forwarders, NEW m \in Message
  PROVE  LET g == validate_sequence(f, m)
         IN  /\ g \in Forwarders
             /\ g.received_count = f.received_count + 1 /\ g.send_count = f.send_count
             /\ g.senders = f.senders
             /\ g.notify_sender = f.notify_sender /\ g.notify_count = f.notify_count
             /\ f.senders = <<>> => g.next_seq = f.next_seq
             /\ f.senders # <<>> =>
                  g.next_seq = IF m.n = f.next_seq THEN f.next_seq + 1 ELSE 1
<1> DEFINE v == CASE f.senders = <<>> -> f.next_seq
                  [] f.senders # <<>> /\ m.n = f.next_seq -> f.next_seq + 1
                  [] OTHER -> 1
           g == validate_sequence(f, m)
<1>1. f.received_count \in Nat /\ f.next_seq \in Nat /\ m.n \in Nat
  BY DEF Forwarders, Message
<1>2. /\ v \in Nat
      /\ f.senders = <<>> => v = f.next_seq
      /\ f.senders # <<>> => v = IF m.n = f.next_seq THEN f.next_seq + 1 ELSE 1
  BY <1>1
<1>3. g = [f EXCEPT !.received_count = f.received_count + 1, !.next_seq = v]
  BY DEF validate_sequence
<1> HIDE DEF v, g
<1>4. g \in Forwarders
  <2> DEFINE h == [f EXCEPT !.received_count = f.received_count + 1]
  <2>1. h \in Forwarders
    BY <1>1 DEF Forwarders
  <2>2. g = [h EXCEPT !.next_seq = v]
    BY <1>3 DEF Forwarders
  <2> HIDE DEF h
  <2> QED
    BY <1>2, <2>1, <2>2 DEF Forwarders
<1>5. g.received_count = f.received_count + 1 /\ g.next_seq = v
  BY <1>3 DEF Forwarders
<1>6. /\ g.send_count = f.send_count /\ g.senders = f.senders
      /\ g.notify_sender = f.notify_sender /\ g.notify_count = f.notify_count
  BY <1>3 DEF Forwarders
<1> QED
  BY <1>2, <1>4, <1>5, <1>6 DEF g

\* The configuration of a new forwarder.
LEMMA HandleNotify ==
  ASSUME NEW c \in {Concentrator, Notifier}, NEW k \in Nat
  PROVE  LET g == handle_config(new, Notify(c, k))
         IN  /\ g \in Forwarders
             /\ g.senders = <<>> /\ g.notify_sender = c /\ g.notify_count = k
             /\ g.received_count = 0 /\ g.send_count = 0 /\ g.next_seq = 0
<1>1. handle_config(new, Notify(c, k)) =
        [senders |-> <<>>, received_count |-> 0, send_count |-> 0,
         notify_count |-> k, notify_sender |-> c, next_seq |-> 0]
  BY DEF handle_config, new, Notify
<1>2. <<>> \in Seq(LaneElements)
  BY EmptySeq
<1> QED
  BY <1>1, <1>2 DEF Forwarders

\* The same, where it names the next element.
LEMMA HandleAddSender ==
  ASSUME NEW c \in LaneElements
  PROVE  LET g == handle_config(new, AddSender(c))
         IN  /\ g \in Forwarders
             /\ g.senders = <<c>> /\ g.notify_sender = None /\ g.notify_count = 0
             /\ g.received_count = 0 /\ g.send_count = 0 /\ g.next_seq = 0
<1>1. handle_config(new, AddSender(c)) =
        [senders |-> <<c>>, received_count |-> 0, send_count |-> 0,
         notify_count |-> 0, notify_sender |-> None, next_seq |-> 0]
  <2>1. Append(<<>>, c) = <<c>>
    OBVIOUS
  <2> QED
    BY <2>1 DEF handle_config, new, AddSender
<1>2. <<c>> \in Seq(LaneElements)
  OBVIOUS
<1> QED
  BY <1>1, <1>2 DEF Forwarders

-----------------------------------------------------------------------------
(* What the runs have sent.                                                *)

\* Products of natural numbers, which the other proofs take as they are.
LEMMA RunProducts ==
  ASSUME NEW k \in Nat
  PROVE  /\ k * Messages \in Nat
         /\ (k + 1) * Messages = k * Messages + Messages
         /\ k >= 1 => /\ (k - 1) * Messages \in Nat
                      /\ k * Messages = (k - 1) * Messages + Messages
BY PipelineAssumption

\* What was sent into a lane is what the runs before this one sent, and this one.
LEMMA SentFacts ==
  Types /\ Control =>
    /\ Done \in Nat
    /\ \A l \in 1..Lanes : /\ InRun(l) \in 0..Messages
                           /\ SentTo(l) = Done + InRun(l)
                           /\ InRun(l) > 0 => phase \in {"sending", "waiting"}
<1> SUFFICES ASSUME Types, Control
             PROVE  /\ Done \in Nat
                    /\ \A l \in 1..Lanes : /\ InRun(l) \in 0..Messages
                                           /\ SentTo(l) = Done + InRun(l)
                                           /\ InRun(l) > 0 => phase \in {"sending", "waiting"}
  OBVIOUS
<1> USE PipelineAssumption, DriverAssumption
<1>1. iteration \in Nat /\ lane \in Nat /\ id \in Nat
  BY DEF Types
<1>2. /\ iteration * Messages \in Nat
      /\ iteration >= 1 => /\ (iteration - 1) * Messages \in Nat
                           /\ iteration * Messages = (iteration - 1) * Messages + Messages
      /\ iteration = 0 => iteration * Messages = 0
  BY <1>1, RunProducts
<1>3. Done \in Nat
  BY <1>2 DEF Done, Control
<1>4. ASSUME NEW l \in 1..Lanes
      PROVE  /\ InRun(l) \in 0..Messages
             /\ InRun(l) > 0 => phase \in {"sending", "waiting"}
  BY <1>1 DEF InRun, Control
<1>5. ASSUME NEW l \in 1..Lanes
      PROVE  SentTo(l) = Done + InRun(l)
  <2>1. CASE phase = "setup"
    BY <2>1, <1>2 DEF SentTo, Done, InRun, Control
  <2>2. CASE phase = "sending"
    <3>1. (iteration - 1) * Messages \in Nat
      BY <2>2, <1>2 DEF Control
    <3> QED
      BY <2>2, <1>1, <3>1 DEF SentTo, Done, InRun
  <2>3. CASE phase = "waiting"
    BY <2>3, <1>2 DEF SentTo, Done, InRun, Control
  <2>4. CASE phase \notin {"setup", "sending", "waiting"}
    BY <2>4, <1>2 DEF SentTo, Done, InRun
  <2> QED
    BY <2>1, <2>2, <2>3, <2>4
<1> QED
  BY <1>3, <1>4, <1>5

\* The same in the next state.
LEMMA SentFactsNext ==
  Types' /\ Control' =>
    /\ Done' \in Nat
    /\ \A l \in 1..Lanes : /\ InRun(l)' \in 0..Messages
                           /\ SentTo(l)' = Done' + InRun(l)'
                           /\ InRun(l)' > 0 => phase' \in {"sending", "waiting"}
<1>1. (Types /\ Control =>
         /\ Done \in Nat
         /\ \A l \in 1..Lanes : /\ InRun(l) \in 0..Messages
                                /\ SentTo(l) = Done + InRun(l)
                                /\ InRun(l) > 0 => phase \in {"sending", "waiting"})'
  BY SentFacts, PTL
<1> QED
  BY <1>1

-----------------------------------------------------------------------------
(* The initial state.                                                      *)

\* The invariant holds initially.
LEMMA InitInv == PipelineInit /\ DriverInit => DriverInv
<1> SUFFICES ASSUME PipelineInit, DriverInit PROVE DriverInv
  OBVIOUS
<1> USE PipelineAssumption, DriverAssumption
<1>1. Types
  <2>1. new \in Forwarders
    BY EmptySeq DEF new, Forwarders
  <2> QED
    BY <2>1, EmptySeq, Names DEF Types, PipelineInit, DriverInit
<1>2. Control
  BY DEF Control, DriverInit
<1>3. Lifetimes
  BY Names DEF Lifetimes, Created, PipelineInit, DriverInit
<1>4. /\ \A c \in Channels : queue[c] = <<>>
      /\ \A e \in Elements : todo[e] = <<>> /\ fwd[e] = new /\ pc[e] # "action"
      /\ \A l \in 1..Lanes : delivered[l] = 0
  BY Names DEF PipelineInit
<1>5. Configuration
  <2>1. \A e \in Elements : ~ConfigSent(e)
    BY Names DEF ConfigSent, DriverInit
  <2> QED
    BY <1>4, <2>1, Names, EmptyQueue DEF Configuration
<1>6. Actions
  BY <1>4 DEF Actions
<1>7. Done = 0 /\ \A l \in 1..Lanes : SentTo(l) = 0
  BY DEF Done, SentTo, DriverInit
<1>8. ASSUME NEW l \in 1..Lanes, NEW i \in 1..Pipelines
      PROVE  /\ Accepted(l, i) = 0 /\ Passed(l, i) = 0 /\ Passed(l, i - 1) = 0
             /\ NData(queue[Slot(l, i)]) = 0 /\ Len(todo[Slot(l, i)]) = 0
  <2>1. \A j \in 1..Pipelines : fwd[<<l, j>>] = new
    BY <1>4, Slots DEF Slot
  <2>2. i - 1 = 0 \/ i - 1 \in 1..Pipelines
    OBVIOUS
  <2>3. new.received_count = 0 /\ new.send_count = 0
    BY DEF new
  <2>4. queue[Slot(l, i)] = <<>> /\ todo[Slot(l, i)] = <<>>
    BY <1>4, Slots
  <2> QED
    BY <1>4, <1>7, <2>1, <2>2, <2>3, <2>4, EmptyQueue, EmptySeq DEF Accepted, Passed
<1>9. Hops
  BY <1>8 DEF Hops
<1>10. Order
  BY <1>7, <1>8 DEF Order
<1>11. Numbers
  <2> SUFFICES ASSUME NEW l \in 1..Lanes, NEW i \in 1..(Pipelines - 1)
               PROVE  Numbered(queue[Slot(l, i)], Count(l, i)) /\ Count(l, i) = 0
    BY DEF Numbers
  <2>1. i \in 1..Pipelines
    OBVIOUS
  <2>2. Count(l, i) = 0
    BY <1>7, <1>8, <2>1 DEF Count
  <2>3. queue[Slot(l, i)] = <<>>
    BY <1>4, <2>1, Slots
  <2> QED
    BY <2>2, <2>3, EmptyQueue
<1>12. LaneNotices
  <2>1. \A l \in 1..Lanes : fwd[Last(l)] = new
    BY <1>4, Slots
  <2> QED
    BY <1>4, <1>7, <2>1 DEF LaneNotices, new
<1>13. ConcentratorNotices
  <2>1. NotifiedLanes = {}
    BY <1>4, <1>7 DEF NotifiedLanes, Notified
  <2> QED
    BY <1>4, <2>1, Names, FS_EmptySet, EmptyQueue DEF ConcentratorNotices, new
<1> QED
  BY <1>1, <1>2, <1>3, <1>5, <1>6, <1>9, <1>10, <1>11, <1>12, <1>13 DEF DriverInv

-----------------------------------------------------------------------------
(* Steps that leave the data in the lanes alone.                           *)

\* All the counts are natural numbers.
LEMMA CountTypes ==
  ASSUME DriverInv, NEW l \in 1..Lanes, NEW i \in 1..Pipelines
  PROVE  /\ Accepted(l, i) \in Nat
         /\ Passed(l, i - 1) \in Nat
         /\ Passed(l, i) \in Nat
         /\ SentTo(l) \in Nat
         /\ queue[Slot(l, i)] \in Seq(Message) /\ DataBehind(queue[Slot(l, i)])
         /\ NData(queue[Slot(l, i)]) \in Nat
         /\ Len(todo[Slot(l, i)]) \in Nat
<1>1. /\ \A j \in 1..Pipelines : fwd[Slot(l, j)] \in Forwarders
      /\ queue[Slot(l, i)] \in Seq(Message) /\ todo[Slot(l, i)] \in Seq(LaneElements)
      /\ delivered[l] \in Nat
  BY Slots DEF DriverInv, Types
<1>2. SentTo(l) \in Nat
  BY SentFacts DEF DriverInv
<1>3. Accepted(l, i) \in Nat
  BY <1>1, SlotCounts DEF Forwarders
<1>4. \A j \in 0..Pipelines : Passed(l, j) \in Nat
  <2> SUFFICES ASSUME NEW j \in 0..Pipelines PROVE Passed(l, j) \in Nat
    OBVIOUS
  <2>1. CASE j = 0
    BY <2>1, <1>2, SlotCounts
  <2>2. CASE j # 0
    <3>1. j \in 1..Pipelines
      BY <2>2, PipelineAssumption
    <3>2. Passed(l, j) = fwd[Slot(l, j)].send_count
      BY <2>2, SlotCounts
    <3> QED
      BY <1>1, <3>1, <3>2 DEF Forwarders
  <2> QED
    BY <2>1, <2>2
<1>5. Passed(l, i) \in Nat /\ Passed(l, i - 1) \in Nat
  <2>1. i \in 0..Pipelines /\ i - 1 \in 0..Pipelines
    BY PipelineAssumption
  <2> QED
    BY <1>4, <2>1
<1>6. DataBehind(queue[Slot(l, i)])
  BY Slots DEF DriverInv, Configuration
<1>7. NData(queue[Slot(l, i)]) \in Nat
  BY <1>1, <1>6, DataCount
<1>8. Len(todo[Slot(l, i)]) \in Nat
  BY <1>1, LenProperties
<1> QED
  BY <1>1, <1>2, <1>3, <1>5, <1>6, <1>7, <1>8

\* An element that acts has been configured, and stays where it is.
LEMMA ActionFacts ==
  ASSUME DriverInv, NEW e \in Elements, pc[e] = "action"
  PROVE  /\ e \in Channels /\ Open(e) /\ ConfigSent(e) /\ ~HasConfig(queue[e])
         /\ Configured(e) /\ Created(e)
         /\ fwd[e] \in Forwarders /\ fwd[e].received_count >= 1
         /\ todo[e] # <<>> => todo[e] = fwd[e].senders
<1>1. e \in Channels /\ Open(e)
  BY Names DEF Open
<1>2. ConfigSent(e) /\ ~HasConfig(queue[e]) /\ fwd[e].received_count >= 1
      /\ (todo[e] # <<>> => todo[e] = fwd[e].senders)
  BY DEF DriverInv, Actions
<1>3. Configured(e) /\ Created(e) /\ fwd[e] \in Forwarders
  BY <1>1, <1>2 DEF DriverInv, Configuration, Lifetimes, Types
<1> QED
  BY <1>1, <1>2, <1>3

\* What Configured says, by position.
LEMMA ConfiguredSlots ==
  /\ \A l \in 1..Lanes : \A i \in 1..Pipelines : Configured(Slot(l, i)) =>
       IF i = Pipelines
         THEN /\ fwd[Slot(l, i)].senders = <<>>
              /\ fwd[Slot(l, i)].notify_sender = Concentrator
              /\ fwd[Slot(l, i)].notify_count = Messages
         ELSE /\ fwd[Slot(l, i)].senders = <<Slot(l, i + 1)>>
              /\ fwd[Slot(l, i)].notify_count = 0
  /\ Configured(Concentrator) =>
       /\ fwd[Concentrator].senders = <<>>
       /\ fwd[Concentrator].notify_sender = Notifier
       /\ fwd[Concentrator].notify_count = Lanes
<1>1. ASSUME NEW l \in 1..Lanes, NEW i \in 1..Pipelines, Configured(Slot(l, i))
      PROVE  IF i = Pipelines
               THEN /\ fwd[Slot(l, i)].senders = <<>>
                    /\ fwd[Slot(l, i)].notify_sender = Concentrator
                    /\ fwd[Slot(l, i)].notify_count = Messages
               ELSE /\ fwd[Slot(l, i)].senders = <<Slot(l, i + 1)>>
                    /\ fwd[Slot(l, i)].notify_count = 0
  <2> DEFINE e == Slot(l, i)
  <2>1. e # Concentrator /\ e[2] = i /\ After(e) = Slot(l, i + 1)
    BY Slots
  <2> HIDE DEF e
  <2>2. Configured(e)
    BY <1>1 DEF e
  <2>3. IF i = Pipelines
          THEN /\ fwd[e].senders = <<>>
               /\ fwd[e].notify_sender = Concentrator
               /\ fwd[e].notify_count = Messages
          ELSE /\ fwd[e].senders = <<Slot(l, i + 1)>>
               /\ fwd[e].notify_count = 0
    BY <2>1, <2>2 DEF Configured
  <2> QED
    BY <2>3 DEF e
<1>2. ASSUME Configured(Concentrator)
      PROVE  /\ fwd[Concentrator].senders = <<>>
             /\ fwd[Concentrator].notify_sender = Notifier
             /\ fwd[Concentrator].notify_count = Lanes
  BY <1>2 DEF Configured
<1> QED
  BY <1>1, <1>2

\* When a step leaves what is on the way down the lanes, its counts and what was
\* sent as they are, the parts of the invariant about them still hold.
LEMMA LaneFrame ==
  ASSUME DriverInv, UNCHANGED <<todo, delivered>>,
         Done' = Done, \A l \in 1..Lanes : SentTo(l)' = SentTo(l),
         \A l \in 1..Lanes : \A i \in 1..Pipelines :
           /\ i # Pipelines =>
                /\ fwd'[Slot(l, i)].received_count = fwd[Slot(l, i)].received_count
                /\ fwd'[Slot(l, i)].send_count = fwd[Slot(l, i)].send_count
                /\ fwd'[Slot(l, i)].next_seq = fwd[Slot(l, i)].next_seq
           /\ NData(queue'[Slot(l, i)]) = NData(queue[Slot(l, i)])
           /\ \A a \in Int : Numbered(queue[Slot(l, i)], a) => Numbered(queue'[Slot(l, i)], a)
  PROVE  Hops' /\ Order' /\ Numbers'
<1>1. ASSUME NEW l \in 1..Lanes, NEW i \in 1..Pipelines
      PROVE  /\ Accepted(l, i)' = Accepted(l, i)
             /\ Passed(l, i - 1)' = Passed(l, i - 1)
             /\ i # Pipelines => Passed(l, i)' = Passed(l, i)
  <2>1. Accepted(l, i)' = Accepted(l, i)
    BY SlotCounts
  <2>2. i # Pipelines => Passed(l, i)' = Passed(l, i)
    BY SlotCounts
  <2>3. i - 1 = 0 \/ (i - 1 \in 1..Pipelines /\ i - 1 # Pipelines)
    BY PipelineAssumption
  <2>4. Passed(l, i - 1)' = Passed(l, i - 1)
    BY <2>3, SlotCounts
  <2> QED
    BY <2>1, <2>2, <2>4
<1>2. Hops'
  <2> SUFFICES ASSUME NEW l \in 1..Lanes, NEW i \in 1..Pipelines
               PROVE  /\ Passed(l, i - 1)' = Accepted(l, i)' + NData(queue'[Slot(l, i)])
                      /\ i < Pipelines => Accepted(l, i)' = Passed(l, i)' + Len(todo'[Slot(l, i)])
    BY DEF Hops
  <2>1. NData(queue'[Slot(l, i)]) = NData(queue[Slot(l, i)])
    OBVIOUS
  <2>2. i < Pipelines => i # Pipelines
    BY PipelineAssumption
  <2> QED
    BY <1>1, <2>1, <2>2 DEF DriverInv, Hops
<1>3. Order'
  <2> SUFFICES ASSUME NEW l \in 1..Lanes, NEW i \in 1..Pipelines, NEW j \in i..Pipelines
               PROVE  Accepted(l, i)' <= SentTo(l)' /\ Accepted(l, j)' <= Accepted(l, i)'
    BY DEF Order
  <2>1. j \in 1..Pipelines
    BY PipelineAssumption
  <2> QED
    BY <1>1, <2>1 DEF DriverInv, Order
<1>4. Numbers'
  <2> SUFFICES ASSUME NEW l \in 1..Lanes, NEW i \in 1..(Pipelines - 1)
               PROVE  /\ Numbered(queue'[Slot(l, i)], Count(l, i)')
                      /\ Count(l, i)' > 0 => fwd'[Slot(l, i)].next_seq = Count(l, i)'
    BY DEF Numbers
  <2>1. i \in 1..Pipelines /\ i # Pipelines
    BY Slots
  <2>2. Count(l, i)' = Count(l, i)
    BY <1>1, <2>1 DEF Count
  <2>3. Count(l, i) \in Int
    BY <2>1, CountTypes, SentFacts DEF Count, DriverInv
  <2> QED
    BY <2>1, <2>2, <2>3 DEF DriverInv, Numbers
<1> QED
  BY <1>2, <1>3, <1>4

\* The same for the notices, when no element stops to act but one that has no
\* notice to send.
LEMMA DataFrame ==
  ASSUME DriverInv, UNCHANGED <<todo, delivered>>,
         Done' = Done, \A l \in 1..Lanes : SentTo(l)' = SentTo(l),
         \A e \in Elements :
           /\ fwd'[e].received_count = fwd[e].received_count
           /\ fwd'[e].send_count = fwd[e].send_count
           /\ fwd'[e].next_seq = fwd[e].next_seq
           /\ pc[e] = "action" => pc'[e] = "action" \/ ~notification_due(fwd[e])
           /\ NData(queue'[e]) = NData(queue[e])
           /\ \A a \in Int : Numbered(queue[e], a) => Numbered(queue'[e], a),
         queue'[Notifier] = queue[Notifier],
         phase = "waiting" => phase' = "waiting"
  PROVE  Hops' /\ Order' /\ Numbers' /\ LaneNotices' /\ ConcentratorNotices'
<1>1. Hops' /\ Order' /\ Numbers'
  BY LaneFrame, Slots
<1>2. \A l \in 1..Lanes : Notified(l)' = Notified(l)
  BY Slots DEF Notified, Last
<1>3. LaneNotices'
  <2> SUFFICES ASSUME NEW l \in 1..Lanes, ~Notified(l)
               PROVE  /\ Done <= delivered[l]
                      /\ fwd[Last(l)].received_count = delivered[l] - Done
                      /\ delivered[l] = Done + Messages => pc'[Last(l)] = "action"
    <3>1. \A l \in 1..Lanes : Done <= delivered[l]
      BY DEF DriverInv, LaneNotices
    <3>2. \A l \in 1..Lanes : fwd'[Last(l)].received_count = fwd[Last(l)].received_count
      BY Slots
    <3> QED
      BY <1>2, <3>1, <3>2 DEF LaneNotices, Last
  <2>1. /\ Done <= delivered[l]
        /\ fwd[Last(l)].received_count = delivered[l] - Done
        /\ delivered[l] = Done + Messages => pc[Last(l)] = "action"
    BY DEF DriverInv, LaneNotices
  <2>2. ASSUME delivered[l] = Done + Messages, pc'[Last(l)] # "action"
        PROVE  FALSE
    <3>1. pc[Last(l)] = "action" /\ ~notification_due(fwd[Last(l)])
      BY <2>1, <2>2, Slots
    <3>2. Configured(Last(l))
      BY <3>1, ActionFacts, Slots
    <3>3. fwd[Last(l)].notify_count = Messages
      BY <3>2, ConfiguredSlots, Slots
    <3>4. Done \in Nat /\ Messages \in Nat
      BY SentFacts, PipelineAssumption DEF DriverInv
    <3> QED
      BY <2>1, <2>2, <3>1, <3>3, <3>4 DEF notification_due
  <2> QED
    BY <2>1, <2>2
<1>4. NotifiedLanes' = NotifiedLanes
  BY <1>2 DEF NotifiedLanes
<1>5. fwd[Concentrator].received_count = Lanes /\ pc[Concentrator] = "action"
        => pc'[Concentrator] = "action"
  BY ActionFacts, ConfiguredSlots, Names DEF notification_due
<1>6. ConcentratorNotices'
  BY <1>4, <1>5, Names DEF DriverInv, ConcentratorNotices
<1> QED
  BY <1>1, <1>3, <1>6

\* The same for the configuration, when none is sent and none arrives.
LEMMA ConfigFrame ==
  ASSUME DriverInv, UNCHANGED <<queue, fwd, todo>>,
         \A e \in Elements : /\ Open(e)' <=> Open(e)
                             /\ pc'[e] = "action" <=> pc[e] = "action"
                             /\ ConfigSent(e)' <=> ConfigSent(e)
  PROVE  Configuration' /\ Actions'
<1>1. \A e \in Elements : Configured(e)' = Configured(e)
  BY DEF Configured
<1> QED
  BY <1>1 DEF DriverInv, Configuration, Actions

\* After setup it has all been sent.
LEMMA AllSent == \A e : (phase # "setup" => ConfigSent(e)) /\ (phase' # "setup" => ConfigSent(e)')
BY DEF ConfigSent

\* run is called.
LEMMA RunInv == ASSUME DriverInv, Run PROVE DriverInv'
<1> USE PipelineAssumption, DriverAssumption
<1>1. Types /\ Control
  BY DEF DriverInv
<1>2. Types' /\ Control'
  BY <1>1 DEF Types, Control, Run
<1>3. Lifetimes'
  BY DEF DriverInv, Lifetimes, Created, Run
<1>4. Configuration' /\ Actions'
  BY ConfigFrame, AllSent DEF Run, Open
<1>5. Done' = Done
  BY <1>1 DEF Done, Run, Types
<1>6. \A l \in 1..Lanes : SentTo(l)' = SentTo(l)
  <2> SUFFICES ASSUME NEW l \in 1..Lanes PROVE SentTo(l)' = SentTo(l)
    OBVIOUS
  <2>1. InRun(l) = 0 /\ InRun(l)' = 0
    BY <1>1 DEF InRun, Run, Control
  <2>2. SentTo(l) = Done + InRun(l) /\ SentTo(l)' = Done' + InRun(l)'
    BY <1>1, <1>2, SentFacts, SentFactsNext
  <2> QED
    BY <1>5, <2>1, <2>2
<1>7. Hops' /\ Order' /\ Numbers' /\ LaneNotices' /\ ConcentratorNotices'
  BY <1>5, <1>6, DataFrame DEF Run
<1> QED
  BY <1>2, <1>3, <1>4, <1>7 DEF DriverInv

\* teardown begins, or goes on.
LEMMA DropHeadInv == ASSUME DriverInv, DropHead PROVE DriverInv'
<1> USE PipelineAssumption, DriverAssumption
<1>1. Types /\ Control
  BY DEF DriverInv
<1>2. Types' /\ Control'
  BY <1>1 DEF Types, Control, DropHead
<1>3. Lifetimes'
  BY DEF DriverInv, Lifetimes, Created, DropHead
<1>4. Configuration' /\ Actions'
  BY ConfigFrame, AllSent DEF DropHead, Open
<1>5. Done' = Done /\ \A l \in 1..Lanes : SentTo(l)' = SentTo(l)
  BY DEF Done, SentTo, DropHead
<1>6. Hops' /\ Order' /\ Numbers' /\ LaneNotices' /\ ConcentratorNotices'
  BY <1>5, DataFrame DEF DropHead
<1> QED
  BY <1>2, <1>3, <1>4, <1>6 DEF DriverInv

\* teardown drops the notifier, whose channel is empty.
LEMMA DropNotifierInv == ASSUME DriverInv, DropNotifier PROVE DriverInv'
<1> USE PipelineAssumption, DriverAssumption
<1>1. Types /\ Control
  BY DEF DriverInv
<1>2. queue[Notifier] = <<>>
  BY DEF DriverInv, ConcentratorNotices, DropNotifier
<1>3. queue' = queue /\ \A e \in Elements : pc'[e] = pc[e]
  BY <1>1, <1>2, Names DEF DropNotifier, Types
<1>4. Types' /\ Control'
  BY <1>1, <1>3 DEF Types, Control, DropNotifier
<1>5. Lifetimes'
  BY <1>1, <1>3, Names DEF DriverInv, Lifetimes, Created, DropNotifier, Types
<1>6. Configuration' /\ Actions'
  BY <1>3, ConfigFrame, AllSent DEF DropNotifier, Open
<1>7. Done' = Done /\ \A l \in 1..Lanes : SentTo(l)' = SentTo(l)
  BY DEF Done, SentTo, DropNotifier
<1>8. Hops' /\ Order' /\ Numbers' /\ LaneNotices' /\ ConcentratorNotices'
  BY <1>3, <1>7, DataFrame DEF DropNotifier
<1> QED
  BY <1>4, <1>5, <1>6, <1>8 DEF DriverInv

-----------------------------------------------------------------------------
(* The end of a run.                                                       *)

\* From when the configuration is sent to e until e is gone, the sender that it
\* carries is kept: in the channel, and then by the forwarder.
LEMMA Connected ==
  ASSUME DriverInv, NEW e \in Elements, Open(e), ConfigSent(e), NEW outside
  PROVE  ~Disconnected(ConfigOf(e).to, outside)
<1>1. e \in Channels
  BY Names
<1>2. queue[e] \in Seq(Message)
  BY <1>1 DEF DriverInv, Types
<1>3. CASE HasConfig(queue[e])
  <2>1. queue[e][1] = ConfigOf(e)
    BY <1>3 DEF DriverInv, Configuration
  <2>2. 1 \in DOMAIN queue[e]
    BY <1>2, <1>3, LenProperties, EmptySeq DEF HasConfig
  <2> QED
    BY <1>1, <2>1, <2>2 DEF Disconnected
<1>4. CASE ~HasConfig(queue[e])
  <2>1. Configured(e)
    BY <1>4 DEF DriverInv, Configuration
  <2>2. ConfigOf(e).to \in Holds(fwd[e])
    <3>1. CASE e = Concentrator
      BY <2>1, <3>1 DEF Configured, ConfigOf, Holds, Notify
    <3>2. CASE e # Concentrator /\ e[2] = Pipelines
      BY <2>1, <3>2 DEF Configured, ConfigOf, Holds, Notify
    <3>3. CASE e # Concentrator /\ e[2] # Pipelines
      <4>1. fwd[e].senders = <<After(e)>> /\ ConfigOf(e).to = After(e)
        BY <2>1, <3>3 DEF Configured, ConfigOf, AddSender
      <4>2. 1 \in DOMAIN fwd[e].senders /\ fwd[e].senders[1] = After(e)
        BY <4>1
      <4> QED
        BY <4>1, <4>2 DEF Holds
    <3> QED
      BY <3>1, <3>2, <3>3
  <2> QED
    BY <2>2 DEF Disconnected
<1> QED
  BY <1>3, <1>4

\* run returns with the notification, never because nobody is left to send one.
LEMMA RunWaitNotified ==
  ASSUME DriverInv, NEW outside, RunWait(outside)
  PROVE  /\ queue[Notifier] # <<>>
         /\ queue' = [queue EXCEPT ![Notifier] = <<>>]
         /\ NotifiedLanes = 1..Lanes
         /\ fwd[Concentrator].received_count = 0 /\ NData(queue[Concentrator]) = 0
<1>1. phase = "waiting" /\ ConfigSent(Concentrator) /\ Open(Concentrator)
  BY Names DEF RunWait, ConfigSent, Open, DriverInv, Lifetimes
<1>2. ConfigOf(Concentrator).to = Notifier
  BY DEF ConfigOf, Notify
<1>3. queue[Notifier] # <<>> /\ TakeHead(Notifier)
  BY <1>1, <1>2, Connected, Names DEF RunWait
<1>4. /\ Len(queue[Notifier]) = 1 /\ NotifiedLanes = 1..Lanes
      /\ fwd[Concentrator].received_count = 0 /\ NData(queue[Concentrator]) = 0
  BY <1>3 DEF DriverInv, ConcentratorNotices
<1>5. queue[Notifier] \in Seq(Message)
  BY Names DEF DriverInv, Types
<1>6. Tail(queue[Notifier]) \in Seq(Message) /\ Len(Tail(queue[Notifier])) = 0
  BY <1>3, <1>4, <1>5, HeadTailProperties
<1>7. Tail(queue[Notifier]) = <<>>
  BY <1>6, EmptySeq
<1> QED
  BY <1>3, <1>4, <1>7 DEF TakeHead

\* When all that was sent into a lane is at its end, nothing is under way in it.
LEMMA LaneDrained ==
  ASSUME DriverInv, NEW l \in 1..Lanes, delivered[l] = SentTo(l), NEW i \in 1..Pipelines
  PROVE  /\ Accepted(l, i) = SentTo(l)
         /\ NData(queue[Slot(l, i)]) = 0
         /\ i < Pipelines => Len(todo[Slot(l, i)]) = 0
<1> USE PipelineAssumption
<1>1. \A j \in 1..Pipelines : Accepted(l, j) = SentTo(l)
  <2> SUFFICES ASSUME NEW j \in 1..Pipelines PROVE Accepted(l, j) = SentTo(l)
    OBVIOUS
  <2>1. Accepted(l, j) <= SentTo(l) /\ Accepted(l, Pipelines) <= Accepted(l, j)
    BY Slots DEF DriverInv, Order
  <2>2. Accepted(l, Pipelines) = SentTo(l)
    BY SlotCounts
  <2>3. Accepted(l, j) \in Nat /\ SentTo(l) \in Nat
    BY CountTypes
  <2> QED
    BY <2>1, <2>2, <2>3
<1>2. Passed(l, i - 1) = Accepted(l, i) + NData(queue[Slot(l, i)])
  BY DEF DriverInv, Hops
<1>3. NData(queue[Slot(l, i)]) = 0
  <2>1. CASE i = 1
    <3>1. Passed(l, i - 1) = SentTo(l)
      BY <2>1, SlotCounts
    <3>2. Accepted(l, i) = SentTo(l)
      BY <1>1
    <3>3. SentTo(l) \in Nat /\ NData(queue[Slot(l, i)]) \in Nat
      BY CountTypes
    <3> QED
      BY <1>2, <3>1, <3>2, <3>3
  <2>2. CASE i # 1
    <3>1. i - 1 \in 1..Pipelines /\ i - 1 < Pipelines
      BY <2>2
    <3>2. Accepted(l, i - 1) = Passed(l, i - 1) + Len(todo[Slot(l, i - 1)])
      BY <3>1 DEF DriverInv, Hops
    <3>3. /\ Len(todo[Slot(l, i - 1)]) \in Nat /\ Passed(l, i - 1) \in Nat
          /\ NData(queue[Slot(l, i)]) \in Nat /\ SentTo(l) \in Nat
      BY <3>1, CountTypes
    <3>4. Accepted(l, i - 1) = SentTo(l) /\ Accepted(l, i) = SentTo(l)
      BY <1>1, <3>1
    <3> QED
      BY <1>2, <3>2, <3>3, <3>4
  <2> QED
    BY <2>1, <2>2
<1>4. ASSUME i < Pipelines
      PROVE  Len(todo[Slot(l, i)]) = 0
  <2>1. i + 1 \in 1..Pipelines /\ (i + 1) - 1 = i
    BY <1>4
  <2>2. Passed(l, i) = Accepted(l, i + 1) + NData(queue[Slot(l, i + 1)])
    BY <2>1 DEF DriverInv, Hops
  <2>3. Accepted(l, i) = Passed(l, i) + Len(todo[Slot(l, i)])
    BY <1>4 DEF DriverInv, Hops
  <2>4. /\ NData(queue[Slot(l, i + 1)]) \in Nat /\ Len(todo[Slot(l, i)]) \in Nat
        /\ Passed(l, i) \in Nat /\ SentTo(l) \in Nat
    BY <2>1, CountTypes
  <2>5. Accepted(l, i) = SentTo(l) /\ Accepted(l, i + 1) = SentTo(l)
    BY <1>1, <2>1
  <2> QED
    BY <2>2, <2>3, <2>4, <2>5
<1> QED
  BY <1>1, <1>3, <1>4

\* The wait of run.
LEMMA RunWaitInv == ASSUME DriverInv, NEW outside, RunWait(outside) PROVE DriverInv'
<1> USE PipelineAssumption, DriverAssumption
<1>1. Types /\ Control /\ Done \in Nat
  BY SentFacts DEF DriverInv
<1>2. /\ queue[Notifier] # <<>>
      /\ queue' = [queue EXCEPT ![Notifier] = <<>>]
      /\ NotifiedLanes = 1..Lanes
      /\ fwd[Concentrator].received_count = 0 /\ NData(queue[Concentrator]) = 0
  BY RunWaitNotified
<1>3. phase = "waiting" /\ phase' = "idle" /\ UNCHANGED <<fwd, pc, todo, delivered, iteration, lane, id>>
  BY DEF RunWait
<1>4. Types' /\ Control'
  <2>1. queue' \in [Channels -> Seq(Message)]
    BY <1>1, <1>2, EmptySeq DEF Types
  <2>2. \A c \in Channels : Len(queue'[c]) <= Cap
    BY <1>1, <1>2, EmptySeq DEF Types
  <2> QED
    BY <1>1, <1>3, <2>1, <2>2 DEF Types, Control
<1>5. Lifetimes'
  BY <1>3 DEF DriverInv, Lifetimes, Created
<1>6. \A e \in Elements : queue'[e] = queue[e]
  BY <1>1, <1>2, Names DEF Types
<1>7. queue'[Notifier] = <<>>
  BY <1>1, <1>2, Names DEF Types
<1>8. Configuration' /\ Actions'
  <2>1. \A e : ConfigSent(e) /\ ConfigSent(e)'
    BY <1>3 DEF ConfigSent
  <2>2. \A e : Open(e)' = Open(e) /\ Configured(e)' = Configured(e)
    BY <1>3 DEF Open, Configured
  <2> QED
    BY <1>3, <1>6, <1>7, <2>1, <2>2, EmptyQueue DEF DriverInv, Configuration, Actions
<1>9. Done' = Done + Messages
  BY <1>1, <1>3, RunProducts DEF Done, Types, Control
<1>10. ASSUME NEW l \in 1..Lanes
       PROVE  /\ SentTo(l) = Done' /\ SentTo(l)' = Done'
              /\ delivered[l] = Done' /\ fwd[Last(l)].received_count = 0
              /\ Notified(l) /\ ~Notified(l)'
  <2>1. SentTo(l) = Done + Messages
    BY <1>3, SentFacts DEF DriverInv, InRun
  <2>2. SentTo(l)' = Done' + 0
    BY <1>3, <1>4, SentFactsNext DEF InRun
  <2>3. Notified(l)
    BY <1>2 DEF NotifiedLanes
  <2> QED
    BY <1>1, <1>3, <1>9, <2>1, <2>2, <2>3 DEF Notified
<1>11. ASSUME NEW l \in 1..Lanes, NEW i \in 1..Pipelines
       PROVE  /\ Accepted(l, i)' = Accepted(l, i)
              /\ Passed(l, i)' = Passed(l, i) /\ Passed(l, i - 1)' = Passed(l, i - 1)
              /\ Accepted(l, i) = Done' /\ NData(queue[Slot(l, i)]) = 0
              /\ queue'[Slot(l, i)] = queue[Slot(l, i)]
  BY <1>3, <1>6, <1>10, LaneDrained, Slots DEF Accepted, Passed
<1>12. Hops'
  BY <1>3, <1>11 DEF DriverInv, Hops
<1>13. Order'
  BY <1>1, <1>9, <1>10, <1>11, Slots DEF Order
<1>14. Numbers'
  <2> SUFFICES ASSUME NEW l \in 1..Lanes, NEW i \in 1..(Pipelines - 1)
               PROVE  /\ Numbered(queue'[Slot(l, i)], Count(l, i)')
                      /\ Count(l, i)' > 0 => fwd'[Slot(l, i)].next_seq = Count(l, i)'
    BY DEF Numbers
  <2>1. i \in 1..Pipelines
    OBVIOUS
  <2>2. Numbered(queue'[Slot(l, i)], Count(l, i)')
    BY <1>11, <2>1, NoData, CountTypes
  <2>3. CASE i = 1
    <3>1. Count(l, i)' = 0
      BY <1>1, <1>9, <1>11, <2>1, <2>3 DEF Count
    <3> QED
      BY <2>2, <3>1
  <2>4. CASE i # 1
    <3>1. Count(l, i)' = Count(l, i)
      BY <1>11, <2>1, <2>4 DEF Count
    <3> QED
      BY <1>3, <2>2, <3>1 DEF DriverInv, Numbers
  <2> QED
    BY <2>3, <2>4
<1>15. LaneNotices'
  <2> SUFFICES ASSUME NEW l \in 1..Lanes
               PROVE  /\ Done' <= delivered'[l]
                      /\ fwd'[Last(l)].received_count = delivered'[l] - Done'
                      /\ delivered'[l] # Done' + Messages
    BY DEF LaneNotices, Last
  <2> QED
    BY <1>1, <1>3, <1>9, <1>10
<1>16. ConcentratorNotices'
  <2>1. NotifiedLanes' = {}
    BY <1>10 DEF NotifiedLanes
  <2> QED
    BY <1>2, <1>3, <1>6, <1>7, <2>1, Names, FS_EmptySet DEF ConcentratorNotices
<1> QED
  BY <1>4, <1>5, <1>8, <1>12, <1>13, <1>14, <1>15, <1>16 DEF DriverInv

-----------------------------------------------------------------------------
(* setup.                                                                  *)

\* What configures an element is a configuration message.
LEMMA ConfigOfType ==
  ASSUME NEW e \in Elements
  PROVE  ConfigOf(e) \in Message /\ is_config(ConfigOf(e))
<1> USE PipelineAssumption
<1>1. CASE e = Concentrator
  BY <1>1, MessageFacts, Names DEF ConfigOf
<1>2. CASE e # Concentrator /\ e[2] = Pipelines
  BY <1>2, MessageFacts, Names DEF ConfigOf
<1>3. CASE e # Concentrator /\ e[2] # Pipelines
  <2>1. PICK l \in 1..Lanes, i \in 1..Pipelines : e = Slot(l, i)
    BY <1>3, Slots
  <2>2. i # Pipelines
    BY <1>3, <2>1, Slots
  <2>3. i + 1 \in 1..Pipelines
    BY <2>2
  <2>4. After(e) \in Channels
    BY <2>1, <2>3, Slots
  <2> QED
    BY <1>3, <2>4, MessageFacts DEF ConfigOf
<1> QED
  BY <1>1, <1>2, <1>3

\* During setup every receiver is there.
LEMMA OpenInSetup ==
  ASSUME DriverInv, phase \notin {"teardown", "torndown"}, NEW c \in Channels
  PROVE  Open(c)
BY Names DEF DriverInv, Lifetimes, Open

\* The configuration of e is sent.
LEMMA ConfigureStep ==
  ASSUME DriverInv, phase = "setup", NEW e \in Elements, ~ConfigSent(e),
         send_cmd(e, ConfigOf(e)), UNCHANGED <<fwd, todo>>,
         \A x \in Elements : /\ Open(x)'
                             /\ pc'[x] = "action" <=> pc[x] = "action"
                             /\ ConfigSent(x)' <=> ConfigSent(x) \/ x = e
  PROVE  /\ queue' \in [Channels -> Seq(Message)]
         /\ \A c \in Channels : Len(queue'[c]) <= Cap
         /\ queue'[Notifier] = queue[Notifier]
         /\ Configuration' /\ Actions'
         /\ \A x \in Elements :
              /\ NData(queue'[x]) = NData(queue[x])
              /\ \A a \in Int : Numbered(queue[x], a) => Numbered(queue'[x], a)
<1> USE PipelineAssumption
<1>1. \A c \in Channels : Open(c)
  BY OpenInSetup
<1>2. queue[e] = <<>> /\ fwd[e] = new /\ pc[e] # "action"
  BY <1>1, Names DEF DriverInv, Configuration, Actions
<1>3. /\ queue' = [queue EXCEPT ![e] = Append(<<>>, ConfigOf(e))]
      /\ Types
  BY <1>1, <1>2, Names DEF send_cmd, DriverInv, Types
<1>4. /\ queue'[e] = Append(<<>>, ConfigOf(e))
      /\ \A c \in Channels : c # e => queue'[c] = queue[c]
  BY <1>3, Names DEF Types
<1>5. /\ queue'[e] \in Seq(Message) /\ Len(queue'[e]) = 1 /\ queue'[e][1] = ConfigOf(e)
      /\ DataBehind(queue'[e]) /\ HasConfig(queue'[e])
      /\ NData(queue'[e]) = 0 /\ NData(queue[e]) = 0
      /\ \A a : Numbered(queue'[e], a)
  BY <1>2, <1>4, AppendConfig, ConfigOfType
<1>6. queue' \in [Channels -> Seq(Message)]
  BY <1>3, <1>4, <1>5 DEF Types
<1>7. \A c \in Channels : Len(queue'[c]) <= Cap
  BY <1>3, <1>4, <1>5 DEF Types
<1>8. queue'[Notifier] = queue[Notifier]
  BY <1>4, Names
<1>9. Configuration'
  <2> SUFFICES ASSUME NEW x \in Elements
               PROVE  /\ ConfigSent(x)' =>
                           IF HasConfig(queue'[x])
                             THEN queue'[x][1] = ConfigOf(x) /\ fwd'[x] = new
                             ELSE Configured(x)'
                      /\ ~ConfigSent(x)' => queue'[x] = <<>> /\ fwd'[x] = new
                      /\ DataBehind(queue'[x])
    BY <1>8 DEF Configuration, DriverInv, ConfigOf, After
  <2>1. CASE x = e
    BY <1>2, <1>5, <2>1
  <2>2. CASE x # e
    <3>1. queue'[x] = queue[x] /\ (Configured(x)' <=> Configured(x)) /\ Open(x)
      BY <1>1, <1>4, <2>2, Names DEF Configured
    <3> QED
      BY <2>2, <3>1 DEF DriverInv, Configuration
  <2> QED
    BY <2>1, <2>2
<1>10. Actions'
  <2> SUFFICES ASSUME NEW x \in Elements
               PROVE  /\ todo[x] # <<>> => pc'[x] = "action" /\ todo[x] = fwd[x].senders
                      /\ pc'[x] = "action" => /\ ConfigSent(x)'
                                              /\ ~HasConfig(queue'[x])
                                              /\ fwd[x].received_count >= 1
    BY DEF Actions
  <2>1. CASE x = e
    BY <1>2, <2>1 DEF DriverInv, Actions
  <2>2. CASE x # e
    <3>1. queue'[x] = queue[x]
      BY <1>4, <2>2, Names
    <3> QED
      BY <3>1 DEF DriverInv, Actions
  <2> QED
    BY <2>1, <2>2
<1>11. ASSUME NEW x \in Elements
       PROVE  /\ NData(queue'[x]) = NData(queue[x])
              /\ \A a \in Int : Numbered(queue[x], a) => Numbered(queue'[x], a)
  <2>1. CASE x = e
    BY <1>5, <2>1
  <2>2. CASE x # e
    <3>1. queue'[x] = queue[x]
      BY <1>4, <2>2, Names
    <3> QED
      BY <3>1
  <2> QED
    BY <2>1, <2>2
<1> QED
  BY <1>6, <1>7, <1>8, <1>9, <1>10, <1>11

\* An element is made, and the one before it configured.
LEMMA SetupElementInv ==
  ASSUME DriverInv, NEW label \in {"recv", "unborn"}, SetupElement(label)
  PROVE  DriverInv'
<1> USE PipelineAssumption, DriverAssumption
<1>1. Types /\ Control /\ phase = "setup" /\ phase' = "setup"
  BY DEF DriverInv, SetupElement
<1>2. lane \in 1..Lanes /\ id \in 1..Pipelines /\ lane' = lane /\ id' = id + 1
  BY <1>1 DEF Types, Control, SetupElement
<1> DEFINE x == Slot(lane, id)
<1>3. /\ x \in Elements /\ x # Concentrator /\ x[1] = lane /\ x[2] = id /\ x # Notifier
      /\ pc[x] = "unborn" /\ pc' = [pc EXCEPT ![x] = label]
  <2>1. x \in Elements /\ x # Concentrator /\ x[1] = lane /\ x[2] = id /\ x # Notifier
    BY <1>2, Slots
  <2>2. ~Created(x)
    BY <1>1, <1>2, <2>1 DEF Created
  <2> QED
    BY <2>1, <2>2 DEF DriverInv, Lifetimes, SetupElement, Slot
<1>4. \A e \in Channels : pc'[e] = IF e = x THEN label ELSE pc[e]
  BY <1>1, <1>3 DEF Types
<1> HIDE DEF x
<1>5. UNCHANGED <<fwd, todo, delivered, phase, iteration, lane>>
  BY DEF SetupElement
<1>6. \A e \in Elements : /\ Open(e)' /\ Open(e)
                          /\ pc'[e] = "action" <=> pc[e] = "action"
  BY <1>1, <1>3, <1>4, OpenInSetup, Names DEF Open
<1>7. /\ Configuration' /\ Actions'
      /\ queue' \in [Channels -> Seq(Message)]
      /\ \A c \in Channels : Len(queue'[c]) <= Cap
      /\ queue'[Notifier] = queue[Notifier]
      /\ \A e \in Elements :
           /\ NData(queue'[e]) = NData(queue[e])
           /\ \A a \in Int : Numbered(queue[e], a) => Numbered(queue'[e], a)
  <2>1. CASE id = 1
    <3>1. queue' = queue
      BY <2>1 DEF SetupElement
    <3>2. \A e \in Elements : ConfigSent(e)' <=> ConfigSent(e)
      BY <1>1, <1>2, <2>1, Names DEF ConfigSent
    <3> QED
      BY <1>1, <1>5, <1>6, <3>1, <3>2, ConfigFrame DEF Types
  <2>2. CASE id # 1
    <3> DEFINE e == Slot(lane, id - 1)
    <3>1. id - 1 \in 1..Pipelines /\ id - 1 # Pipelines /\ id - 1 + 1 = id
      BY <1>2, <2>2
    <3>2. /\ e \in Elements /\ e # Concentrator /\ e[1] = lane /\ e[2] = id - 1
          /\ After(e) = <<lane, id>>
      BY <1>2, <3>1, Slots DEF Slot
    <3>3. send_cmd(e, ConfigOf(e))
      BY <2>2, <3>1, <3>2 DEF SetupElement, ConfigOf, Slot
    <3>4. ASSUME NEW y \in Elements, y[1] = lane, y[2] = id - 1
          PROVE  y = e
      <4>1. y # Concentrator
        BY <1>2, <3>4, Names
      <4>2. y = Slot(y[1], y[2])
        BY <4>1, Names
      <4> QED
        BY <3>4, <4>2
    <3> HIDE DEF e
    <3>5. ~ConfigSent(e)
      BY <1>1, <1>2, <3>2 DEF ConfigSent
    <3>6. ASSUME NEW y \in Elements
          PROVE  ConfigSent(y)' <=> ConfigSent(y) \/ y = e
      <4>1. CASE y = Concentrator
        BY <1>1, <1>2, <3>2, <4>1, Names DEF ConfigSent
      <4>2. CASE y # Concentrator
        BY <1>1, <1>2, <3>2, <3>4, <4>2, Names DEF ConfigSent
      <4> QED
        BY <4>1, <4>2
    <3> QED
      BY <1>1, <1>5, <1>6, <3>2, <3>3, <3>5, <3>6, ConfigureStep
  <2> QED
    BY <2>1, <2>2
<1>8. Types' /\ Control'
  <2>1. pc' \in [Channels -> {"unborn", "recv", "action", "exited", "panicked"}]
    BY <1>1, <1>3 DEF Types
  <2> QED
    BY <1>1, <1>2, <1>5, <1>7, <2>1 DEF Types, Control
<1>9. Lifetimes'
  <2>1. \A e \in Elements : ~Created(e)' => ~Created(e) /\ e # x
    BY <1>1, <1>2, <1>3, Names DEF Created
  <2> QED
    BY <1>1, <1>3, <1>4, <2>1, Names DEF DriverInv, Lifetimes
<1>10. Done' = Done /\ \A l \in 1..Lanes : SentTo(l)' = SentTo(l)
  BY <1>1, <1>5 DEF Done, SentTo
<1>11. Hops' /\ Order' /\ Numbers' /\ LaneNotices' /\ ConcentratorNotices'
  BY <1>1, <1>5, <1>6, <1>7, <1>10, DataFrame
<1> QED
  BY <1>7, <1>8, <1>9, <1>11 DEF DriverInv

\* The last element of a lane is configured.
LEMMA SetupLaneInv == ASSUME DriverInv, SetupLane PROVE DriverInv'
<1> USE PipelineAssumption, DriverAssumption
<1>1. Types /\ Control /\ phase = "setup" /\ phase' = "setup"
  BY DEF DriverInv, SetupLane
<1>2. /\ lane \in 1..Lanes /\ id = Pipelines + 1 /\ lane' = lane + 1 /\ id' = 1
      /\ UNCHANGED <<fwd, pc, todo, delivered, phase, iteration>>
  BY <1>1 DEF Types, SetupLane
<1>3. \A x \in Elements : /\ Open(x)' /\ Open(x)
                          /\ pc'[x] = "action" <=> pc[x] = "action"
  BY <1>1, <1>2, OpenInSetup, Names DEF Open
<1> DEFINE e == Slot(lane, Pipelines)
<1>4. /\ e \in Elements /\ e # Concentrator /\ e[1] = lane /\ e[2] = Pipelines
  BY <1>2, Slots
<1>5. send_cmd(e, ConfigOf(e))
  BY <1>4 DEF SetupLane, ConfigOf, Slot
<1>6. ASSUME NEW y \in Elements, y[1] = lane, y[2] = Pipelines
      PROVE  y = e
  <2>1. y # Concentrator
    BY <1>2, <1>6, Names
  <2>2. y = Slot(y[1], y[2])
    BY <2>1, Names
  <2> QED
    BY <1>6, <2>2
<1> HIDE DEF e
<1>7. ~ConfigSent(e)
  BY <1>1, <1>2, <1>4 DEF ConfigSent
<1>8. ASSUME NEW y \in Elements
      PROVE  ConfigSent(y)' <=> ConfigSent(y) \/ y = e
  <2>1. CASE y = Concentrator
    BY <1>1, <1>2, <1>4, <2>1, Names DEF ConfigSent
  <2>2. CASE y # Concentrator
    <3>1. y[1] \in 1..Lanes /\ y[2] \in 1..Pipelines
      BY <2>2, Names
    <3>2. ConfigSent(y)' <=> y[1] <= lane
      BY <1>1, <1>2, <3>1 DEF ConfigSent
    <3>3. ConfigSent(y) <=> y[1] < lane \/ (y[1] = lane /\ y[2] < Pipelines)
      BY <1>1, <1>2, <3>1 DEF ConfigSent
    <3>4. y = e <=> y[1] = lane /\ y[2] = Pipelines
      BY <1>4, <1>6
    <3> QED
      BY <1>2, <3>1, <3>2, <3>3, <3>4
  <2> QED
    BY <2>1, <2>2
<1>9. /\ Configuration' /\ Actions'
      /\ queue' \in [Channels -> Seq(Message)]
      /\ \A c \in Channels : Len(queue'[c]) <= Cap
      /\ queue'[Notifier] = queue[Notifier]
      /\ \A x \in Elements :
           /\ NData(queue'[x]) = NData(queue[x])
           /\ \A a \in Int : Numbered(queue[x], a) => Numbered(queue'[x], a)
  BY <1>1, <1>2, <1>3, <1>4, <1>5, <1>7, <1>8, ConfigureStep
<1>10. Types' /\ Control'
  BY <1>1, <1>2, <1>9 DEF Types, Control
<1>11. Lifetimes'
  <2>1. \A x \in Elements : ~Created(x)' => ~Created(x)
    BY <1>1, <1>2, Names DEF Created
  <2> QED
    BY <1>1, <1>2, <2>1 DEF DriverInv, Lifetimes
<1>12. Done' = Done /\ \A l \in 1..Lanes : SentTo(l)' = SentTo(l)
  BY <1>1, <1>2 DEF Done, SentTo
<1>13. Hops' /\ Order' /\ Numbers' /\ LaneNotices' /\ ConcentratorNotices'
  BY <1>1, <1>2, <1>3, <1>9, <1>12, DataFrame
<1> QED
  BY <1>9, <1>10, <1>11, <1>13 DEF DriverInv

\* The concentrator is configured, and setup returns.
LEMMA SetupNotifierInv == ASSUME DriverInv, SetupNotifier PROVE DriverInv'
<1> USE PipelineAssumption, DriverAssumption
<1>1. Types /\ Control /\ phase = "setup" /\ phase' = "idle" /\ iteration = 0
  BY DEF DriverInv, SetupNotifier, Control
<1>2. /\ lane = Lanes + 1 /\ lane' = 1 /\ id' = 0
      /\ UNCHANGED <<fwd, todo, delivered, iteration>>
      /\ pc' = [pc EXCEPT ![Notifier] = "recv"]
  BY <1>1 DEF SetupNotifier
<1>3. \A x \in Elements : pc'[x] = pc[x] /\ Open(x)' /\ Open(x)
  BY <1>1, <1>2, OpenInSetup, Names DEF Open, Types
<1>4. send_cmd(Concentrator, ConfigOf(Concentrator))
  BY DEF SetupNotifier, ConfigOf
<1>5. ~ConfigSent(Concentrator)
  BY <1>1, <1>2, Names DEF ConfigSent
<1>6. \A x \in Elements : ConfigSent(x)' <=> ConfigSent(x) \/ x = Concentrator
  BY <1>1, <1>2, Names DEF ConfigSent
<1>7. /\ Configuration' /\ Actions'
      /\ queue' \in [Channels -> Seq(Message)]
      /\ \A c \in Channels : Len(queue'[c]) <= Cap
      /\ queue'[Notifier] = queue[Notifier]
      /\ \A x \in Elements :
           /\ NData(queue'[x]) = NData(queue[x])
           /\ \A a \in Int : Numbered(queue[x], a) => Numbered(queue'[x], a)
  BY <1>1, <1>2, <1>3, <1>4, <1>5, <1>6, ConfigureStep, Names
<1>8. Types' /\ Control'
  <2>1. pc' \in [Channels -> {"unborn", "recv", "action", "exited", "panicked"}]
    BY <1>1, <1>2 DEF Types
  <2> QED
    BY <1>1, <1>2, <1>7, <2>1 DEF Types, Control
<1>9. Lifetimes'
  BY <1>1, <1>2, <1>3, Names DEF DriverInv, Lifetimes, Created, Types
<1>10. Done' = Done /\ \A l \in 1..Lanes : SentTo(l)' = SentTo(l)
  BY <1>1, <1>2, RunProducts DEF Done, SentTo
<1>11. Hops' /\ Order' /\ Numbers' /\ LaneNotices' /\ ConcentratorNotices'
  BY <1>1, <1>2, <1>3, <1>7, <1>10, DataFrame
<1> QED
  BY <1>7, <1>8, <1>9, <1>11 DEF DriverInv

-----------------------------------------------------------------------------
(* Sending test data.                                                      *)

\* What a send of test data does to the channels.
LEMMA SendStep ==
  ASSUME DriverInv, NEW c \in Channels, Open(c), NEW n \in Nat, send_cmd(c, TestData(n))
  PROVE  /\ queue' \in [Channels -> Seq(Message)]
         /\ \A d \in Channels : Len(queue'[d]) <= Cap
         /\ \A d \in Channels : d # c => queue'[d] = queue[d]
         /\ queue'[c] # <<>> /\ Len(queue'[c]) = Len(queue[c]) + 1
         /\ queue[c] # <<>> => queue'[c][1] = queue[c][1]
         /\ DataBehind(queue'[c])
         /\ HasConfig(queue'[c]) <=> HasConfig(queue[c])
         /\ NData(queue'[c]) = NData(queue[c]) + 1
         /\ \A a \in Int : Numbered(queue[c], a) /\ n = a + NData(queue[c]) =>
                             Numbered(queue'[c], a)
<1> USE PipelineAssumption
<1>1. Types /\ queue[c] \in Seq(Message) /\ DataBehind(queue[c])
  BY Names DEF DriverInv, Types, Configuration
<1>2. queue' = [queue EXCEPT ![c] = Append(queue[c], TestData(n))] /\ Len(queue[c]) < Cap
  BY <1>1 DEF send_cmd
<1>3. /\ queue'[c] = Append(queue[c], TestData(n))
      /\ \A d \in Channels : d # c => queue'[d] = queue[d]
  BY <1>1, <1>2 DEF Types
<1>4. /\ queue'[c] \in Seq(Message) /\ Len(queue'[c]) = Len(queue[c]) + 1
      /\ queue'[c] # <<>>
      /\ queue[c] # <<>> => queue'[c][1] = queue[c][1]
      /\ DataBehind(queue'[c])
      /\ HasConfig(queue'[c]) <=> HasConfig(queue[c])
      /\ NData(queue'[c]) = NData(queue[c]) + 1
      /\ \A a \in Int : Numbered(queue[c], a) /\ n = a + NData(queue[c]) =>
                          Numbered(queue'[c], a)
  BY <1>1, <1>3, AppendData
<1>5. queue' \in [Channels -> Seq(Message)]
  BY <1>1, <1>2, <1>4 DEF Types
<1>6. Len(queue[c]) \in Nat
  BY <1>1, LenProperties
<1>7. \A d \in Channels : Len(queue'[d]) <= Cap
  BY <1>1, <1>2, <1>3, <1>4, <1>6 DEF Types
<1> QED
  BY <1>3, <1>4, <1>5, <1>7

\* A step that moves data behind the configuration, and leaves alone what the
\* forwarders know from it.
LEMMA ConfigKept ==
  ASSUME DriverInv,
         \A e \in Elements :
           /\ Open(e)' <=> Open(e)
           /\ ConfigSent(e)' <=> ConfigSent(e)
           /\ \/ queue'[e] = queue[e]
              \/ /\ Open(e) /\ ConfigSent(e) /\ DataBehind(queue'[e])
                 /\ HasConfig(queue'[e]) <=> HasConfig(queue[e])
                 /\ HasConfig(queue[e]) => queue'[e][1] = queue[e][1]
           /\ \/ fwd'[e] = fwd[e]
              \/ /\ Open(e) /\ ConfigSent(e) /\ ~HasConfig(queue[e])
                 /\ fwd'[e].senders = fwd[e].senders
                 /\ fwd'[e].notify_sender = fwd[e].notify_sender
                 /\ fwd'[e].notify_count = fwd[e].notify_count,
         DataBehind(queue'[Notifier]), ~HasConfig(queue'[Notifier])
  PROVE  Configuration'
<1> SUFFICES ASSUME NEW e \in Elements
             PROVE  /\ ~Open(e) => queue'[e] = <<>>
                    /\ Open(e) /\ ~ConfigSent(e) => queue'[e] = <<>> /\ fwd'[e] = new
                    /\ Open(e) /\ ConfigSent(e) =>
                         IF HasConfig(queue'[e])
                           THEN queue'[e][1] = ConfigOf(e) /\ fwd'[e] = new
                           ELSE Configured(e)'
                    /\ DataBehind(queue'[e])
  BY DEF Configuration, ConfigOf, After
<1>1. /\ ~Open(e) => queue[e] = <<>>
      /\ Open(e) /\ ~ConfigSent(e) => queue[e] = <<>> /\ fwd[e] = new
      /\ Open(e) /\ ConfigSent(e) =>
           IF HasConfig(queue[e]) THEN queue[e][1] = ConfigOf(e) /\ fwd[e] = new
                                  ELSE Configured(e)
      /\ DataBehind(queue[e])
  BY DEF DriverInv, Configuration
<1>2. fwd'[e] = fwd[e] => (Configured(e)' <=> Configured(e))
  BY DEF Configured
<1>3. /\ fwd'[e].senders = fwd[e].senders
      /\ fwd'[e].notify_sender = fwd[e].notify_sender
      /\ fwd'[e].notify_count = fwd[e].notify_count
      => (Configured(e)' <=> Configured(e))
  BY DEF Configured
<1> QED
  BY <1>1, <1>2, <1>3

\* A message is sent into a lane.
LEMMA RunSendInv == ASSUME DriverInv, RunSend PROVE DriverInv'
<1> USE PipelineAssumption, DriverAssumption
<1>1. Types /\ Control /\ phase = "sending"
  BY DEF DriverInv, RunSend
<1>2. /\ lane \in 1..Lanes /\ id \in 0..(Messages - 1) /\ iteration \in Nat /\ iteration >= 1
      /\ UNCHANGED <<fwd, pc, todo, delivered, iteration>>
      /\ \/ lane < Lanes /\ lane' = lane + 1 /\ phase' = phase /\ id' = id
         \/ lane = Lanes /\ lane' = 1 /\ id + 1 < Messages /\ id' = id + 1 /\ phase' = phase
         \/ lane = Lanes /\ lane' = 1 /\ id + 1 = Messages /\ id' = 0 /\ phase' = "waiting"
  BY <1>1 DEF Types, Control, RunSend
<1> DEFINE h == Slot(lane, 1)
<1>3. /\ h \in Elements /\ h \in Channels /\ h # Notifier /\ h # Concentrator
      /\ Open(h) /\ send_cmd(h, TestData(id)) /\ 1 \in 1..Pipelines
  BY <1>1, <1>2, Slots, OpenInSetup DEF RunSend, Slot
<1> HIDE DEF h
<1>4. /\ queue' \in [Channels -> Seq(Message)]
      /\ \A d \in Channels : Len(queue'[d]) <= Cap
      /\ \A d \in Channels : d # h => queue'[d] = queue[d]
      /\ queue'[h] # <<>> /\ Len(queue'[h]) = Len(queue[h]) + 1
      /\ queue[h] # <<>> => queue'[h][1] = queue[h][1]
      /\ DataBehind(queue'[h])
      /\ HasConfig(queue'[h]) <=> HasConfig(queue[h])
      /\ NData(queue'[h]) = NData(queue[h]) + 1
      /\ \A a \in Int : Numbered(queue[h], a) /\ id = a + NData(queue[h]) =>
                          Numbered(queue'[h], a)
  BY <1>2, <1>3, SendStep
<1>5. Types' /\ Control'
  <2>1. Control'
    BY <1>1, <1>2 DEF Control
  <2>2. /\ fwd' \in [Elements -> Forwarders]
        /\ pc' \in [Channels -> {"unborn", "recv", "action", "exited", "panicked"}]
        /\ todo' \in [Elements -> Seq(LaneElements)]
        /\ delivered' \in [1..Lanes -> Nat]
        /\ iteration' \in 0..Iterations
    BY <1>1, <1>2 DEF Types
  <2>3. /\ phase' \in {"setup", "idle", "sending", "waiting", "teardown", "torndown"}
        /\ lane' \in 1..(Lanes + 1)
        /\ id' \in Nat
    BY <1>1, <1>2
  <2> QED
    BY <1>4, <2>1, <2>2, <2>3 DEF Types
<1>6. Lifetimes'
  BY <1>1, <1>2 DEF DriverInv, Lifetimes, Created
<1>7. queue'[Notifier] = queue[Notifier] /\ queue'[Concentrator] = queue[Concentrator]
  BY <1>3, <1>4, Names
<1>8. \A e : ConfigSent(e) /\ ConfigSent(e)'
  BY <1>1, <1>2 DEF ConfigSent
<1>9. \A e : Open(e)' <=> Open(e)
  BY <1>2 DEF Open
<1>10. Configuration'
  <2>1. \A e \in Elements : \/ queue'[e] = queue[e]
                            \/ e = h
    BY <1>4, Names
  <2>2. HasConfig(queue[h]) => queue'[h][1] = queue[h][1]
    BY <1>4 DEF HasConfig
  <2> QED
    BY <1>2, <1>3, <1>4, <1>7, <1>8, <1>9, <2>1, <2>2, ConfigKept DEF DriverInv, Configuration
<1>11. Actions'
  <2> SUFFICES ASSUME NEW e \in Elements, pc[e] = "action"
               PROVE  ~HasConfig(queue'[e])
    BY <1>2, <1>8 DEF DriverInv, Actions
  <2>1. ~HasConfig(queue[e])
    BY DEF DriverInv, Actions
  <2>2. CASE e = h
    BY <1>4, <2>1, <2>2
  <2>3. CASE e # h
    BY <1>4, <2>1, <2>3, Names
  <2> QED
    BY <2>2, <2>3
<1>12. Done' = Done /\ Done \in Nat
  BY <1>1, <1>2, SentFacts DEF Done
<1>13. ASSUME NEW l \in 1..Lanes
       PROVE  /\ SentTo(l)' = SentTo(l) + IF l = lane THEN 1 ELSE 0
              /\ SentTo(l) \in Nat
              /\ l = lane => SentTo(l) = Done + id
  <2>1. InRun(l) = id + IF l < lane THEN 1 ELSE 0
    BY <1>1 DEF InRun
  <2>2. InRun(l)' = InRun(l) + IF l = lane THEN 1 ELSE 0
    <3>1. CASE lane < Lanes
      BY <1>1, <1>2, <2>1, <3>1 DEF InRun
    <3>2. CASE lane = Lanes /\ phase' = phase
      <4>1. InRun(l)' = id + 1
        BY <1>1, <1>2, <3>2 DEF InRun
      <4> QED
        BY <1>2, <2>1, <3>2, <4>1
    <3>3. CASE lane = Lanes /\ phase' = "waiting"
      <4>1. InRun(l)' = id + 1
        BY <1>1, <1>2, <3>3 DEF InRun
      <4> QED
        BY <1>2, <2>1, <3>3, <4>1
    <3> QED
      BY <1>2, <3>1, <3>2, <3>3
  <2>3. SentTo(l) = Done + InRun(l) /\ SentTo(l)' = Done' + InRun(l)'
    BY <1>1, <1>5, SentFacts, SentFactsNext
  <2>4. InRun(l) \in Nat
    BY <1>2, <2>1
  <2> QED
    BY <1>2, <1>12, <2>1, <2>2, <2>3, <2>4
<1>14. ASSUME NEW l \in 1..Lanes, NEW i \in 1..Pipelines
       PROVE  /\ Accepted(l, i)' = Accepted(l, i)
              /\ Passed(l, i)' = Passed(l, i)
              /\ i # 1 => Passed(l, i - 1)' = Passed(l, i - 1)
              /\ Slot(l, i) # h => queue'[Slot(l, i)] = queue[Slot(l, i)]
  <2>1. \A j : /\ Accepted(l, j)' = Accepted(l, j)
               /\ j # 0 => Passed(l, j)' = Passed(l, j)
    BY <1>2 DEF Accepted, Passed
  <2>2. i # 0 /\ (i # 1 => i - 1 # 0)
    OBVIOUS
  <2> QED
    BY <1>4, <2>1, <2>2, Slots
<1>15. ASSUME NEW l \in 1..Lanes, NEW i \in 1..Pipelines
       PROVE  Slot(l, i) = h <=> l = lane /\ i = 1
  BY Slots DEF h
<1>16. Hops'
  <2> SUFFICES ASSUME NEW l \in 1..Lanes, NEW i \in 1..Pipelines
               PROVE  /\ Passed(l, i - 1)' = Accepted(l, i)' + NData(queue'[Slot(l, i)])
                      /\ i < Pipelines => Accepted(l, i)' = Passed(l, i)' + Len(todo'[Slot(l, i)])
    BY DEF Hops
  <2>1. /\ Passed(l, i - 1) = Accepted(l, i) + NData(queue[Slot(l, i)])
        /\ i < Pipelines => Accepted(l, i) = Passed(l, i) + Len(todo[Slot(l, i)])
    BY DEF DriverInv, Hops
  <2>2. /\ Accepted(l, i) \in Nat /\ Passed(l, i - 1) \in Nat
        /\ NData(queue[Slot(l, i)]) \in Nat
    BY CountTypes
  <2>3. CASE Slot(l, i) = h
    <3>1. l = lane /\ i = 1
      BY <1>15, <2>3
    <3>2. Passed(l, i - 1) = SentTo(l) /\ Passed(l, i - 1)' = SentTo(l)'
      BY <3>1, SlotCounts
    <3>3. NData(queue'[Slot(l, i)]) = NData(queue[Slot(l, i)]) + 1
      BY <1>4, <2>3
    <3> QED
      BY <1>2, <1>13, <1>14, <2>1, <2>2, <3>1, <3>2, <3>3
  <2>4. CASE Slot(l, i) # h /\ i = 1
    <3>1. l # lane
      BY <1>15, <2>4
    <3>2. Passed(l, i - 1) = SentTo(l) /\ Passed(l, i - 1)' = SentTo(l)'
      BY <2>4, SlotCounts
    <3> QED
      BY <1>2, <1>13, <1>14, <2>1, <2>4, <3>1, <3>2
  <2>5. CASE i # 1
    <3>1. Slot(l, i) # h
      BY <1>15, <2>5
    <3> QED
      BY <1>2, <1>14, <2>1, <2>5, <3>1
  <2> QED
    BY <2>3, <2>4, <2>5
<1>17. Order'
  <2> SUFFICES ASSUME NEW l \in 1..Lanes, NEW i \in 1..Pipelines, NEW j \in i..Pipelines
               PROVE  Accepted(l, i)' <= SentTo(l)' /\ Accepted(l, j)' <= Accepted(l, i)'
    BY DEF Order
  <2>1. j \in 1..Pipelines
    OBVIOUS
  <2>2. Accepted(l, i) <= SentTo(l) /\ Accepted(l, j) <= Accepted(l, i)
    BY DEF DriverInv, Order
  <2>3. Accepted(l, i) \in Nat /\ SentTo(l) \in Nat
    BY CountTypes
  <2> QED
    BY <1>2, <1>13, <1>14, <2>1, <2>2, <2>3
<1>18. Numbers'
  <2> SUFFICES ASSUME NEW l \in 1..Lanes, NEW i \in 1..(Pipelines - 1)
               PROVE  /\ Numbered(queue'[Slot(l, i)], Count(l, i)')
                      /\ Count(l, i)' > 0 => fwd'[Slot(l, i)].next_seq = Count(l, i)'
    BY DEF Numbers
  <2>1. i \in 1..Pipelines
    OBVIOUS
  <2>2. Count(l, i)' = Count(l, i)
    BY <1>12, <1>14, <2>1 DEF Count
  <2>3. /\ Numbered(queue[Slot(l, i)], Count(l, i))
        /\ Count(l, i) > 0 => fwd[Slot(l, i)].next_seq = Count(l, i)
    BY DEF DriverInv, Numbers
  <2>4. CASE Slot(l, i) = h
    <3>1. l = lane /\ i = 1
      BY <1>15, <2>1, <2>4
    <3>2. Passed(l, i - 1) = SentTo(l)
      BY <3>1, SlotCounts
    <3>3. SentTo(l) = Accepted(l, i) + NData(queue[Slot(l, i)])
      BY <2>1, <3>2 DEF DriverInv, Hops
    <3>4. Accepted(l, i) \in Nat /\ NData(queue[Slot(l, i)]) \in Nat
      BY <2>1, CountTypes
    <3>5. Count(l, i) = Accepted(l, i) - Done
      BY <3>1 DEF Count
    <3>6. Count(l, i) \in Int /\ id = Count(l, i) + NData(queue[h])
      BY <1>2, <1>12, <1>13, <2>4, <3>1, <3>3, <3>4, <3>5
    <3> QED
      BY <1>2, <1>4, <2>2, <2>3, <2>4, <3>6
  <2>5. CASE Slot(l, i) # h
    BY <1>2, <1>14, <2>1, <2>2, <2>3, <2>5
  <2> QED
    BY <2>4, <2>5
<1>19. LaneNotices' /\ NotifiedLanes' = NotifiedLanes
  BY <1>2, <1>12 DEF DriverInv, LaneNotices, NotifiedLanes, Notified, Last
<1>20. ConcentratorNotices'
  BY <1>1, <1>2, <1>7, <1>19 DEF DriverInv, ConcentratorNotices
<1> QED
  BY <1>5, <1>6, <1>10, <1>11, <1>16, <1>17, <1>18, <1>19, <1>20 DEF DriverInv
===========================================================================
