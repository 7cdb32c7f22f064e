---------------------------- MODULE TokioProofs ----------------------------
(***************************************************************************)
(* TokioInv is kept by every step of TokioDriver, for any number of lanes, *)
(* elements, messages and runs and any capacity.                           *)
(***************************************************************************)
EXTENDS TokioInvariant, DriverProofs

-----------------------------------------------------------------------------
(* Which message goes into which lane.                                     *)

\* Quotients and remainders by the number of lanes are unique.
LEMMA Division ==
  /\ \A f \in Nat : /\ f \div Lanes \in Nat /\ f % Lanes \in 0..(Lanes - 1)
                    /\ f = Lanes * (f \div Lanes) + (f % Lanes)
  /\ \A q, p \in Nat : \A r, s \in 0..(Lanes - 1) :
       Lanes * q + r = Lanes * p + s => q = p /\ r = s
<1>1. ASSUME NEW f \in Nat
      PROVE  /\ f \div Lanes \in Nat /\ f % Lanes \in 0..(Lanes - 1)
             /\ f = Lanes * (f \div Lanes) + (f % Lanes)
  <2>1. f \div Lanes \in Nat
    BY PipelineAssumption
  <2>2. f % Lanes \in 0..(Lanes - 1)
    BY PipelineAssumption
  <2>3. f = Lanes * (f \div Lanes) + (f % Lanes)
    BY PipelineAssumption
  <2> QED
    BY <2>1, <2>2, <2>3
<1>2. ASSUME NEW q \in Nat, NEW p \in Nat, q < p
      PROVE  Lanes * q + Lanes <= Lanes * p
  <2>1. p - q \in Nat /\ p - q >= 1
    BY <1>2
  <2>2. Lanes * p = Lanes * q + Lanes * (p - q)
    BY <2>1, PipelineAssumption
  <2>3. Lanes * (p - q) >= Lanes /\ Lanes * (p - q) \in Nat /\ Lanes * q \in Nat
    BY <2>1, PipelineAssumption
  <2> QED
    BY <2>2, <2>3, PipelineAssumption
<1>3. ASSUME NEW q \in Nat, NEW p \in Nat,
             NEW r \in 0..(Lanes - 1), NEW s \in 0..(Lanes - 1),
             Lanes * q + r = Lanes * p + s
      PROVE  q = p /\ r = s
  <2>1. Lanes * q \in Nat /\ Lanes * p \in Nat
    BY PipelineAssumption
  <2>2. CASE q < p
    <3>1. Lanes * q + Lanes <= Lanes * p
      BY <1>2, <2>2
    <3> QED
      BY <1>3, <2>1, <3>1, PipelineAssumption
  <2>3. CASE p < q
    <3>1. Lanes * p + Lanes <= Lanes * q
      BY <1>2, <2>3
    <3> QED
      BY <1>3, <2>1, <3>1, PipelineAssumption
  <2>4. CASE p = q
    BY <1>3, <2>1, <2>4
  <2> QED
    BY <2>2, <2>3, <2>4
<1> QED
  BY <1>1, <1>3

\* A run's messages go to the lanes in turn: the next one to the lane that it
\* names, as many as the lane has got so far being its number.
LEMMA Shares ==
  /\ \A l \in 1..Lanes : Share(0, l) = 0 /\ Share(Messages * Lanes, l) = Messages
  /\ \A f \in Nat : \A l \in 1..Lanes :
       /\ Share(f, l) \in Nat
       /\ Share(f + 1, l) = Share(f, l) + IF l = (f % Lanes) + 1 THEN 1 ELSE 0
       /\ l = (f % Lanes) + 1 => Share(f, l) = f \div Lanes
  /\ \A f \in 0..(Messages * Lanes) :
       Share(f, Lanes) >= Messages => f = Messages * Lanes
<1> USE PipelineAssumption
<1>1. ASSUME NEW f \in Nat, NEW q \in Nat, NEW r \in 0..(Lanes - 1), f = Lanes * q + r
      PROVE  f \div Lanes = q /\ f % Lanes = r
  <2>1. /\ f \div Lanes \in Nat /\ f % Lanes \in 0..(Lanes - 1)
        /\ Lanes * q + r = Lanes * (f \div Lanes) + (f % Lanes)
    BY <1>1, Division
  <2> QED
    BY <1>1, <2>1, Division
<1>2. Messages * Lanes \in Nat /\ Messages * Lanes = Lanes * Messages + 0
  OBVIOUS
<1>3. 0 = Lanes * 0 + 0 /\ 0 \in 0..(Lanes - 1)
  OBVIOUS
<1>4. 0 \div Lanes = 0 /\ 0 % Lanes = 0
  BY <1>1, <1>3
<1>5. (Messages * Lanes) \div Lanes = Messages /\ (Messages * Lanes) % Lanes = 0
  BY <1>1, <1>2, <1>3
<1>6. ASSUME NEW l \in 1..Lanes
      PROVE  Share(0, l) = 0 /\ Share(Messages * Lanes, l) = Messages
  BY <1>4, <1>5 DEF Share
<1>7. ASSUME NEW f \in Nat, NEW l \in 1..Lanes
      PROVE  /\ Share(f, l) \in Nat
             /\ Share(f + 1, l) = Share(f, l) + IF l = (f % Lanes) + 1 THEN 1 ELSE 0
             /\ l = (f % Lanes) + 1 => Share(f, l) = f \div Lanes
  <2> DEFINE q == f \div Lanes
             r == f % Lanes
  <2>1. q \in Nat /\ r \in 0..(Lanes - 1) /\ f = Lanes * q + r
    BY Division
  <2>2. Share(f, l) = q + IF l <= r THEN 1 ELSE 0
    BY DEF Share
  <2>3. Lanes * q \in Nat
    BY <2>1
  <2> HIDE DEF q, r
  <2>4. CASE r + 1 < Lanes
    <3>1. r + 1 \in 0..(Lanes - 1) /\ f + 1 = Lanes * q + (r + 1) /\ f + 1 \in Nat
      BY <2>1, <2>3, <2>4
    <3>2. (f + 1) \div Lanes = q /\ (f + 1) % Lanes = r + 1
      BY <1>1, <2>1, <3>1
    <3>3. Share(f + 1, l) = q + IF l <= r + 1 THEN 1 ELSE 0
      BY <3>2 DEF Share
    <3>4. Share(f + 1, l) = Share(f, l) + IF l = r + 1 THEN 1 ELSE 0
      BY <2>1, <2>2, <3>3
    <3> QED
      BY <2>1, <2>2, <3>4 DEF q, r
  <2>5. CASE r + 1 = Lanes
    <3>1. Lanes * (q + 1) = Lanes * q + Lanes
      BY <2>1
    <3>2. q + 1 \in Nat /\ f + 1 = Lanes * (q + 1) + 0 /\ f + 1 \in Nat
      BY <2>1, <2>3, <2>5, <3>1
    <3>3. (f + 1) \div Lanes = q + 1 /\ (f + 1) % Lanes = 0
      BY <1>1, <1>3, <3>2
    <3>4. Share(f + 1, l) = q + 1
      BY <2>1, <3>3 DEF Share
    <3>5. Share(f + 1, l) = Share(f, l) + IF l = r + 1 THEN 1 ELSE 0
      BY <2>1, <2>2, <2>5, <3>4
    <3> QED
      BY <2>1, <2>2, <3>5 DEF q, r
  <2> QED
    BY <2>1, <2>4, <2>5
<1>8. ASSUME NEW f \in 0..(Messages * Lanes), Share(f, Lanes) >= Messages
      PROVE  f = Messages * Lanes
  <2> DEFINE q == f \div Lanes
             r == f % Lanes
  <2>1. q \in Nat /\ r \in 0..(Lanes - 1) /\ f = Lanes * q + r /\ f \in Nat
    BY <1>2, Division
  <2>2. Share(f, Lanes) = q + IF Lanes <= r THEN 1 ELSE 0
    BY DEF Share
  <2> HIDE DEF q, r
  <2>3. q >= Messages
    BY <1>8, <2>1, <2>2
  <2>4. q - Messages \in Nat /\ Lanes * q = Lanes * Messages + Lanes * (q - Messages)
    BY <2>1, <2>3
  <2>5. Lanes * (q - Messages) \in Nat
    BY <2>4
  <2> QED
    BY <1>2, <2>1, <2>4, <2>5
<1> QED
  BY <1>6, <1>7, <1>8

-----------------------------------------------------------------------------
(* What is in a channel.                                                   *)

\* An empty channel holds nothing, and nothing that is out of order.
LEMMA NothingInIt ==
  /\ ~Configures(<<>>) /\ CountData(<<>>) = 0
  /\ \A m : OnlyConfig(<<>>, m)
  /\ \A a : NumberedFrom(<<>>, a)
BY DEF Configures, CountData, OnlyConfig, NumberedFrom

\* The data in a channel is counted by a natural number.
LEMMA CountDataType ==
  ASSUME NEW q \in Seq(Message)
  PROVE  /\ Len(q) \in Nat /\ CountData(q) \in Nat
         /\ Configures(q) => q # <<>>
         /\ CountData(q) <= Len(q)
<1>1. Len(q) \in Nat /\ (q = <<>> <=> Len(q) = 0)
  BY LenProperties, EmptySeq
<1>2. Configures(q) => Len(q) >= 1
  BY <1>1 DEF Configures
<1> QED
  BY <1>1, <1>2 DEF CountData

\* Test data behind all that is in a channel.
LEMMA PutData ==
  ASSUME NEW q \in Seq(Message), NEW n \in Nat
  PROVE  LET r == Append(q, TestData(n))
         IN  /\ r \in Seq(Message)
             /\ Len(r) = Len(q) + 1
             /\ r # <<>>
             /\ Configures(r) <=> Configures(q)
             /\ CountData(r) = CountData(q) + 1
             /\ \A m : OnlyConfig(q, m) => OnlyConfig(r, m)
             /\ \A a \in Int : NumberedFrom(q, a) /\ n = a + CountData(q) => NumberedFrom(r, a)
<1> DEFINE r == Append(q, TestData(n))
<1>1. /\ r \in Seq(Message) /\ Len(r) = Len(q) + 1 /\ Len(q) \in Nat
      /\ \A j \in 1..Len(q) : r[j] = q[j]
      /\ r[Len(q) + 1] = TestData(n)
      /\ r # <<>>
  BY MessageFacts, AppendProperties, LenProperties
<1>2. ~is_config(TestData(n)) /\ TestData(n).n = n
  BY MessageFacts
<1> HIDE DEF r
<1>3. \A j \in 1..Len(r) : j \in 1..Len(q) \/ j = Len(q) + 1
  BY <1>1
<1>4. \A j \in 1..Len(q) : j \in 1..Len(r)
  BY <1>1
<1>5. Configures(r) <=> Configures(q)
  BY <1>1, <1>2, <1>3, <1>4 DEF Configures
<1>6. CountData(r) = CountData(q) + 1
  BY <1>1, <1>5 DEF CountData
<1>7. ASSUME NEW m, OnlyConfig(q, m)
      PROVE  OnlyConfig(r, m)
  BY <1>1, <1>2, <1>3, <1>7 DEF OnlyConfig
<1>8. ASSUME NEW a \in Int, NumberedFrom(q, a), n = a + CountData(q)
      PROVE  NumberedFrom(r, a)
  <2> SUFFICES ASSUME NEW j \in 1..Len(r), ~is_config(r[j])
               PROVE  r[j].n = a + j - IF \E p \in 1..(j - 1) : is_config(r[p]) THEN 2 ELSE 1
    BY DEF NumberedFrom
  <2>1. CASE j \in 1..Len(q)
    <3>1. \A p \in 1..(j - 1) : p \in 1..Len(q)
      BY <2>1, <1>1
    <3>2. (\E p \in 1..(j - 1) : is_config(r[p])) <=> (\E p \in 1..(j - 1) : is_config(q[p]))
      BY <1>1, <3>1
    <3>3. q[j].n = a + j - IF \E p \in 1..(j - 1) : is_config(q[p]) THEN 2 ELSE 1
      BY <1>1, <1>8, <2>1 DEF NumberedFrom
    <3> QED
      BY <1>1, <2>1, <3>2, <3>3
  <2>2. CASE j = Len(q) + 1
    <3>1. 1..(j - 1) = 1..Len(q)
      BY <2>2, <1>1
    <3>2. (\E p \in 1..(j - 1) : is_config(r[p])) <=> Configures(q)
      BY <1>1, <3>1 DEF Configures
    <3>3. r[j].n = n
      BY <2>2, <1>1, <1>2
    <3>4. n = a + Len(q) - IF Configures(q) THEN 1 ELSE 0
      BY <1>1, <1>8 DEF CountData
    <3> QED
      BY <1>1, <2>2, <3>2, <3>3, <3>4
  <2> QED
    BY <1>3, <2>1, <2>2
<1> QED
  BY <1>1, <1>5, <1>6, <1>7, <1>8 DEF r

\* The configuration behind all that is in a channel.
LEMMA PutConfig ==
  ASSUME NEW q \in Seq(Message), ~Configures(q), NEW m \in Message, is_config(m)
  PROVE  LET r == Append(q, m)
         IN  /\ r \in Seq(Message)
             /\ Len(r) = Len(q) + 1
             /\ Configures(r) /\ OnlyConfig(r, m)
             /\ CountData(r) = CountData(q)
             /\ \A a \in Int : NumberedFrom(q, a) => NumberedFrom(r, a)
<1> DEFINE r == Append(q, m)
<1>1. /\ r \in Seq(Message) /\ Len(r) = Len(q) + 1 /\ Len(q) \in Nat
      /\ \A j \in 1..Len(q) : r[j] = q[j]
      /\ r[Len(q) + 1] = m
  BY AppendProperties, LenProperties
<1> HIDE DEF r
<1>2. \A j \in 1..Len(r) : j \in 1..Len(q) \/ j = Len(q) + 1
  BY <1>1
<1>3. \A j \in 1..Len(q) : ~is_config(r[j])
  BY <1>1 DEF Configures
<1>4. Len(q) + 1 \in 1..Len(r)
  BY <1>1
<1>5. Configures(r)
  BY <1>1, <1>4 DEF Configures
<1>6. OnlyConfig(r, m)
  BY <1>1, <1>2, <1>3 DEF OnlyConfig
<1>7. CountData(r) = CountData(q)
  BY <1>1, <1>5 DEF CountData
<1>8. ASSUME NEW a \in Int, NumberedFrom(q, a)
      PROVE  NumberedFrom(r, a)
  <2> SUFFICES ASSUME NEW j \in 1..Len(r), ~is_config(r[j])
               PROVE  r[j].n = a + j - IF \E p \in 1..(j - 1) : is_config(r[p]) THEN 2 ELSE 1
    BY DEF NumberedFrom
  <2>1. j \in 1..Len(q)
    BY <1>1, <1>2
  <2>2. \A p \in 1..(j - 1) : p \in 1..Len(q)
    BY <2>1, <1>1
  <2>3. ~(\E p \in 1..(j - 1) : is_config(r[p])) /\ ~(\E p \in 1..(j - 1) : is_config(q[p]))
    BY <1>1, <1>3, <2>2
  <2>4. q[j].n = a + j - 1
    BY <1>1, <1>8, <2>1, <2>3 DEF NumberedFrom
  <2> QED
    BY <1>1, <2>1, <2>3, <2>4
<1> QED
  BY <1>1, <1>5, <1>6, <1>7, <1>8 DEF r

\* What follows the first message of a channel.
LEMMA Rest ==
  ASSUME NEW q \in Seq(Message), q # <<>>
  PROVE  /\ Tail(q) \in Seq(Message)
         /\ Len(Tail(q)) = Len(q) - 1 /\ Len(q) \in Nat /\ Len(q) >= 1
         /\ Head(q) = q[1] /\ 1 \in 1..Len(q)
         /\ \A j \in 1..Len(Tail(q)) : Tail(q)[j] = q[j + 1] /\ j + 1 \in 1..Len(q)
         /\ \A j \in 1..Len(q) : j = 1 \/ (j - 1 \in 1..Len(Tail(q)) /\ q[j] = Tail(q)[j - 1])
<1> DEFINE r == Tail(q)
<1>1. /\ r \in Seq(Message) /\ Len(r) = Len(q) - 1 /\ Head(q) = q[1]
      /\ Len(q) \in Nat /\ Len(q) >= 1
      /\ \A j \in 1..Len(r) : r[j] = q[j + 1]
  BY HeadTailProperties, LenProperties, EmptySeq
<1> HIDE DEF r
<1>2. 1 \in 1..Len(q) /\ \A j \in 1..Len(r) : j + 1 \in 1..Len(q)
  BY <1>1
<1>3. \A j \in 1..Len(q) : j = 1 \/ (j - 1 \in 1..Len(r) /\ (j - 1) + 1 = j)
  BY <1>1
<1> QED
  BY <1>1, <1>2, <1>3 DEF r

\* Once the configuration is taken, the same data is left.
LEMMA HandleFirst ==
  ASSUME NEW q \in Seq(Message), q # <<>>, is_config(Head(q)), NEW m, OnlyConfig(q, m)
  PROVE  LET r == Tail(q)
         IN  /\ r \in Seq(Message)
             /\ Len(r) = Len(q) - 1
             /\ Head(q) = m
             /\ Configures(q) /\ ~Configures(r) /\ \A x : OnlyConfig(r, x)
             /\ CountData(r) = CountData(q)
             /\ \A a \in Int : NumberedFrom(q, a) => NumberedFrom(r, a)
<1> DEFINE r == Tail(q)
<1>1. /\ r \in Seq(Message)
      /\ Len(r) = Len(q) - 1 /\ Len(q) \in Nat /\ Len(q) >= 1
      /\ Head(q) = q[1] /\ 1 \in 1..Len(q)
      /\ \A j \in 1..Len(r) : r[j] = q[j + 1] /\ j + 1 \in 1..Len(q)
  BY Rest
<1> HIDE DEF r
<1>2. Head(q) = m /\ Configures(q)
  BY <1>1 DEF OnlyConfig, Configures
<1>3. \A j \in 1..Len(r) : ~is_config(r[j])
  <2> SUFFICES ASSUME NEW j \in 1..Len(r), is_config(r[j]) PROVE FALSE
    OBVIOUS
  <2>1. is_config(q[j + 1]) /\ j + 1 \in 1..Len(q)
    BY <1>1
  <2>2. j + 1 = 1
    BY <1>1, <2>1 DEF OnlyConfig
  <2> QED
    BY <2>2
<1>4. ~Configures(r) /\ \A x : OnlyConfig(r, x)
  BY <1>3 DEF Configures, OnlyConfig
<1>5. CountData(r) = CountData(q)
  BY <1>1, <1>2, <1>4 DEF CountData
<1>6. ASSUME NEW a \in Int, NumberedFrom(q, a)
      PROVE  NumberedFrom(r, a)
  <2> SUFFICES ASSUME NEW j \in 1..Len(r)
               PROVE  r[j].n = a + j - IF \E p \in 1..(j - 1) : is_config(r[p]) THEN 2 ELSE 1
    BY DEF NumberedFrom
  <2>1. r[j] = q[j + 1] /\ j + 1 \in 1..Len(q) /\ ~is_config(q[j + 1])
    BY <1>1, <1>3
  <2>2. 1 \in 1..((j + 1) - 1) /\ is_config(q[1])
    BY <1>1
  <2>3. q[j + 1].n = a + (j + 1) - 2
    BY <1>6, <2>1, <2>2 DEF NumberedFrom
  <2>4. \A p \in 1..(j - 1) : p \in 1..Len(r)
    BY <1>1
  <2>5. ~(\E p \in 1..(j - 1) : is_config(r[p]))
    BY <1>3, <2>4
  <2> QED
    BY <2>1, <2>3, <2>5
<1> QED
  BY <1>1, <1>2, <1>4, <1>5, <1>6 DEF r

\* Once data is taken, the rest is numbered from one more on.
LEMMA TakeFirst ==
  ASSUME NEW q \in Seq(Message), q # <<>>, ~is_config(Head(q))
  PROVE  LET r == Tail(q)
         IN  /\ r \in Seq(Message)
             /\ Len(r) = Len(q) - 1
             /\ Head(q) \in Message
             /\ Configures(r) <=> Configures(q)
             /\ \A m : OnlyConfig(q, m) => OnlyConfig(r, m)
             /\ CountData(q) >= 1 /\ CountData(r) = CountData(q) - 1
             /\ \A a \in Int : NumberedFrom(q, a) => Head(q).n = a /\ NumberedFrom(r, a + 1)
<1> DEFINE r == Tail(q)
<1>1. /\ r \in Seq(Message)
      /\ Len(r) = Len(q) - 1 /\ Len(q) \in Nat /\ Len(q) >= 1
      /\ Head(q) = q[1] /\ 1 \in 1..Len(q)
      /\ \A j \in 1..Len(r) : r[j] = q[j + 1] /\ j + 1 \in 1..Len(q)
      /\ \A j \in 1..Len(q) : j = 1 \/ (j - 1 \in 1..Len(r) /\ q[j] = r[j - 1])
  BY Rest
<1>2. Head(q) \in Message
  BY <1>1, ElementOfSeq
<1> HIDE DEF r
<1>3. Configures(r) <=> Configures(q)
  BY <1>1 DEF Configures
<1>4. CountData(r) = CountData(q) - 1
  BY <1>1, <1>3 DEF CountData
<1>5. CountData(q) >= 1
  <2>1. CountData(r) \in Nat
    BY <1>1, CountDataType
  <2>2. CountData(q) \in Nat
    BY CountDataType
  <2> QED
    BY <1>4, <2>1, <2>2
<1>6. ASSUME NEW m, OnlyConfig(q, m)
      PROVE  OnlyConfig(r, m)
  <2> SUFFICES ASSUME NEW j \in 1..Len(r), is_config(r[j])
               PROVE  /\ r[j] = m
                      /\ \A p \in 1..Len(r) : is_config(r[p]) => p = j
    BY DEF OnlyConfig
  <2>1. r[j] = q[j + 1] /\ j + 1 \in 1..Len(q)
    BY <1>1
  <2>2. /\ q[j + 1] = m
        /\ \A p \in 1..Len(q) : is_config(q[p]) => p = j + 1
    BY <1>6, <2>1 DEF OnlyConfig
  <2>3. ASSUME NEW p \in 1..Len(r), is_config(r[p])
        PROVE  p = j
    <3>1. p + 1 = j + 1
      BY <1>1, <2>2, <2>3
    <3> QED
      BY <3>1
  <2> QED
    BY <2>1, <2>2, <2>3
<1>7. ASSUME NEW a \in Int, NumberedFrom(q, a)
      PROVE  q[1].n = a /\ NumberedFrom(r, a + 1)
  <2>1. q[1].n = a
    <3>1. ~(\E p \in 1..(1 - 1) : is_config(q[p]))
      OBVIOUS
    <3>2. q[1].n = a + 1 - 1
      BY <1>1, <1>7, <3>1 DEF NumberedFrom
    <3> QED
      BY <3>2
  <2>2. ASSUME NEW j \in 1..Len(r), ~is_config(r[j])
        PROVE  r[j].n = (a + 1) + j - IF \E p \in 1..(j - 1) : is_config(r[p]) THEN 2 ELSE 1
    <3>1. r[j] = q[j + 1] /\ j + 1 \in 1..Len(q)
      BY <1>1
    <3>2. q[j + 1].n = a + (j + 1) - IF \E p \in 1..((j + 1) - 1) : is_config(q[p]) THEN 2 ELSE 1
      BY <1>7, <2>2, <3>1 DEF NumberedFrom
    <3>3. \A p \in 1..(j - 1) : p \in 1..Len(r) /\ p + 1 \in 1..((j + 1) - 1)
      BY <1>1
    <3>4. \A p \in 1..((j + 1) - 1) : p = 1 \/ (p - 1 \in 1..(j - 1) /\ p \in 1..Len(q))
      BY <1>1
    <3>5. (\E p \in 1..((j + 1) - 1) : is_config(q[p])) => \E p \in 1..(j - 1) : is_config(r[p])
      BY <1>1, <3>4
    <3>6. (\E p \in 1..(j - 1) : is_config(r[p])) => \E p \in 1..((j + 1) - 1) : is_config(q[p])
      BY <1>1, <3>3
    <3> QED
      BY <3>1, <3>2, <3>5, <3>6
  <2> QED
    BY <2>1, <2>2 DEF NumberedFrom
<1> QED
  BY <1>1, <1>2, <1>3, <1>4, <1>5, <1>6, <1>7 DEF r

-----------------------------------------------------------------------------
(* Counts.                                                                 *)

\* Counts, by position.
LEMMA SentCounts ==
  ASSUME NEW l, NEW i
  PROVE  /\ i # 0 => Sent(l, i) = fwd[Slot(l, i)].send_count
         /\ i # 0 => Sent(l, i)' = fwd'[Slot(l, i)].send_count
         /\ Sent(l, 0) = FedTo(l)
         /\ Sent(l, 0)' = FedTo(l)'
BY DEF Sent, Slot

\* What the feeders sent into a lane is counted by a natural number.
LEMMA FedType ==
  ASSUME NEW l
  PROVE  /\ IsFiniteSet(FedInto(l)) /\ FedTo(l) \in Nat
         /\ IsFiniteSet(FedInto(l)') /\ FedTo(l)' \in Nat
<1>1. IsFiniteSet(1..Iterations) /\ IsFiniteSet(0..(Messages * Lanes - 1))
  <2>1. Messages * Lanes - 1 \in Int /\ Iterations \in Int
    BY PipelineAssumption, DriverAssumption
  <2> QED
    BY <2>1, FS_Interval
<1>2. IsFiniteSet((1..Iterations) \X (0..(Messages * Lanes - 1)))
  BY <1>1, FS_Product
<1>3. IsFiniteSet(FedInto(l)) /\ IsFiniteSet(FedInto(l)')
  BY <1>2, FS_Subset DEF FedInto
<1> QED
  BY <1>3, FS_CardinalityType DEF FedTo

\* A feeder's send goes into one lane, and is counted there.
LEMMA FeedCounts ==
  ASSUME fed \in [1..Iterations -> 0..(Messages * Lanes)],
         NEW k \in 1..Iterations, fed[k] < Messages * Lanes,
         fed' = [fed EXCEPT ![k] = fed[k] + 1],
         NEW l
  PROVE  FedTo(l)' = FedTo(l) + IF l = (fed[k] % Lanes) + 1 THEN 1 ELSE 0
<1> USE PipelineAssumption, DriverAssumption
<1> DEFINE S == (1..Iterations) \X (0..(Messages * Lanes - 1))
           p == <<k, fed[k]>>
<1>1. fed[k] \in Nat /\ fed[k] \in 0..(Messages * Lanes - 1) /\ p \in S
  <2>1. Messages * Lanes \in Nat
    OBVIOUS
  <2> QED
    BY <2>1
<1>2. fed'[k] = fed[k] + 1 /\ \A j \in 1..Iterations : j # k => fed'[j] = fed[j]
  OBVIOUS
<1>3. ASSUME NEW x \in S
      PROVE  x[2] < fed'[x[1]] <=> x[2] < fed[x[1]] \/ x = p
  <2>1. x = <<x[1], x[2]>> /\ x[1] \in 1..Iterations /\ x[2] \in Int
    OBVIOUS
  <2>2. x = p <=> x[1] = k /\ x[2] = fed[k]
    BY <2>1
  <2> QED
    BY <1>1, <1>2, <2>1, <2>2
<1>4. p[1] = k /\ p[2] = fed[k] /\ ~(p[2] < fed[p[1]])
  BY <1>1
<1> HIDE DEF p, S
<1>5. /\ FedInto(l) = {x \in S : x[2] < fed[x[1]] /\ (x[2] % Lanes) + 1 = l}
      /\ FedInto(l)' = {x \in S : x[2] < fed'[x[1]] /\ (x[2] % Lanes) + 1 = l}
  BY DEF FedInto, S
<1>6. p \notin FedInto(l)
  BY <1>4, <1>5
<1>7. CASE l = (fed[k] % Lanes) + 1
  <2>1. FedInto(l)' = FedInto(l) \cup {p}
    BY <1>1, <1>3, <1>4, <1>5, <1>7
  <2>2. Cardinality(FedInto(l)') = Cardinality(FedInto(l)) + 1
    BY <1>6, <2>1, FedType, FS_AddElement
  <2> QED
    BY <1>7, <2>2 DEF FedTo
<1>8. CASE l # (fed[k] % Lanes) + 1
  <2>1. FedInto(l)' = FedInto(l)
    BY <1>3, <1>4, <1>5, <1>8
  <2> QED
    BY <1>8, <2>1, FedType DEF FedTo
<1> QED
  BY <1>7, <1>8

\* The counts are natural numbers, and what an element dropped is the rest.
LEMMA TokioCounts ==
  ASSUME TokioTypes, NEW l \in 1..Lanes, NEW i \in 1..Pipelines
  PROVE  /\ Accepted(l, i) \in Nat /\ Sent(l, i - 1) \in Nat /\ Sent(l, i) \in Nat
         /\ FedTo(l) \in Nat /\ delivered[l] \in Nat /\ Accepted(l, Pipelines) = delivered[l]
         /\ queue[Slot(l, i)] \in Seq(Message) /\ CountData(queue[Slot(l, i)]) \in Nat
         /\ todo[Slot(l, i)] \in Seq(LaneElements) /\ Len(todo[Slot(l, i)]) \in Nat
         /\ fwd[Slot(l, i)] \in Forwarders
         /\ i < Pipelines =>
              /\ Accepted(l, i) = fwd[Slot(l, i)].received_count
              /\ Swallowed(Slot(l, i)) = Accepted(l, i) - Sent(l, i) - Len(todo[Slot(l, i)])
<1>1. /\ \A j \in 1..Pipelines : fwd[Slot(l, j)] \in Forwarders
      /\ queue[Slot(l, i)] \in Seq(Message) /\ todo[Slot(l, i)] \in Seq(LaneElements)
      /\ delivered[l] \in Nat
  BY Slots DEF TokioTypes, Types
<1>2. Accepted(l, i) \in Nat /\ Accepted(l, Pipelines) = delivered[l]
  BY <1>1, SlotCounts DEF Forwarders
<1>3. FedTo(l) \in Nat
  BY FedType
<1>4. Sent(l, i) \in Nat /\ Sent(l, i) = fwd[Slot(l, i)].send_count
  BY <1>1, SentCounts DEF Forwarders
<1>5. Sent(l, i - 1) \in Nat
  <2>1. CASE i = 1
    BY <1>3, <2>1, SentCounts
  <2>2. CASE i # 1
    <3>1. i - 1 \in 1..Pipelines /\ i - 1 # 0
      BY <2>2, PipelineAssumption
    <3>2. Sent(l, i - 1) = fwd[Slot(l, i - 1)].send_count
      BY <3>1, SentCounts
    <3> QED
      BY <1>1, <3>1, <3>2 DEF Forwarders
  <2> QED
    BY <2>1, <2>2
<1>6. CountData(queue[Slot(l, i)]) \in Nat /\ Len(todo[Slot(l, i)]) \in Nat
  BY <1>1, CountDataType, LenProperties
<1>7. i < Pipelines => /\ Accepted(l, i) = fwd[Slot(l, i)].received_count
                       /\ Swallowed(Slot(l, i)) = Accepted(l, i) - Sent(l, i) - Len(todo[Slot(l, i)])
  BY <1>4, SlotCounts DEF Swallowed
<1> QED
  BY <1>1, <1>2, <1>3, <1>4, <1>5, <1>6, <1>7

-----------------------------------------------------------------------------
(* A panic.                                                                *)

\* What earlier runs sent is a natural number.
LEMMA DoneType ==
  TokioInv => /\ Done \in Nat /\ iteration \in Nat
              /\ phase = "waiting" => /\ iteration \in 1..Iterations
                                      /\ iteration * Messages = Done + Messages
<1> SUFFICES ASSUME TokioInv
             PROVE  /\ Done \in Nat /\ iteration \in Nat
                    /\ phase = "waiting" => /\ iteration \in 1..Iterations
                                            /\ iteration * Messages = Done + Messages
  OBVIOUS
<1>1. iteration \in 0..Iterations /\ phase # "sending" /\ (phase = "waiting" => iteration >= 1)
  BY DEF TokioInv, TokioTypes, Types, TokioControl, Control
<1>2. iteration \in Nat
  BY <1>1, DriverAssumption
<1>3. /\ iteration * Messages \in Nat
      /\ iteration >= 1 => /\ (iteration - 1) * Messages \in Nat
                           /\ iteration * Messages = (iteration - 1) * Messages + Messages
  BY <1>2, RunProducts
<1>4. CASE phase = "waiting"
  BY <1>1, <1>2, <1>3, <1>4, DriverAssumption DEF Done
<1>5. CASE phase # "waiting"
  BY <1>1, <1>2, <1>3, <1>5 DEF Done
<1> QED
  BY <1>4, <1>5

\* An element that drops data passes nothing on, so nothing arrives at the end of
\* a lane in which one panicked.
LEMMA PanickedLane ==
  ASSUME TokioInv, NEW l \in 1..Lanes, Panicked(l)
  PROVE  delivered[l] = 0
<1> USE PipelineAssumption
<1>1. TokioTypes
  BY DEF TokioInv
<1>2. PICK i \in 1..Pipelines : i < Pipelines /\ Swallowed(Slot(l, i)) > 0
  <2>1. PICK j \in 1..Pipelines : pc[Slot(l, j)] = "panicked"
    BY DEF Panicked
  <2>2. CASE Swallowed(Slot(l, j)) > 0
    BY <2>1, <2>2 DEF TokioInv, TokioPanics
  <2>3. CASE ~(Swallowed(Slot(l, j)) > 0)
    <3>1. PICK k \in 2..Pipelines : pc[Slot(l, k)] = "panicked"
      BY <2>1, <2>3 DEF TokioInv, TokioPanics
    <3>2. k \in 1..Pipelines /\ k # 1
      OBVIOUS
    <3> QED
      BY <3>1, <3>2 DEF TokioInv, TokioPanics
  <2> QED
    BY <2>2, <2>3
<1>3. Swallowed(Slot(l, i)) # 0
  BY <1>2
<1>4. Sent(l, i) = 0
  BY <1>2, <1>3 DEF TokioInv, TokioHops
<1>5. i + 1 \in 1..Pipelines /\ (i + 1) - 1 = i /\ Pipelines \in (i + 1)..Pipelines
  BY <1>2
<1>6. Accepted(l, i + 1) <= Sent(l, i)
  BY <1>5 DEF TokioInv, TokioHops
<1>7. Accepted(l, Pipelines) <= Accepted(l, i + 1)
  BY <1>5 DEF TokioInv, TokioOrder
<1>8. Accepted(l, Pipelines) = delivered[l] /\ delivered[l] \in Nat /\ Accepted(l, i + 1) \in Nat
  BY <1>1, <1>5, TokioCounts
<1> QED
  BY <1>4, <1>6, <1>7, <1>8

\* The concentrator hears nothing of a lane in which an element panicked.
LEMMA PanickedSilent ==
  ASSUME TokioInv, NEW l \in 1..Lanes, Panicked(l)
  PROVE  ~Notified(l) /\ (delivered' = delivered /\ Done' \in Nat => ~Notified(l)')
<1>1. delivered[l] = 0 /\ Done \in Nat
  BY PanickedLane, DoneType
<1> QED
  BY <1>1, PipelineAssumption DEF Notified

-----------------------------------------------------------------------------
(* Steps that leave the data in the lanes alone.                           *)

\* Such a step keeps what the invariant says of counts and numbers.
LEMMA SlotsFrame ==
  ASSUME TokioInv,
         delivered' = delivered, fed' = fed, Done' = Done \/ (Broken /\ Done' \in Nat),
         \A l \in 1..Lanes : \A i \in 1..Pipelines :
           /\ pc'[Slot(l, i)] = "panicked" <=> pc[Slot(l, i)] = "panicked"
           /\ Open(Slot(l, i))' => Open(Slot(l, i))
           /\ CountData(queue'[Slot(l, i)]) = CountData(queue[Slot(l, i)])
           /\ \A a \in Int : NumberedFrom(queue[Slot(l, i)], a) => NumberedFrom(queue'[Slot(l, i)], a)
           /\ todo'[Slot(l, i)] = todo[Slot(l, i)]
           /\ i # Pipelines =>
                /\ fwd'[Slot(l, i)].received_count = fwd[Slot(l, i)].received_count
                /\ fwd'[Slot(l, i)].send_count = fwd[Slot(l, i)].send_count
                /\ fwd'[Slot(l, i)].next_seq = fwd[Slot(l, i)].next_seq
  PROVE  /\ TokioHops' /\ TokioOrder' /\ TokioNumbers' /\ TokioPanics'
         /\ Broken' <=> Broken
         /\ \A l : FedTo(l)' = FedTo(l)
<1>1. \A l : FedTo(l)' = FedTo(l)
  BY DEF FedTo, FedInto
<1>2. \A l \in 1..Lanes : \A i \in 1..Pipelines :
        /\ pc'[Slot(l, i)] = "panicked" <=> pc[Slot(l, i)] = "panicked"
        /\ Open(Slot(l, i))' => Open(Slot(l, i))
        /\ CountData(queue'[Slot(l, i)]) = CountData(queue[Slot(l, i)])
        /\ \A a \in Int : NumberedFrom(queue[Slot(l, i)], a) => NumberedFrom(queue'[Slot(l, i)], a)
        /\ todo'[Slot(l, i)] = todo[Slot(l, i)]
        /\ i # Pipelines =>
             /\ fwd'[Slot(l, i)].received_count = fwd[Slot(l, i)].received_count
             /\ fwd'[Slot(l, i)].send_count = fwd[Slot(l, i)].send_count
             /\ fwd'[Slot(l, i)].next_seq = fwd[Slot(l, i)].next_seq
  OBVIOUS
<1>3. Broken' <=> Broken
  BY <1>2 DEF Broken, Panicked
<1>4. ASSUME NEW l \in 1..Lanes, NEW i \in 1..Pipelines
      PROVE  /\ Accepted(l, i)' = Accepted(l, i)
             /\ Sent(l, i - 1)' = Sent(l, i - 1)
             /\ i # Pipelines => /\ Sent(l, i)' = Sent(l, i)
                                 /\ Swallowed(Slot(l, i))' = Swallowed(Slot(l, i))
             /\ i # 1 \/ ~Broken => Count(l, i)' = Count(l, i)
  <2>1. Accepted(l, i)' = Accepted(l, i)
    BY <1>2 DEF Accepted, Slot
  <2>2. \A j \in 1..Pipelines : j # Pipelines => Sent(l, j)' = Sent(l, j)
    BY <1>1, <1>2 DEF Sent, Slot
  <2>3. Sent(l, i - 1)' = Sent(l, i - 1)
    <3>1. i - 1 = 0 \/ (i - 1 \in 1..Pipelines /\ i - 1 # Pipelines)
      BY PipelineAssumption
    <3> QED
      BY <1>1, <2>2, <3>1, SentCounts
  <2>4. i # Pipelines => Swallowed(Slot(l, i))' = Swallowed(Slot(l, i))
    BY <1>2 DEF Swallowed
  <2>5. i # 1 \/ ~Broken => Count(l, i)' = Count(l, i)
    <3>1. Accepted(l, i) \in Nat
      BY TokioCounts DEF TokioInv
    <3> QED
      BY <2>1, <3>1 DEF Count
  <2> QED
    BY <2>1, <2>2, <2>3, <2>4, <2>5
<1>5. TokioHops'
  <2> SUFFICES ASSUME NEW l \in 1..Lanes, NEW i \in 1..Pipelines
               PROVE  /\ Accepted(l, i)' <= Sent(l, i - 1)'
                      /\ Open(Slot(l, i))' =>
                           Sent(l, i - 1)' = Accepted(l, i)' + CountData(queue'[Slot(l, i)])
                      /\ i < Pipelines =>
                           \/ Swallowed(Slot(l, i))' = 0
                           \/ /\ Sent(l, i)' = 0
                              /\ todo'[Slot(l, i)] = <<>>
                              /\ fwd'[Slot(l, i)].next_seq = 0
    BY DEF TokioHops
  <2>1. /\ Accepted(l, i) <= Sent(l, i - 1)
        /\ Open(Slot(l, i)) => Sent(l, i - 1) = Accepted(l, i) + CountData(queue[Slot(l, i)])
        /\ i < Pipelines =>
             \/ Swallowed(Slot(l, i)) = 0
             \/ /\ Sent(l, i) = 0
                /\ todo[Slot(l, i)] = <<>>
                /\ fwd[Slot(l, i)].next_seq = 0
    BY DEF TokioInv, TokioHops
  <2> QED
    BY <1>2, <1>4, <2>1
<1>6. TokioOrder'
  <2> SUFFICES ASSUME NEW l \in 1..Lanes, NEW i \in 1..Pipelines, NEW j \in i..Pipelines
               PROVE  Accepted(l, i)' <= FedTo(l)' /\ Accepted(l, j)' <= Accepted(l, i)'
    BY DEF TokioOrder
  <2>1. j \in 1..Pipelines
    OBVIOUS
  <2>2. Accepted(l, i) <= FedTo(l) /\ Accepted(l, j) <= Accepted(l, i)
    BY DEF TokioInv, TokioOrder
  <2> QED
    BY <1>1, <1>4, <2>1, <2>2
<1>7. TokioNumbers'
  <2> SUFFICES ASSUME NEW l \in 1..Lanes, NEW i \in 1..(Pipelines - 1), i # 1 \/ ~Broken
               PROVE  /\ Open(Slot(l, i)) => NumberedFrom(queue'[Slot(l, i)], Count(l, i)')
                      /\ Swallowed(Slot(l, i))' = 0 /\ Count(l, i)' > 0 =>
                           fwd'[Slot(l, i)].next_seq = Count(l, i)'
    BY <1>2, <1>3, Slots DEF TokioNumbers
  <2>1. i \in 1..Pipelines /\ i # Pipelines
    BY Slots
  <2>2. /\ Open(Slot(l, i)) => NumberedFrom(queue[Slot(l, i)], Count(l, i))
        /\ Swallowed(Slot(l, i)) = 0 /\ Count(l, i) > 0 =>
             fwd[Slot(l, i)].next_seq = Count(l, i)
    BY DEF TokioInv, TokioNumbers
  <2>3. Count(l, i) \in Int
    <3>1. Accepted(l, i) \in Nat
      BY <2>1, TokioCounts DEF TokioInv
    <3>2. Done \in Int
      BY DoneType
    <3> QED
      BY <3>1, <3>2 DEF Count
  <2> QED
    BY <1>2, <1>4, <2>1, <2>2, <2>3
<1>8. TokioPanics'
  <2>1. \A l : \A j \in 2..Pipelines : j \in 1..Pipelines
    OBVIOUS
  <2> QED
    BY <1>2, <1>4, <2>1 DEF TokioInv, TokioPanics
<1> QED
  BY <1>1, <1>3, <1>5, <1>6, <1>7, <1>8

\* The same of the notifications, where the concentrator stands still as well.
LEMMA LanesFrame ==
  ASSUME TokioInv,
         delivered' = delivered, fed' = fed, Done' = Done \/ (Broken /\ Done' \in Nat),
         \A e \in Elements :
           /\ pc'[e] = "panicked" <=> pc[e] = "panicked"
           /\ Open(e)' => Open(e)
           /\ CountData(queue'[e]) = CountData(queue[e])
           /\ \A a \in Int : NumberedFrom(queue[e], a) => NumberedFrom(queue'[e], a)
           /\ todo'[e] = todo[e]
           /\ fwd'[e].received_count = fwd[e].received_count
           /\ fwd'[e].send_count = fwd[e].send_count
           /\ fwd'[e].next_seq = fwd[e].next_seq,
         queue'[Notifier] = queue[Notifier],
         phase = "waiting" => phase' = "waiting" \/ queue[Notifier] = <<>>
  PROVE  /\ TokioHops' /\ TokioOrder' /\ TokioNumbers' /\ TokioPanics' /\ TokioNotices'
         /\ Broken' <=> Broken
         /\ \A l : FedTo(l)' = FedTo(l)
<1>1. /\ TokioHops' /\ TokioOrder' /\ TokioNumbers' /\ TokioPanics'
      /\ Broken' <=> Broken
      /\ \A l : FedTo(l)' = FedTo(l)
  <2>1. \A l \in 1..Lanes : \A i \in 1..Pipelines :
          /\ pc'[Slot(l, i)] = "panicked" <=> pc[Slot(l, i)] = "panicked"
          /\ Open(Slot(l, i))' => Open(Slot(l, i))
          /\ CountData(queue'[Slot(l, i)]) = CountData(queue[Slot(l, i)])
          /\ \A a \in Int : NumberedFrom(queue[Slot(l, i)], a) => NumberedFrom(queue'[Slot(l, i)], a)
          /\ todo'[Slot(l, i)] = todo[Slot(l, i)]
          /\ fwd'[Slot(l, i)].received_count = fwd[Slot(l, i)].received_count
          /\ fwd'[Slot(l, i)].send_count = fwd[Slot(l, i)].send_count
          /\ fwd'[Slot(l, i)].next_seq = fwd[Slot(l, i)].next_seq
    BY Slots
  <2> QED
    BY <2>1, SlotsFrame
<1>2. /\ \A l \in 1..Lanes : /\ fwd'[Last(l)].received_count = fwd[Last(l)].received_count
                             /\ Notified(l)' <=> Notified(l)
      /\ NotifiedLanes' = NotifiedLanes
  <2>1. \A l \in 1..Lanes : /\ fwd'[Last(l)].received_count = fwd[Last(l)].received_count
                            /\ Notified(l)' <=> Notified(l)
    <3> SUFFICES ASSUME NEW l \in 1..Lanes
                 PROVE  /\ fwd'[Last(l)].received_count = fwd[Last(l)].received_count
                        /\ Notified(l)' <=> Notified(l)
      OBVIOUS
    <3>1. fwd'[Last(l)].received_count = fwd[Last(l)].received_count
      BY Slots
    <3>2. CASE Done' = Done
      BY <3>1, <3>2 DEF Notified, Last
    <3>3. CASE Broken /\ Done' \in Nat
      BY <3>1, <3>3, PanickedSilent DEF Broken
    <3> QED
      BY <3>1, <3>2, <3>3
  <2> QED
    BY <2>1 DEF NotifiedLanes
<1>3. TokioNotices'
  <2>1. \A l \in 1..Lanes :
          IF Broken THEN fwd[Last(l)].received_count = 0
          ELSE /\ Done <= delivered[l]
               /\ \/ Notified(l)
                  \/ fwd[Last(l)].received_count = delivered[l] - Done
    BY DEF TokioInv, TokioNotices
  <2>2. \A l \in 1..Lanes :
          IF Broken' THEN fwd'[Last(l)].received_count = 0
          ELSE /\ Done' <= delivered'[l]
               /\ \/ Notified(l)'
                  \/ fwd'[Last(l)].received_count = delivered'[l] - Done'
    BY <1>1, <1>2, <2>1
  <2>3. /\ fwd'[Concentrator].received_count = fwd[Concentrator].received_count
        /\ CountData(queue'[Concentrator]) = CountData(queue[Concentrator])
    BY Names
  <2>4. \/ /\ queue[Notifier] = <<>>
           /\ fwd[Concentrator].received_count + CountData(queue[Concentrator])
                = Cardinality(NotifiedLanes)
        \/ /\ Len(queue[Notifier]) = 1 /\ queue[Notifier] # <<>>
           /\ phase = "waiting"
           /\ NotifiedLanes = 1..Lanes
           /\ fwd[Concentrator].received_count = 0 /\ CountData(queue[Concentrator]) = 0
    BY EmptySeq DEF TokioInv, TokioNotices
  <2>5. \/ /\ queue'[Notifier] = <<>>
           /\ fwd'[Concentrator].received_count + CountData(queue'[Concentrator])
                = Cardinality(NotifiedLanes')
        \/ /\ Len(queue'[Notifier]) = 1
           /\ phase' = "waiting"
           /\ NotifiedLanes' = 1..Lanes
           /\ fwd'[Concentrator].received_count = 0 /\ CountData(queue'[Concentrator]) = 0
    BY <1>2, <2>3, <2>4
  <2> QED
    BY <2>2, <2>5 DEF TokioNotices, Last
<1> QED
  BY <1>1, <1>3

\* Where neither the feeders nor the runs move on, they agree as before.
LEMMA RunsFrame ==
  ASSUME TokioInv, Broken' <=> Broken, \A l : FedTo(l)' = FedTo(l), fed' = fed, Done' = Done,
         iteration' = iteration, phase' = "waiting" <=> phase = "waiting"
  PROVE  TokioRuns'
BY DEF TokioInv, TokioRuns

\* A step that neither sends nor handles configuration.
LEMMA ConfigurationFrame ==
  ASSUME TokioInv, spawned' = spawned,
         \A e \in Elements :
           /\ Open(e)' <=> Open(e)
           /\ ConfigSent(e)' <=> ConfigSent(e)
           /\ ~Open(e) => queue'[e] = queue[e]
           /\ Configures(queue'[e]) <=> Configures(queue[e])
           /\ OnlyConfig(queue[e], ConfigOf(e)) => OnlyConfig(queue'[e], ConfigOf(e))
           /\ fwd'[e].senders = fwd[e].senders
           /\ fwd'[e].notify_sender = fwd[e].notify_sender
           /\ fwd'[e].notify_count = fwd[e].notify_count
           /\ Unconfigured(e) => fwd'[e].send_count = 0 /\ fwd'[e].next_seq = 0,
         ~Configures(queue'[Notifier])
  PROVE  TokioConfiguration'
<1>1. \A e \in Elements : /\ Awaits(e)' <=> Awaits(e)
                          /\ Unconfigured(e) => Unconfigured(e)'
                          /\ Configured(e)' <=> Configured(e)
  BY DEF Awaits, Unconfigured, Configured, Job, ConfigOf, After
<1>2. \A s \in spawned' : s = Job(s.to)'
  BY DEF TokioInv, TokioConfiguration, Job, ConfigOf, After
<1>3. ASSUME NEW e \in Elements
      PROVE  /\ ~Open(e)' => queue'[e] = <<>> /\ ~Awaits(e)'
             /\ Job(e)' \in spawned' => ConfigSent(e)'
             /\ Job(e)' \in spawned' \/ ~ConfigSent(e)' => ~Configures(queue'[e])
             /\ OnlyConfig(queue'[e], ConfigOf(e)')
             /\ IF Awaits(e)' THEN Unconfigured(e)' ELSE Configured(e)'
  <2>1. /\ ~Open(e) => queue[e] = <<>> /\ ~Awaits(e)
        /\ Job(e) \in spawned => ConfigSent(e)
        /\ Job(e) \in spawned \/ ~ConfigSent(e) => ~Configures(queue[e])
        /\ OnlyConfig(queue[e], ConfigOf(e))
        /\ IF Awaits(e) THEN Unconfigured(e) ELSE Configured(e)
    BY DEF TokioInv, TokioConfiguration
  <2>2. Job(e)' = Job(e) /\ ConfigOf(e)' = ConfigOf(e)
    BY DEF Job, ConfigOf, After
  <2> QED
    BY <1>1, <2>1, <2>2
<1> QED
  BY <1>2, <1>3 DEF TokioConfiguration

-----------------------------------------------------------------------------
(* The main thread.                                                        *)

\* A step that at most starts elements keeps what the elements' data says.
LEMMA StandStill ==
  ASSUME TokioInv, UNCHANGED <<queue, fwd, todo, delivered, fed>>,
         Done' = Done,
         \A e \in Elements : pc'[e] = pc[e] \/ (pc[e] = "unborn" /\ pc'[e] = "recv"),
         phase = "waiting" => phase' = "waiting"
  PROVE  /\ TokioHops' /\ TokioOrder' /\ TokioNumbers' /\ TokioPanics' /\ TokioNotices'
         /\ TokioActions'
         /\ Broken' <=> Broken
         /\ \A l : FedTo(l)' = FedTo(l)
         /\ \A e \in Elements : Open(e)' <=> Open(e)
<1>1. \A e \in Elements : /\ Open(e)' <=> Open(e)
                          /\ pc'[e] = "panicked" <=> pc[e] = "panicked"
                          /\ pc'[e] = "action" <=> pc[e] = "action"
  BY DEF Open
<1>2. TokioActions'
  BY <1>1 DEF TokioInv, TokioActions
<1> QED
  BY <1>1, <1>2, LanesFrame

\* The same of how elements end.
LEMMA LifetimesFrame ==
  ASSUME TokioInv,
         \A e \in Elements : /\ Open(e)' <=> Open(e)
                             /\ pc'[e] = "panicked" <=> pc[e] = "panicked"
                             /\ ~Created(e)' => pc'[e] = "unborn",
         phase' \notin {"teardown", "torndown"} => phase \notin {"teardown", "torndown"},
         pc'[Notifier] = CASE phase' = "setup" -> "unborn"
                           [] phase' = "torndown" -> "exited"
                           [] OTHER -> "recv"
  PROVE  TokioLifetimes'
<1>1. \A l \in 1..Lanes : \A i \in 1..Pipelines :
        /\ Open(Slot(l, i))' <=> Open(Slot(l, i))
        /\ pc'[Slot(l, i)] = "panicked" <=> pc[Slot(l, i)] = "panicked"
  BY Slots
<1>2. Broken' <=> Broken
  BY <1>1 DEF Broken, Panicked
<1>3. \A i \in 1..Pipelines : \A j \in 1..i : j \in 1..Pipelines
  BY PipelineAssumption
<1>4. phase' \notin {"teardown", "torndown"} =>
        \A l \in 1..Lanes : \A i \in 1..Pipelines :
          ~Open(Slot(l, i))' => \E j \in 1..i : pc'[Slot(l, j)] = "panicked"
  BY <1>1, <1>3 DEF TokioInv, TokioLifetimes
<1> QED
  BY <1>2, <1>4, Names DEF TokioInv, TokioLifetimes

\* The configuration of e is given to a task of its own.
LEMMA SpawnStep ==
  ASSUME TokioInv, NEW e \in Elements, ~ConfigSent(e),
         \A x \in Elements : ConfigSent(x)' <=> ConfigSent(x) \/ x = e,
         spawned' = spawned \cup {Job(e)},
         UNCHANGED <<queue, fwd>>,
         \A x \in Elements : Open(x)' <=> Open(x)
  PROVE  TokioConfiguration' /\ spawned' \subseteq [to : Elements, msg : Message]
<1>1. Job(e) \in [to : Elements, msg : Message] /\ Job(e).to = e
  BY ConfigOfType DEF Job
<1>2. spawned' \subseteq [to : Elements, msg : Message]
  BY <1>1 DEF TokioInv, TokioTypes
<1>3. \A x : Job(x)' = Job(x) /\ ConfigOf(x)' = ConfigOf(x) /\ Job(x).to = x
  BY DEF Job, ConfigOf, After
<1>4. \A s \in spawned' : s = Job(s.to)'
  BY <1>1, <1>3 DEF TokioInv, TokioConfiguration
<1>5. \A x \in Elements : /\ Unconfigured(x)' <=> Unconfigured(x)
                          /\ Configured(x)' <=> Configured(x)
  BY DEF Unconfigured, Configured
<1>6. ASSUME NEW x \in Elements
      PROVE  /\ ~Open(x)' => queue'[x] = <<>> /\ ~Awaits(x)'
             /\ Job(x)' \in spawned' => ConfigSent(x)'
             /\ Job(x)' \in spawned' \/ ~ConfigSent(x)' => ~Configures(queue'[x])
             /\ OnlyConfig(queue'[x], ConfigOf(x)')
             /\ IF Awaits(x)' THEN Unconfigured(x)' ELSE Configured(x)'
  <2>1. /\ ~Open(x) => queue[x] = <<>> /\ ~Awaits(x)
        /\ Job(x) \in spawned => ConfigSent(x)
        /\ Job(x) \in spawned \/ ~ConfigSent(x) => ~Configures(queue[x])
        /\ OnlyConfig(queue[x], ConfigOf(x))
        /\ IF Awaits(x) THEN Unconfigured(x) ELSE Configured(x)
    BY DEF TokioInv, TokioConfiguration
  <2>2. Awaits(x)' <=> Awaits(x)
    <3>1. CASE x = e
      BY <1>3, <3>1 DEF Awaits
    <3>2. CASE x # e
      <4>1. Job(x) \in spawned' <=> Job(x) \in spawned
        BY <1>3, <3>2
      <4> QED
        BY <1>3, <3>2, <4>1 DEF Awaits
    <3> QED
      BY <3>1, <3>2
  <2>3. Job(x) \in spawned' <=> Job(x) \in spawned \/ x = e
    BY <1>3
  <2> QED
    BY <1>3, <1>5, <2>1, <2>2, <2>3
<1>7. ~Configures(queue'[Notifier])
  BY DEF TokioInv, TokioConfiguration
<1> QED
  BY <1>2, <1>4, <1>6, <1>7 DEF TokioConfiguration

\* An element is spawned, and the task that tells the one before it.
LEMMA SpawnElementInv == ASSUME TokioInv, SpawnElement PROVE TokioInv'
<1> USE PipelineAssumption, DriverAssumption
<1>1. TokioTypes /\ TokioControl /\ Types /\ Control /\ phase = "setup" /\ phase' = "setup"
  BY DEF TokioInv, TokioTypes, TokioControl, SpawnElement
<1>2. lane \in 1..Lanes /\ id \in 1..Pipelines /\ lane' = lane /\ id' = id + 1
  BY <1>1 DEF Types, Control, SpawnElement
<1> DEFINE x == Slot(lane, id)
<1>3. /\ x \in Elements /\ x # Concentrator /\ x[1] = lane /\ x[2] = id /\ x # Notifier
      /\ pc[x] = "unborn" /\ pc' = [pc EXCEPT ![x] = "recv"]
  <2>1. x \in Elements /\ x # Concentrator /\ x[1] = lane /\ x[2] = id /\ x # Notifier
    BY <1>2, Slots
  <2>2. ~Created(x)
    BY <1>1, <1>2, <2>1 DEF Created
  <2> QED
    BY <2>1, <2>2 DEF TokioInv, TokioLifetimes, SpawnElement, Slot
<1>4. \A e \in Channels : pc'[e] = IF e = x THEN "recv" ELSE pc[e]
  BY <1>1, <1>3 DEF Types
<1> HIDE DEF x
<1>5. UNCHANGED <<queue, fwd, todo, delivered, phase, iteration, lane, fed>>
  BY DEF SpawnElement
<1>6. Done' = Done
  BY <1>5 DEF Done
<1>7. \A e \in Elements : pc'[e] = pc[e] \/ (pc[e] = "unborn" /\ pc'[e] = "recv")
  BY <1>3, <1>4, Names
<1>8. /\ TokioHops' /\ TokioOrder' /\ TokioNumbers' /\ TokioPanics' /\ TokioNotices'
      /\ TokioActions'
      /\ Broken' <=> Broken
      /\ \A l : FedTo(l)' = FedTo(l)
      /\ \A e \in Elements : Open(e)' <=> Open(e)
  BY <1>1, <1>5, <1>6, <1>7, StandStill
<1>9. TokioRuns'
  BY <1>5, <1>6, <1>8, RunsFrame
<1>10. TokioLifetimes'
  <2>1. \A e \in Elements : ~Created(e)' => ~Created(e) /\ e # x
    BY <1>1, <1>2, <1>3, Names DEF Created
  <2>2. \A e \in Elements : ~Created(e)' => pc'[e] = "unborn"
    BY <1>4, <2>1, Names DEF TokioInv, TokioLifetimes
  <2>3. \A e \in Elements : pc'[e] = "panicked" <=> pc[e] = "panicked"
    BY <1>7
  <2>4. pc'[Notifier] = "unborn"
    BY <1>1, <1>3, <1>4, Names DEF TokioInv, TokioLifetimes
  <2> QED
    BY <1>1, <1>8, <2>2, <2>3, <2>4, LifetimesFrame
<1>11. TokioConfiguration' /\ spawned' \subseteq [to : Elements, msg : Message]
  <2>1. CASE id = 1
    <3>1. spawned' = spawned
      BY <2>1 DEF SpawnElement
    <3>2. \A e \in Elements : ConfigSent(e)' <=> ConfigSent(e)
      BY <1>1, <1>2, <2>1, Names DEF ConfigSent
    <3>3. ~Configures(queue[Notifier])
      BY DEF TokioInv, TokioConfiguration
    <3>4. TokioConfiguration'
      BY <1>5, <1>8, <3>1, <3>2, <3>3, ConfigurationFrame DEF Unconfigured
    <3> QED
      BY <1>1, <3>1, <3>4 DEF TokioTypes
  <2>2. CASE id # 1
    <3> DEFINE e == Slot(lane, id - 1)
    <3>1. id - 1 \in 1..Pipelines /\ id - 1 # Pipelines /\ id - 1 + 1 = id
      BY <1>2, <2>2
    <3>2. /\ e \in Elements /\ e # Concentrator /\ e[1] = lane /\ e[2] = id - 1
          /\ After(e) = <<lane, id>>
      BY <1>2, <3>1, Slots DEF Slot
    <3>3. spawned' = spawned \cup {Job(e)}
      BY <2>2, <3>1, <3>2 DEF SpawnElement, Spawn, Job, ConfigOf, Slot
    <3>4. ASSUME NEW y \in Elements, y[1] = lane, y[2] = id - 1
          PROVE  y = e
      <4>1. y # Concentrator
        BY <1>2, <3>4, Names
      <4>2. y = Slot(y[1], y[2])
        BY <4>1, Names
      <4> QED
        BY <3>4, <4>2
    <3> HIDE DEF e
    <3>5. ~ConfigSent(e)
      BY <1>1, <1>2, <3>2 DEF ConfigSent
    <3>6. ASSUME NEW y \in Elements
          PROVE  ConfigSent(y)' <=> ConfigSent(y) \/ y = e
      <4>1. CASE y = Concentrator
        BY <1>1, <1>2, <3>2, <4>1, Names DEF ConfigSent
      <4>2. CASE y # Concentrator
        BY <1>1, <1>2, <3>2, <3>4, <4>2, Names DEF ConfigSent
      <4> QED
        BY <4>1, <4>2
    <3> QED
      BY <1>5, <1>8, <3>2, <3>3, <3>5, <3>6, SpawnStep
  <2> QED
    BY <2>1, <2>2
<1>12. TokioTypes' /\ TokioControl'
  <2>1. pc' \in [Channels -> {"unborn", "recv", "action", "exited", "panicked"}]
    BY <1>1, <1>3 DEF Types
  <2>2. Types' /\ Control'
    BY <1>1, <1>2, <1>5, <2>1 DEF Types, Control
  <2> QED
    BY <1>1, <1>5, <1>11, <2>2 DEF TokioTypes, TokioControl
<1> QED
  BY <1>8, <1>9, <1>10, <1>11, <1>12 DEF TokioInv

\* The task that tells the last element of a lane of the concentrator is spawned.
LEMMA SpawnLaneNotifyInv == ASSUME TokioInv, SpawnLaneNotify PROVE TokioInv'
<1> USE PipelineAssumption, DriverAssumption
<1>1. TokioTypes /\ TokioControl /\ Types /\ Control /\ phase = "setup" /\ phase' = "setup"
  BY DEF TokioInv, TokioTypes, TokioControl, SpawnLaneNotify
<1>2. lane \in 1..Lanes /\ id = Pipelines + 1 /\ lane' = lane + 1 /\ id' = 1
  BY <1>1 DEF Types, SpawnLaneNotify
<1>3. UNCHANGED <<queue, fwd, pc, todo, delivered, phase, iteration, fed>>
  BY DEF SpawnLaneNotify
<1>4. Done' = Done
  BY <1>3 DEF Done
<1>5. /\ TokioHops' /\ TokioOrder' /\ TokioNumbers' /\ TokioPanics' /\ TokioNotices'
      /\ TokioActions'
      /\ Broken' <=> Broken
      /\ \A l : FedTo(l)' = FedTo(l)
      /\ \A e \in Elements : Open(e)' <=> Open(e)
  BY <1>1, <1>3, <1>4, StandStill
<1>6. TokioRuns'
  BY <1>3, <1>4, <1>5, RunsFrame
<1>7. TokioLifetimes'
  <2>1. \A e \in Elements : ~Created(e)' => ~Created(e)
    BY <1>1, <1>2, Names DEF Created
  <2> QED
    BY <1>1, <1>3, <1>5, <2>1, LifetimesFrame DEF TokioInv, TokioLifetimes
<1>8. TokioConfiguration' /\ spawned' \subseteq [to : Elements, msg : Message]
  <2> DEFINE e == Slot(lane, Pipelines)
  <2>1. e \in Elements /\ e # Concentrator /\ e[1] = lane /\ e[2] = Pipelines
    BY <1>2, Slots
  <2>2. spawned' = spawned \cup {Job(e)}
    BY <2>1 DEF SpawnLaneNotify, Spawn, Job, ConfigOf, Slot
  <2>3. ASSUME NEW y \in Elements, y[1] = lane, y[2] = Pipelines
        PROVE  y = e
    <3>1. y # Concentrator
      BY <1>2, <2>3, Names
    <3>2. y = Slot(y[1], y[2])
      BY <3>1, Names
    <3> QED
      BY <2>3, <3>2
  <2> HIDE DEF e
  <2>4. ~ConfigSent(e)
    BY <1>1, <1>2, <2>1 DEF ConfigSent
  <2>5. ASSUME NEW y \in Elements
        PROVE  ConfigSent(y)' <=> ConfigSent(y) \/ y = e
    <3>1. CASE y = Concentrator
      BY <1>1, <1>2, <2>1, <3>1, Names DEF ConfigSent
    <3>2. CASE y # Concentrator
      BY <1>1, <1>2, <2>1, <2>3, <3>2, Names DEF ConfigSent
    <3> QED
      BY <3>1, <3>2
  <2> QED
    BY <1>3, <1>5, <2>1, <2>2, <2>4, <2>5, SpawnStep
<1>9. TokioTypes' /\ TokioControl'
  <2>1. Types' /\ Control'
    BY <1>1, <1>2, <1>3 DEF Types, Control
  <2> QED
    BY <1>1, <1>3, <1>8, <2>1 DEF TokioTypes, TokioControl
<1> QED
  BY <1>5, <1>6, <1>7, <1>8, <1>9 DEF TokioInv

\* The task that tells the concentrator of the notifier is spawned.
LEMMA SpawnNotifierNotifyInv == ASSUME TokioInv, SpawnNotifierNotify PROVE TokioInv'
<1> USE PipelineAssumption, DriverAssumption
<1>1. /\ TokioTypes /\ TokioControl /\ Types /\ Control
      /\ phase = "setup" /\ phase' = "idle" /\ iteration = 0
  BY DEF TokioInv, TokioTypes, TokioControl, Control, SpawnNotifierNotify
<1>2. /\ lane = Lanes + 1 /\ lane' = 1 /\ id' = 0
      /\ UNCHANGED <<queue, fwd, todo, delivered, iteration, fed>>
      /\ pc' = [pc EXCEPT ![Notifier] = "recv"]
  BY DEF SpawnNotifierNotify
<1>3. (\A e \in Elements : pc'[e] = pc[e]) /\ pc'[Notifier] = "recv"
  BY <1>1, <1>2, Names DEF Types
<1>4. Done' = Done
  BY <1>1, <1>2 DEF Done
<1>5. /\ TokioHops' /\ TokioOrder' /\ TokioNumbers' /\ TokioPanics' /\ TokioNotices'
      /\ TokioActions'
      /\ Broken' <=> Broken
      /\ \A l : FedTo(l)' = FedTo(l)
      /\ \A e \in Elements : Open(e)' <=> Open(e)
  BY <1>1, <1>2, <1>3, <1>4, StandStill
<1>6. TokioRuns'
  BY <1>1, <1>2, <1>4, <1>5, RunsFrame
<1>7. TokioLifetimes'
  <2>1. \A e \in Elements : Created(e)'
    BY <1>1 DEF Created
  <2> QED
    BY <1>1, <1>3, <1>5, <2>1, LifetimesFrame
<1>8. TokioConfiguration' /\ spawned' \subseteq [to : Elements, msg : Message]
  <2>1. spawned' = spawned \cup {Job(Concentrator)}
    BY DEF SpawnNotifierNotify, Spawn, Job, ConfigOf
  <2>2. ~ConfigSent(Concentrator)
    BY <1>1, <1>2, Names DEF ConfigSent
  <2>3. \A x \in Elements : ConfigSent(x)' <=> ConfigSent(x) \/ x = Concentrator
    BY <1>1, <1>2, Names DEF ConfigSent
  <2> QED
    BY <1>2, <1>5, <2>1, <2>2, <2>3, Names, SpawnStep
<1>9. TokioTypes' /\ TokioControl'
  <2>1. pc' \in [Channels -> {"unborn", "recv", "action", "exited", "panicked"}]
    BY <1>1, <1>2 DEF Types
  <2>2. Types' /\ Control'
    BY <1>1, <1>2, <2>1 DEF Types, Control
  <2> QED
    BY <1>1, <1>2, <1>8, <2>2 DEF TokioTypes, TokioControl
<1> QED
  BY <1>5, <1>6, <1>7, <1>8, <1>9 DEF TokioInv

\* A run begins: its feeder is spawned.
LEMMA SpawnFeederInv == ASSUME TokioInv, SpawnFeeder PROVE TokioInv'
<1> USE PipelineAssumption, DriverAssumption
<1>1. /\ TokioTypes /\ TokioControl /\ Types /\ Control
      /\ phase = "idle" /\ phase' = "waiting" /\ iteration \in 0..Iterations
      /\ iteration < Iterations /\ iteration' = iteration + 1
      /\ UNCHANGED <<queue, fwd, pc, todo, delivered, lane, id, spawned, fed>>
  BY DEF TokioInv, TokioTypes, TokioControl, Types, SpawnFeeder
<1>2. Done' = Done
  BY <1>1 DEF Done
<1>3. /\ TokioHops' /\ TokioOrder' /\ TokioNumbers' /\ TokioPanics' /\ TokioNotices'
      /\ TokioActions'
      /\ Broken' <=> Broken
      /\ \A l : FedTo(l)' = FedTo(l)
      /\ \A e \in Elements : Open(e)' <=> Open(e)
  BY <1>1, <1>2, StandStill
<1>4. TokioRuns'
  <2> SUFFICES ASSUME ~Broken
               PROVE  /\ \A k \in 1..Iterations :
                           k < iteration' \/ (k = iteration' /\ phase' # "waiting") =>
                             fed'[k] = Messages * Lanes
                      /\ \A l \in 1..Lanes : FedTo(l)' = Done' + Share(fed'[iteration'], l)
    BY <1>1, <1>3 DEF TokioRuns
  <2>1. /\ \A k \in 1..Iterations : k < iteration \/ k = iteration => fed[k] = Messages * Lanes
        /\ \A l \in 1..Lanes : FedTo(l) = Done + 0
    BY <1>1 DEF TokioInv, TokioRuns
  <2>2. iteration' \in 1..Iterations /\ fed[iteration'] = 0
    BY <1>1 DEF TokioControl
  <2>3. \A l \in 1..Lanes : Share(fed'[iteration'], l) = 0
    BY <1>1, <2>2, Shares
  <2>4. \A k \in 1..Iterations : k < iteration' => k < iteration \/ k = iteration
    BY <1>1
  <2>5. \A l \in 1..Lanes : FedTo(l)' = Done' + Share(fed'[iteration'], l)
    BY <1>2, <1>3, <2>1, <2>3
  <2> QED
    BY <1>1, <2>1, <2>4, <2>5
<1>5. TokioLifetimes'
  BY <1>1, <1>3, LifetimesFrame DEF TokioInv, TokioLifetimes, Created
<1>6. TokioConfiguration'
  <2>1. \A e \in Elements : ConfigSent(e)' <=> ConfigSent(e)
    BY <1>1 DEF ConfigSent
  <2> QED
    BY <1>1, <1>3, <2>1, ConfigurationFrame DEF TokioInv, TokioConfiguration, Unconfigured
<1>7. TokioTypes' /\ TokioControl'
  <2>1. Types' /\ Control'
    BY <1>1 DEF Types, Control
  <2>2. TokioControl'
    BY <1>1, <2>1 DEF TokioControl
  <2> QED
    BY <1>1, <2>1, <2>2 DEF TokioTypes
<1> QED
  BY <1>3, <1>4, <1>5, <1>6, <1>7 DEF TokioInv

\* Teardown begins, or goes on.
LEMMA TokioDropHeadInv == ASSUME TokioInv, DropHead, UNCHANGED tokioVars PROVE TokioInv'
<1> USE PipelineAssumption, DriverAssumption
<1>1. /\ TokioTypes /\ TokioControl /\ Types /\ Control
      /\ phase \in {"idle", "teardown"} /\ phase' = "teardown"
      /\ UNCHANGED <<queue, fwd, pc, todo, delivered, iteration, id, spawned, fed>>
  BY DEF TokioInv, TokioTypes, TokioControl, DropHead, tokioVars
<1>2. Done' = Done
  BY <1>1 DEF Done
<1>3. /\ TokioHops' /\ TokioOrder' /\ TokioNumbers' /\ TokioPanics' /\ TokioNotices'
      /\ TokioActions'
      /\ Broken' <=> Broken
      /\ \A l : FedTo(l)' = FedTo(l)
      /\ \A e \in Elements : Open(e)' <=> Open(e)
  BY <1>1, <1>2, StandStill
<1>4. TokioRuns'
  BY <1>1, <1>2, <1>3, RunsFrame
<1>5. TokioLifetimes'
  BY <1>1, <1>3, LifetimesFrame DEF TokioInv, TokioLifetimes, Created
<1>6. TokioConfiguration'
  <2>1. \A e \in Elements : ConfigSent(e)' <=> ConfigSent(e)
    BY <1>1 DEF ConfigSent
  <2> QED
    BY <1>1, <1>3, <2>1, ConfigurationFrame DEF TokioInv, TokioConfiguration, Unconfigured
<1>7. TokioTypes' /\ TokioControl'
  <2>1. Types' /\ Control'
    BY <1>1 DEF Types, Control, DropHead
  <2> QED
    BY <1>1, <2>1 DEF TokioTypes, TokioControl
<1> QED
  BY <1>3, <1>4, <1>5, <1>6, <1>7 DEF TokioInv

\* Teardown ends.
LEMMA TokioDropNotifierInv == ASSUME TokioInv, DropNotifier, UNCHANGED tokioVars PROVE TokioInv'
<1> USE PipelineAssumption, DriverAssumption
<1>1. /\ TokioTypes /\ TokioControl /\ Types /\ Control
      /\ phase = "teardown" /\ phase' = "torndown" /\ lane = Lanes + 1
      /\ pc' = [pc EXCEPT ![Notifier] = "exited"]
      /\ queue' = [queue EXCEPT ![Notifier] = <<>>]
      /\ UNCHANGED <<fwd, todo, delivered, iteration, lane, id, spawned, fed>>
  BY DEF TokioInv, TokioTypes, TokioControl, DropNotifier, tokioVars
<1>2. queue[Notifier] = <<>>
  BY <1>1 DEF TokioInv, TokioNotices
<1>3. queue' = queue
  BY <1>1, <1>2, Names DEF Types
<1>4. (\A e \in Elements : pc'[e] = pc[e]) /\ pc'[Notifier] = "exited"
  BY <1>1, Names DEF Types
<1>5. Done' = Done
  BY <1>1 DEF Done
<1>6. /\ TokioHops' /\ TokioOrder' /\ TokioNumbers' /\ TokioPanics' /\ TokioNotices'
      /\ TokioActions'
      /\ Broken' <=> Broken
      /\ \A l : FedTo(l)' = FedTo(l)
      /\ \A e \in Elements : Open(e)' <=> Open(e)
  BY <1>1, <1>3, <1>4, <1>5, StandStill
<1>7. TokioRuns'
  BY <1>1, <1>5, <1>6, RunsFrame
<1>8. TokioLifetimes'
  BY <1>1, <1>4, <1>6, LifetimesFrame DEF Created
<1>9. TokioConfiguration'
  <2>1. \A e \in Elements : ConfigSent(e)' <=> ConfigSent(e)
    BY <1>1 DEF ConfigSent
  <2> QED
    BY <1>1, <1>3, <1>6, <2>1, ConfigurationFrame DEF TokioInv, TokioConfiguration, Unconfigured
<1>10. TokioTypes' /\ TokioControl'
  <2>1. pc' \in [Channels -> {"unborn", "recv", "action", "exited", "panicked"}]
    BY <1>1 DEF Types
  <2>2. Types' /\ Control'
    BY <1>1, <1>3, <2>1 DEF Types, Control
  <2> QED
    BY <1>1, <2>2 DEF TokioTypes, TokioControl
<1> QED
  BY <1>6, <1>7, <1>8, <1>9, <1>10 DEF TokioInv

\* The task of a configuration send makes it.
LEMMA ConfigureInv == ASSUME TokioInv, NEW s \in spawned, Configure(s) PROVE TokioInv'
<1> USE PipelineAssumption, DriverAssumption
<1>1. /\ TokioTypes /\ TokioControl /\ Types
      /\ UNCHANGED <<fwd, pc, todo, delivered, phase, iteration, lane, id, fed>>
      /\ spawned' = spawned \ {s}
  BY DEF TokioInv, TokioTypes, Configure
<1> DEFINE e == s.to
           m == ConfigOf(e)
<1>2. e \in Elements /\ s = Job(e) /\ s.msg = m /\ e \in Channels /\ e # Notifier
  <2>1. e \in Elements /\ s = Job(e)
    BY <1>1 DEF TokioInv, TokioConfiguration, TokioTypes
  <2> QED
    BY <2>1, Names DEF Job
<1>3. m \in Message /\ is_config(m)
  BY <1>2, ConfigOfType
<1> HIDE DEF e, m
<1>4. Open(e) /\ ConfigSent(e) /\ ~Configures(queue[e]) /\ Unconfigured(e)
  <2>1. Job(e) \in spawned /\ Awaits(e)
    BY <1>2 DEF Awaits
  <2> QED
    BY <1>2, <2>1 DEF TokioInv, TokioConfiguration
<1>5. queue[e] \in Seq(Message) /\ Len(queue[e]) \in Nat
  BY <1>1, <1>2, LenProperties DEF Types
<1>6. queue' = [queue EXCEPT ![e] = Append(queue[e], m)] /\ Len(queue[e]) < Cap
  BY <1>1, <1>2, <1>4 DEF Configure, send_cmd, e
<1>7. /\ queue'[e] = Append(queue[e], m)
      /\ \A c \in Channels : c # e => queue'[c] = queue[c]
  BY <1>1, <1>2, <1>6 DEF Types
<1>8. /\ queue'[e] \in Seq(Message)
      /\ Len(queue'[e]) = Len(queue[e]) + 1
      /\ Configures(queue'[e]) /\ OnlyConfig(queue'[e], m)
      /\ CountData(queue'[e]) = CountData(queue[e])
      /\ \A a \in Int : NumberedFrom(queue[e], a) => NumberedFrom(queue'[e], a)
  BY <1>3, <1>4, <1>5, <1>7, PutConfig
<1>9. \A x \in Elements :
        /\ CountData(queue'[x]) = CountData(queue[x])
        /\ \A a \in Int : NumberedFrom(queue[x], a) => NumberedFrom(queue'[x], a)
        /\ Open(x)' <=> Open(x)
        /\ ConfigSent(x)' <=> ConfigSent(x)
  BY <1>1, <1>7, <1>8, Names DEF Open, ConfigSent
<1>10. Done' = Done /\ queue'[Notifier] = queue[Notifier]
  BY <1>1, <1>2, <1>7, Names DEF Done
<1>11. /\ TokioHops' /\ TokioOrder' /\ TokioNumbers' /\ TokioPanics' /\ TokioNotices'
       /\ Broken' <=> Broken
       /\ \A l : FedTo(l)' = FedTo(l)
  BY <1>1, <1>9, <1>10, LanesFrame
<1>12. TokioRuns'
  BY <1>1, <1>10, <1>11, RunsFrame
<1>13. TokioLifetimes'
  BY <1>1, <1>9, LifetimesFrame DEF TokioInv, TokioLifetimes, Created
<1>14. TokioActions'
  BY <1>1 DEF TokioInv, TokioActions
<1>15. TokioConfiguration'
  <2>1. \A x : Job(x)' = Job(x) /\ ConfigOf(x)' = ConfigOf(x) /\ Job(x).to = x
    BY DEF Job, ConfigOf, After
  <2>2. \A t \in spawned' : t = Job(t.to)'
    BY <1>1, <2>1 DEF TokioInv, TokioConfiguration
  <2>3. ASSUME NEW x \in Elements
        PROVE  /\ ~Open(x)' => queue'[x] = <<>> /\ ~Awaits(x)'
               /\ Job(x)' \in spawned' => ConfigSent(x)'
               /\ Job(x)' \in spawned' \/ ~ConfigSent(x)' => ~Configures(queue'[x])
               /\ OnlyConfig(queue'[x], ConfigOf(x)')
               /\ IF Awaits(x)' THEN Unconfigured(x)' ELSE Configured(x)'
    <3>1. /\ ~Open(x) => queue[x] = <<>> /\ ~Awaits(x)
          /\ Job(x) \in spawned => ConfigSent(x)
          /\ Job(x) \in spawned \/ ~ConfigSent(x) => ~Configures(queue[x])
          /\ OnlyConfig(queue[x], ConfigOf(x))
          /\ IF Awaits(x) THEN Unconfigured(x) ELSE Configured(x)
      BY DEF TokioInv, TokioConfiguration
    <3>2. Unconfigured(x)' <=> Unconfigured(x)
      BY <1>1 DEF Unconfigured
    <3>3. Configured(x)' <=> Configured(x)
      BY <1>1 DEF Configured
    <3>4. CASE x = e
      <4>1. Job(x) \notin spawned'
        BY <1>1, <1>2, <3>4
      <4>2. Awaits(x)'
        BY <1>8, <3>4 DEF Awaits
      <4> QED
        BY <1>4, <1>8, <1>9, <2>1, <3>2, <3>4, <4>1, <4>2 DEF m
    <3>5. CASE x # e
      <4>1. Job(x) \in spawned' <=> Job(x) \in spawned
        BY <1>1, <1>2, <2>1, <3>5
      <4>2. queue'[x] = queue[x]
        BY <1>7, <3>5, Names
      <4>3. Awaits(x)' <=> Awaits(x)
        BY <1>9, <2>1, <4>1, <4>2 DEF Awaits
      <4> QED
        BY <1>9, <2>1, <3>1, <3>2, <3>3, <4>1, <4>2, <4>3
    <3> QED
      BY <3>4, <3>5
  <2> QED
    BY <1>10, <2>2, <2>3 DEF TokioInv, TokioConfiguration
<1>16. TokioTypes' /\ TokioControl'
  <2>1. queue' \in [Channels -> Seq(Message)]
    BY <1>1, <1>6, <1>7, <1>8 DEF Types
  <2>2. \A c \in Channels : Len(queue'[c]) <= Cap
    BY <1>1, <1>5, <1>6, <1>7, <1>8 DEF Types
  <2>3. Types'
    BY <1>1, <2>1, <2>2 DEF Types
  <2>4. Control'
    BY <1>1 DEF TokioControl, Control
  <2> QED
    BY <1>1, <2>3, <2>4 DEF TokioTypes, TokioControl
<1> QED
  BY <1>11, <1>12, <1>13, <1>14, <1>15, <1>16 DEF TokioInv

-----------------------------------------------------------------------------
(* run returns.                                                            *)

\* From when the configuration of e is given to its task until e is gone, the
\* sender that it carries is kept: by that task, in the channel, by the forwarder.
LEMMA TargetHeld ==
  ASSUME TokioInv, NEW e \in Elements, Open(e), ConfigSent(e)
  PROVE  ~Disconnected(ConfigOf(e).to, AllHeld)
<1>1. e \in Channels /\ queue[e] \in Seq(Message)
  BY Names DEF TokioInv, TokioTypes, Types
<1>2. CASE Job(e) \in spawned
  <2>1. Job(e).msg.to = ConfigOf(e).to
    BY DEF Job
  <2>2. ConfigOf(e).to \in {Job(e).to, Job(e).msg.to}
    BY <2>1
  <2>3. ConfigOf(e).to \in UNION {{s.to, s.msg.to} : s \in spawned}
    BY <1>2, <2>2, Zenon
  <2>4. ConfigOf(e).to \in AllHeld
    BY <2>3, Zenon DEF AllHeld
  <2> QED
    BY <2>4 DEF Disconnected
<1>3. CASE Configures(queue[e])
  <2>1. PICK j \in 1..Len(queue[e]) : is_config(queue[e][j])
    BY <1>3 DEF Configures
  <2>2. queue[e][j] = ConfigOf(e)
    BY <2>1 DEF TokioInv, TokioConfiguration, OnlyConfig
  <2>3. j \in DOMAIN queue[e]
    BY <1>1, LenProperties
  <2> QED
    BY <1>1, <2>2, <2>3 DEF Disconnected
<1>4. CASE Job(e) \notin spawned /\ ~Configures(queue[e])
  <2>1. Configured(e)
    BY <1>4 DEF TokioInv, TokioConfiguration, Awaits
  <2>2. ConfigOf(e).to \in Holds(fwd[e])
    <3>1. CASE e = Concentrator
      BY <2>1, <3>1 DEF Configured, ConfigOf, Holds, Notify
    <3>2. CASE e # Concentrator /\ e[2] = Pipelines
      BY <2>1, <3>2 DEF Configured, ConfigOf, Holds, Notify
    <3>3. CASE e # Concentrator /\ e[2] # Pipelines
      <4>1. fwd[e].senders = <<After(e)>> /\ ConfigOf(e).to = After(e)
        BY <2>1, <3>3 DEF Configured, ConfigOf, AddSender
      <4>2. 1 \in DOMAIN fwd[e].senders /\ fwd[e].senders[1] = After(e)
        BY <4>1
      <4> QED
        BY <4>1, <4>2 DEF Holds
    <3> QED
      BY <3>1, <3>2, <3>3
  <2> QED
    BY <2>2 DEF Disconnected
<1> QED
  BY <1>2, <1>3, <1>4

\* Where all of a run has arrived, nothing is left in the lane.
LEMMA LaneEmpty ==
  ASSUME TokioInv, ~Broken, NEW l \in 1..Lanes, delivered[l] > 0,
         phase \notin {"teardown", "torndown"},
         FedTo(l) <= delivered[l]
  PROVE  \A i \in 1..Pipelines :
           /\ Open(Slot(l, i)) /\ Accepted(l, i) = FedTo(l)
           /\ CountData(queue[Slot(l, i)]) = 0
           /\ FedTo(l) = delivered[l]
           /\ i < Pipelines => todo[Slot(l, i)] = <<>>
<1> USE PipelineAssumption
<1>1. TokioTypes
  BY DEF TokioInv
<1>2. ~Panicked(l)
  BY PanickedLane
<1>3. ASSUME NEW i \in 1..Pipelines
      PROVE  /\ Accepted(l, i) = FedTo(l) /\ FedTo(l) = delivered[l]
             /\ Open(Slot(l, i))
  <2>1. Pipelines \in i..Pipelines
    OBVIOUS
  <2>2. Accepted(l, i) <= FedTo(l) /\ Accepted(l, Pipelines) <= Accepted(l, i)
    BY <2>1 DEF TokioInv, TokioOrder
  <2>3. /\ Accepted(l, Pipelines) = delivered[l] /\ delivered[l] \in Nat
        /\ Accepted(l, i) \in Nat /\ FedTo(l) \in Nat
    BY <1>1, TokioCounts
  <2>4. Open(Slot(l, i))
    <3>1. \A j \in 1..i : j \in 1..Pipelines
      OBVIOUS
    <3> QED
      BY <1>2, <3>1 DEF TokioInv, TokioLifetimes, Panicked
  <2> QED
    BY <2>2, <2>3, <2>4
<1>4. ASSUME NEW i \in 1..Pipelines
      PROVE  CountData(queue[Slot(l, i)]) = 0 /\ Sent(l, i - 1) = FedTo(l)
  <2>1. Sent(l, i - 1) = Accepted(l, i) + CountData(queue[Slot(l, i)])
    BY <1>3 DEF TokioInv, TokioHops
  <2>2. /\ Sent(l, i - 1) \in Nat /\ FedTo(l) \in Nat /\ Sent(l, i) \in Nat
        /\ CountData(queue[Slot(l, i)]) \in Nat
    BY <1>1, TokioCounts
  <2>3. Sent(l, i - 1) <= FedTo(l)
    <3>1. CASE i = 1
      BY <2>2, <3>1, SentCounts
    <3>2. CASE i # 1
      <4> DEFINE k == i - 1
      <4>1. k \in 1..Pipelines /\ k < Pipelines
        BY <3>2
      <4> HIDE DEF k
      <4>2. Swallowed(Slot(l, k)) = 0 \/ Sent(l, k) = 0
        BY <4>1 DEF TokioInv, TokioHops
      <4>3. /\ Swallowed(Slot(l, k)) = Accepted(l, k) - Sent(l, k) - Len(todo[Slot(l, k)])
            /\ Accepted(l, k) \in Nat /\ Sent(l, k) \in Nat /\ Len(todo[Slot(l, k)]) \in Nat
        BY <1>1, <4>1, TokioCounts
      <4>4. Accepted(l, k) = FedTo(l)
        BY <1>3, <4>1
      <4>5. Sent(l, k) <= FedTo(l)
        BY <2>2, <4>2, <4>3, <4>4
      <4> QED
        BY <4>5 DEF k
    <3> QED
      BY <3>1, <3>2
  <2>4. Accepted(l, i) = FedTo(l)
    BY <1>3
  <2> QED
    BY <2>1, <2>2, <2>3, <2>4
<1>5. ASSUME NEW i \in 1..Pipelines, i < Pipelines
      PROVE  todo[Slot(l, i)] = <<>>
  <2>1. i + 1 \in 1..Pipelines /\ (i + 1) - 1 = i
    BY <1>5
  <2>2. Sent(l, i) = FedTo(l)
    BY <1>4, <2>1
  <2>3. Swallowed(Slot(l, i)) = 0 \/ Sent(l, i) = 0
    BY <1>5 DEF TokioInv, TokioHops
  <2>4. /\ Swallowed(Slot(l, i)) = Accepted(l, i) - Sent(l, i) - Len(todo[Slot(l, i)])
        /\ Len(todo[Slot(l, i)]) \in Nat /\ todo[Slot(l, i)] \in Seq(LaneElements)
        /\ FedTo(l) \in Nat /\ delivered[l] \in Nat
    BY <1>1, <1>5, TokioCounts
  <2>5. Accepted(l, i) = FedTo(l) /\ FedTo(l) = delivered[l]
    BY <1>3
  <2>6. Len(todo[Slot(l, i)]) = 0
    BY <2>2, <2>3, <2>4, <2>5
  <2> QED
    BY <2>4, <2>6, EmptySeq
<1> QED
  BY <1>3, <1>4, <1>5

\* When all lanes have notified the concentrator, the feeder of the run is done.
LEMMA AllFed ==
  ASSUME TokioInv, ~Broken, phase = "waiting", \A l \in 1..Lanes : Notified(l)
  PROVE  /\ fed[iteration] = Messages * Lanes
         /\ \A l \in 1..Lanes : FedTo(l) = Done + Messages /\ FedTo(l) = delivered[l]
<1> USE PipelineAssumption
<1>1. TokioTypes /\ Done \in Nat /\ iteration \in 1..Iterations
  BY DoneType DEF TokioInv
<1>2. fed[iteration] \in 0..(Messages * Lanes)
  BY <1>1 DEF TokioTypes
<1>3. \A l \in 1..Lanes : FedTo(l) = Done + Share(fed[iteration], l)
  BY DEF TokioInv, TokioRuns
<1>4. \A l \in 1..Lanes : delivered[l] = Done + Messages
  BY DEF Notified
<1>5. Lanes \in 1..Lanes /\ Pipelines \in 1..Pipelines /\ 1 \in 1..Pipelines
  OBVIOUS
<1>6. Accepted(Lanes, Pipelines) <= FedTo(Lanes) /\ Accepted(Lanes, Pipelines) = delivered[Lanes]
  BY <1>1, <1>5, TokioCounts DEF TokioInv, TokioOrder
<1>7. fed[iteration] \in Nat /\ Share(fed[iteration], Lanes) \in Nat
  <2>1. fed[iteration] \in Nat
    BY <1>2
  <2> QED
    BY <1>5, <2>1, Shares
<1>8. Share(fed[iteration], Lanes) >= Messages
  <2>1. FedTo(Lanes) = Done + Share(fed[iteration], Lanes) /\ delivered[Lanes] = Done + Messages
    BY <1>3, <1>4, <1>5
  <2> QED
    BY <1>1, <1>6, <1>7, <2>1
<1>9. fed[iteration] = Messages * Lanes
  BY <1>2, <1>8, Shares
<1>10. \A l \in 1..Lanes : Share(fed[iteration], l) = Messages
  BY <1>9, Shares
<1> QED
  BY <1>3, <1>4, <1>9, <1>10

\* No data, no numbers.
LEMMA NothingNumbered ==
  ASSUME NEW q \in Seq(Message), NEW m, OnlyConfig(q, m), CountData(q) = 0
  PROVE  \A a : NumberedFrom(q, a)
<1>1. Len(q) \in Nat
  BY LenProperties
<1>2. CASE Configures(q)
  <2>1. Len(q) = 1 /\ \E j \in 1..Len(q) : is_config(q[j])
    BY <1>1, <1>2 DEF CountData, Configures
  <2>2. \A j \in 1..Len(q) : j = 1
    BY <2>1
  <2>3. \A j \in 1..Len(q) : is_config(q[j])
    BY <2>1, <2>2
  <2> QED
    BY <2>3 DEF NumberedFrom
<1>3. CASE ~Configures(q)
  BY <1>1, <1>3 DEF CountData, NumberedFrom
<1> QED
  BY <1>2, <1>3

\* run returns on the notification, or because all the lanes are broken.
LEMMA TokioRunWaitInv == ASSUME TokioInv, RunWait(AllHeld), UNCHANGED tokioVars PROVE TokioInv'
<1> USE PipelineAssumption, DriverAssumption
<1>1. /\ TokioTypes /\ TokioControl /\ Types /\ Control
      /\ phase = "waiting" /\ phase' = "idle"
      /\ UNCHANGED <<fwd, pc, todo, delivered, iteration, lane, id, spawned, fed>>
  BY DEF TokioInv, TokioTypes, TokioControl, RunWait, tokioVars
<1>2. /\ Done \in Nat /\ iteration \in 1..Iterations
      /\ Done' = Done + Messages /\ Done' \in Nat
  <2>1. Done \in Nat /\ iteration \in 1..Iterations /\ iteration * Messages = Done + Messages
    BY <1>1, DoneType
  <2>2. Done' = iteration * Messages
    BY <1>1 DEF Done
  <2> QED
    BY <2>1, <2>2
<1>3. /\ \A e \in Elements : queue'[e] = queue[e]
      /\ queue' \in [Channels -> Seq(Message)]
      /\ queue'[Notifier] = <<>>
      /\ \/ queue[Notifier] = <<>> /\ Disconnected(Notifier, AllHeld) /\ queue' = queue
         \/ Len(queue[Notifier]) = 1
  <2>1. CASE queue[Notifier] # <<>>
    <3>1. queue' = [queue EXCEPT ![Notifier] = Tail(queue[Notifier])]
      BY <1>1, <2>1 DEF RunWait, TakeHead
    <3>2. Len(queue[Notifier]) = 1 /\ queue[Notifier] \in Seq(Message)
      BY <1>1, <2>1, Names DEF TokioInv, TokioNotices, Types
    <3>3. Tail(queue[Notifier]) \in Seq(Message) /\ Len(Tail(queue[Notifier])) = 0
      BY <2>1, <3>2, Rest
    <3>4. Tail(queue[Notifier]) = <<>>
      BY <3>3, EmptySeq
    <3> QED
      BY <1>1, <3>1, <3>2, <3>3, <3>4, Names DEF Types
  <2>2. CASE queue[Notifier] = <<>>
    BY <1>1, <2>2 DEF RunWait, Types
  <2> QED
    BY <2>1, <2>2
<1>4. /\ \A e \in Elements : /\ Open(e)' <=> Open(e)
                             /\ ConfigSent(e)' <=> ConfigSent(e)
                             /\ ~Created(e)' => pc'[e] = "unborn"
      /\ Broken' <=> Broken
      /\ \A l : FedTo(l)' = FedTo(l)
  <2>1. \A e \in Elements : /\ Open(e)' <=> Open(e)
                            /\ ConfigSent(e)' <=> ConfigSent(e)
                            /\ ~Created(e)' => pc'[e] = "unborn"
    BY <1>1 DEF Open, ConfigSent, Created
  <2>2. Broken' <=> Broken
    BY <1>1 DEF Broken, Panicked
  <2>3. \A l : FedTo(l)' = FedTo(l)
    BY <1>1 DEF FedTo, FedInto
  <2> QED
    BY <2>1, <2>2, <2>3
<1>5. TokioTypes' /\ TokioControl'
  <2>1. \A c \in Channels : Len(queue'[c]) <= Cap
    <3>1. Len(queue'[Notifier]) <= Cap
      BY <1>3, EmptySeq
    <3> QED
      BY <1>1, <1>3, <3>1, Names DEF Types
  <2>2. Types' /\ Control'
    BY <1>1, <1>3, <2>1 DEF Types, Control
  <2> QED
    BY <1>1, <2>2 DEF TokioTypes, TokioControl
<1>6. TokioLifetimes'
  BY <1>1, <1>4, LifetimesFrame DEF TokioInv, TokioLifetimes
<1>7. TokioConfiguration'
  <2>1. ~Configures(queue'[Notifier])
    BY <1>3, NothingInIt
  <2> QED
    BY <1>1, <1>3, <1>4, <2>1, ConfigurationFrame DEF TokioInv, TokioConfiguration, Unconfigured
<1>8. TokioActions'
  BY <1>1 DEF TokioInv, TokioActions
<1>9. TokioHops' /\ TokioOrder' /\ TokioNumbers' /\ TokioPanics' /\ TokioNotices' /\ TokioRuns'
  <2>1. CASE Len(queue[Notifier]) = 1
    <3>1. /\ NotifiedLanes = 1..Lanes
          /\ fwd[Concentrator].received_count = 0 /\ CountData(queue[Concentrator]) = 0
      <4>1. queue[Notifier] # <<>>
        BY <2>1, EmptySeq
      <4> QED
        BY <4>1 DEF TokioInv, TokioNotices
    <3>2. \A l \in 1..Lanes : Notified(l)
      BY <3>1 DEF NotifiedLanes
    <3>3. ~Broken
      <4>1. 1 \in 1..Lanes
        OBVIOUS
      <4> QED
        BY <3>2, <4>1, PanickedSilent DEF Broken
    <3>4. /\ fed[iteration] = Messages * Lanes
          /\ \A l \in 1..Lanes : /\ FedTo(l) = Done' /\ delivered[l] = Done'
                                 /\ fwd[Last(l)].received_count = 0
      BY <1>1, <1>2, <3>2, <3>3, AllFed DEF Notified
    <3>5. \A l \in 1..Lanes : \A i \in 1..Pipelines :
            Accepted(l, i) = Done' /\ CountData(queue[Slot(l, i)]) = 0
      <4> SUFFICES ASSUME NEW l \in 1..Lanes
                   PROVE  \A i \in 1..Pipelines :
                            Accepted(l, i) = Done' /\ CountData(queue[Slot(l, i)]) = 0
        OBVIOUS
      <4>1. delivered[l] > 0 /\ FedTo(l) <= delivered[l] /\ FedTo(l) = Done'
        BY <1>2, <3>4
      <4> QED
        BY <1>1, <3>3, <4>1, LaneEmpty
    <3>6. \A l : \A i : /\ Accepted(l, i)' = Accepted(l, i)
                        /\ Swallowed(Slot(l, i))' = Swallowed(Slot(l, i))
      BY <1>1 DEF Accepted, Swallowed
    <3>7. \A l : \A i : Sent(l, i)' = Sent(l, i)
      BY <1>1, <1>4 DEF Sent
    <3>8. \A l \in 1..Lanes : \A i \in 1..Pipelines :
            queue'[Slot(l, i)] = queue[Slot(l, i)] /\ (Open(Slot(l, i))' <=> Open(Slot(l, i)))
      BY <1>3, <1>4, Slots
    <3>9. TokioHops'
      BY <1>1, <3>6, <3>7, <3>8 DEF TokioInv, TokioHops
    <3>10. TokioOrder'
      BY <1>4, <3>6 DEF TokioInv, TokioOrder
    <3>11. TokioPanics'
      BY <1>1, <3>6 DEF TokioInv, TokioPanics
    <3>12. TokioNumbers'
      <4> SUFFICES ASSUME NEW l \in 1..Lanes, NEW i \in 1..(Pipelines - 1)
                   PROVE  /\ Open(Slot(l, i))' => NumberedFrom(queue'[Slot(l, i)], Count(l, i)')
                          /\ Swallowed(Slot(l, i))' = 0 /\ Count(l, i)' > 0 =>
                               fwd'[Slot(l, i)].next_seq = Count(l, i)'
        BY DEF TokioNumbers
      <4>1. i \in 1..Pipelines /\ Slot(l, i) \in Elements
        BY Slots
      <4>2. NumberedFrom(queue'[Slot(l, i)], Count(l, i)')
        <5>1. /\ OnlyConfig(queue[Slot(l, i)], ConfigOf(Slot(l, i)))
              /\ queue[Slot(l, i)] \in Seq(Message)
          BY <1>1, <4>1, TokioCounts DEF TokioInv, TokioConfiguration
        <5> QED
          BY <3>5, <3>8, <4>1, <5>1, NothingNumbered
      <4>3. CASE i = 1
        <5>1. Count(l, i)' = 0
          BY <1>2, <3>5, <3>6, <4>1, <4>3 DEF Count
        <5> QED
          BY <4>2, <5>1
      <4>4. CASE i # 1
        <5>1. Count(l, i)' = Count(l, i)
          BY <3>6, <4>4 DEF Count
        <5>2. Swallowed(Slot(l, i)) = 0 /\ Count(l, i) > 0 => fwd[Slot(l, i)].next_seq = Count(l, i)
          BY <4>4 DEF TokioInv, TokioNumbers
        <5> QED
          BY <1>1, <3>6, <4>2, <5>1, <5>2
      <4> QED
        BY <4>3, <4>4
    <3>13. TokioRuns'
      <4>1. \A k \in 1..Iterations : k <= iteration => fed[k] = Messages * Lanes
        BY <1>2, <3>3, <3>4 DEF TokioInv, TokioRuns
      <4> QED
        BY <1>1, <1>2, <1>4, <3>4, <4>1 DEF TokioRuns
    <3>14. TokioNotices'
      <4>1. \A l \in 1..Lanes : /\ delivered'[l] = Done'
                                /\ fwd'[Last(l)].received_count = 0
                                /\ ~Notified(l)'
        BY <1>1, <1>2, <3>4 DEF Notified, Last
      <4>2. NotifiedLanes' = {}
        BY <4>1 DEF NotifiedLanes
      <4>3. Cardinality(NotifiedLanes') = 0
        BY <4>2, FS_EmptySet
      <4>4. queue'[Concentrator] = queue[Concentrator]
        BY <1>3, Names
      <4>5. fwd'[Concentrator].received_count + CountData(queue'[Concentrator]) = 0
        BY <1>1, <3>1, <4>4
      <4>6. \A l \in 1..Lanes : Done' <= delivered'[l] /\ fwd'[Last(l)].received_count = delivered'[l] - Done'
        BY <1>2, <4>1
      <4> QED
        BY <1>3, <1>4, <3>3, <4>3, <4>5, <4>6 DEF TokioNotices, Last
    <3> QED
      BY <3>9, <3>10, <3>11, <3>12, <3>13, <3>14
  <2>2. CASE queue[Notifier] = <<>> /\ Disconnected(Notifier, AllHeld) /\ queue' = queue
    <3>1. ConfigSent(Concentrator) /\ ConfigOf(Concentrator).to = Notifier /\ Concentrator \in Elements
      BY <1>1, Names DEF ConfigSent, ConfigOf, Notify
    <3>2. ~Open(Concentrator)
      BY <2>2, <3>1, TargetHeld
    <3>3. Broken
      BY <1>1, <3>2 DEF TokioInv, TokioLifetimes
    <3>4. TokioRuns'
      BY <1>4, <3>3 DEF TokioRuns
    <3>5. \A e \in Elements : pc'[e] = "panicked" <=> pc[e] = "panicked"
      BY <1>1
    <3> QED
      BY <1>1, <1>2, <1>4, <2>2, <3>3, <3>4, <3>5, LanesFrame
  <2> QED
    BY <1>3, <2>1, <2>2
<1> QED
  BY <1>5, <1>6, <1>7, <1>8, <1>9 DEF TokioInv
=============================================================================
