----------------------------- MODULE NatsProofs -----------------------------
(***************************************************************************)
(* Theorems about a JetStream consumer behind the adapter, for any number  *)
(* of messages, redeliveries and connections and any size of the table of  *)
(* pending acks.                                                           *)
(*                                                                         *)
(* The invariant says that a delivery is in one place at a time, with a    *)
(* number the server has counted; that the table of pending acks is what   *)
(* this connection delivered, unless it was emptied; and that a message    *)
(* the checker holds to be acked is neither on its way to the client nor   *)
(* about to be sent again, unless an ack was mistaken or crossed.          *)
(*                                                                         *)
(* Then the checkers that are shown events one after another, for events   *)
(* of any number: what each holds after the first k of them; and last what *)
(* the adapter reads from a socket, operation by operation.                *)
(***************************************************************************)
EXTENDS MCNatsProxy, FiniteSetTheorems, SequenceTheorems, NaturalsInduction,
    WellFoundedInduction, TLAPS

Sendings == Messages \X Nat
Answers == [delivery : Sendings, kind : Kinds]

\* Every variable holds what the code's types allow.
Typed ==
    /\ state \in [Messages -> {"queued", "out", "settled"}] /\ count \in [Messages -> Nat]
    /\ toServer \in Seq(Messages) /\ connection \in Nat
    /\ clientOpen \in BOOLEAN /\ serverOpen \in BOOLEAN /\ closed \in BOOLEAN
    /\ down \in Seq(Sendings) /\ deferred \in Seq(Sendings) /\ batch \in Seq(Sendings)
    /\ toClient \in {"running", "draining", "ended"} /\ toServerPump \in {"running", "ended"}
    /\ up \in Seq(Answers) /\ ack \in Seq(Answers)
    /\ inHand \in [Kinds -> SUBSET Sendings] /\ remembered \subseteq Sendings
    /\ received \subseteq Nat \X Sendings
    /\ lastDelivered \in Messages \cup {Nothing} /\ acked \subseteq Messages
    /\ settled \subseteq Messages
    /\ fired \in BOOLEAN /\ twice \in BOOLEAN /\ overdue \in BOOLEAN
    /\ mistaken \in BOOLEAN /\ crossed \in BOOLEAN /\ cleared \in BOOLEAN

Among(list) == {list[i] : i \in 1 .. Len(list)}
Once(list) == \A i, j \in 1 .. Len(list) : i # j => list[i] # list[j]

OnTheWire == Among(down) \cup Among(deferred) \cup Among(batch)
Seen == {receipt[2] : receipt \in received}

\* A delivery is on its way in one place, and was counted when it was sent.
Apart ==
    /\ Once(down) /\ Once(deferred) /\ Once(batch)
    /\ \A delivery \in Among(down) : delivery \notin Among(deferred) \cup Among(batch)
    /\ \A delivery \in Among(deferred) : delivery \notin Among(batch)
Numbered ==
    /\ Apart
    /\ \A delivery \in OnTheWire : delivery \notin Seen
    /\ \A delivery \in OnTheWire \cup Seen : delivery[2] <= count[delivery[1]]

\* A pump in the middle of an ack has not ended.
AckInHand == ack # <<>> => toServerPump = "running"

\* While acks are read, the table of pending acks is what the client received
\* on this connection, unless it was full and emptied.
TableIsTrue ==
    /\ \A receipt \in received : receipt[1] <= connection
    /\ toServerPump = "running" =>
           /\ \A delivery \in remembered : <<connection, delivery>> \in received
           /\ \A receipt \in received :
                  receipt[1] = connection => receipt[2] \in remembered \/ cleared

\* A message the checker holds to be acked will not come again, unless an ack
\* was charged to another message or met a delivery on the way.
AckedIsOver ==
    \A m \in acked :
        \/ mistaken \/ crossed
        \/ /\ \A delivery \in OnTheWire : delivery[1] # m
           /\ m \in Among(toServer) \/ state[m] = "settled"

\* What was acked as the latest delivery, the checker holds to be acked.
SettledIsAcked == \A m \in settled : m \in acked \/ cleared

NatsInv ==
    /\ Typed /\ Numbered /\ AckInHand /\ TableIsTrue /\ AckedIsOver /\ SettledIsAcked
    /\ FiresForAReason /\ RedeliveryIsReported

-----------------------------------------------------------------------------
\* What the operators on sequences do to their members.

LEMMA SendingsTyped ==
    ASSUME NEW s \in Seq(Sendings)
    PROVE  /\ Len(s) \in Nat /\ \A i \in 1 .. Len(s) : s[i] \in Sendings
           /\ Among(s) \subseteq Sendings
           /\ s = <<>> <=> Len(s) = 0
           /\ Len(s) = 0 => Among(s) = {} /\ Once(s)
<1>1. Len(s) \in Nat /\ \A i \in 1 .. Len(s) : s[i] \in Sendings
  BY LenProperties, ElementOfSeq
<1>2. s = <<>> <=> Len(s) = 0
  BY EmptySeq
<1>3. QED
  BY <1>1, <1>2 DEF Among, Once

LEMMA Empty ==
    /\ <<>> \in Seq(Sendings) /\ <<>> \in Seq(Answers) /\ <<>> \in Seq(Messages)
    /\ Among(<<>>) = {} /\ Once(<<>>)
<1>1. <<>> \in Seq(Sendings) /\ Len(<<>>) = 0
  BY EmptySeq
<1>2. QED
  BY <1>1, EmptySeq, SendingsTyped

LEMMA SendingsAppended ==
    ASSUME NEW s \in Seq(Sendings), NEW e \in Sendings
    PROVE  /\ Append(s, e) \in Seq(Sendings)
           /\ Among(Append(s, e)) = Among(s) \cup {e}
           /\ Once(s) /\ e \notin Among(s) => Once(Append(s, e))
<1>1. PICK t : t = Append(s, e)
  OBVIOUS
<1>1a. PICK k \in Nat : k = Len(s)
  BY LenProperties
<1>2. /\ t \in Seq(Sendings) /\ Len(t) = k + 1 /\ t[k + 1] = e
      /\ \A i \in 1 .. k : t[i] = s[i]
  BY <1>1, <1>1a, AppendProperties
<1>3. /\ \A i \in 1 .. k + 1 : i = k + 1 \/ i \in 1 .. k
      /\ \A i \in 1 .. k : i \in 1 .. k + 1
      /\ k + 1 \in 1 .. k + 1
  OBVIOUS
<1>4. Among(t) = Among(s) \cup {e}
  <2>1. \A x \in Among(t) : x \in Among(s) \cup {e}
    BY <1>1, <1>1a, <1>2, <1>3 DEF Among
  <2>2. \A x \in Among(s) : x \in Among(t)
    BY <1>1, <1>1a, <1>2, <1>3 DEF Among
  <2>3. e \in Among(t)
    BY <1>2, <1>3 DEF Among
  <2>4. QED
    BY <2>1, <2>2, <2>3
<1>5. ASSUME Once(s), e \notin Among(s)
      PROVE  Once(t)
  BY <1>1, <1>1a, <1>2, <1>3, <1>5 DEF Among, Once
<1>6. QED
  BY <1>1, <1>1a, <1>2, <1>4, <1>5

LEMMA SendingsTail ==
    ASSUME NEW s \in Seq(Sendings), s # <<>>
    PROVE  /\ Tail(s) \in Seq(Sendings) /\ Head(s) \in Sendings
           /\ Among(s) = {Head(s)} \cup Among(Tail(s))
           /\ Once(s) => Once(Tail(s)) /\ Head(s) \notin Among(Tail(s))
<1>1. PICK t : t = Tail(s)
  OBVIOUS
<1>1a. PICK k \in Nat : k = Len(s) /\ k > 0
  BY LenProperties, EmptySeq
<1>2. /\ t \in Seq(Sendings) /\ Len(t) = k - 1 /\ Head(s) = s[1]
      /\ \A i \in 1 .. k - 1 : t[i] = s[i + 1]
  BY <1>1, <1>1a, EmptySeq, HeadTailProperties
<1>3. \A i \in 1 .. k : i = 1 \/ (i - 1 \in 1 .. k - 1 /\ t[i - 1] = s[i])
  <2>1. SUFFICES ASSUME NEW i \in 1 .. k, i # 1
                 PROVE  i - 1 \in 1 .. k - 1 /\ t[i - 1] = s[i]
    OBVIOUS
  <2>2. i - 1 \in 1 .. k - 1 /\ (i - 1) + 1 = i
    BY <1>1, <1>1a, <2>1
  <2>3. QED
    BY <1>2, <2>2
<1>4. Among(s) = {Head(s)} \cup Among(t)
  <2>1. ASSUME NEW x \in Among(s)
        PROVE  x \in {Head(s)} \cup Among(t)
    <3>1. PICK i \in 1 .. k : x = s[i]
      BY <1>1a, <2>1 DEF Among
    <3>2. i = 1 \/ (i - 1 \in 1 .. k - 1 /\ t[i - 1] = x)
      BY <1>3, <3>1
    <3>3. QED
      BY <1>2, <3>1, <3>2 DEF Among
  <2>2. \A x \in Among(t) : x \in Among(s)
    BY <1>1, <1>1a, <1>2 DEF Among
  <2>3. Head(s) \in Among(s)
    BY <1>1, <1>1a, <1>2 DEF Among
  <2>4. QED
    BY <2>1, <2>2, <2>3
<1>5. Once(s) => Once(t) /\ Head(s) \notin Among(t)
  BY <1>1, <1>1a, <1>2 DEF Once, Among
<1>6. Head(s) \in Sendings
  BY <1>1, <1>1a, <1>2, ElementOfSeq
<1>7. QED
  BY <1>1, <1>1a, <1>2, <1>4, <1>5, <1>6

LEMMA SendingsReversed ==
    ASSUME NEW s \in Seq(Sendings)
    PROVE  /\ Reverse(s) \in Seq(Sendings) /\ Among(Reverse(s)) = Among(s)
           /\ Once(s) => Once(Reverse(s))
<1>1. PICK t : t = Reverse(s)
  OBVIOUS
<1>1a. PICK k \in Nat : k = Len(s)
  BY LenProperties
<1>2. \A i \in 1 .. k : (k - i) + 1 \in 1 .. k /\ s[(k - i) + 1] \in Sendings
  BY <1>1, <1>1a, ElementOfSeq
<1>3. t = [i \in 1 .. k |-> s[(k - i) + 1]]
  BY <1>1, <1>1a DEF Reverse
<1>4. t \in Seq(Sendings) /\ Len(t) = k /\ \A i \in 1 .. k : t[i] = s[(k - i) + 1]
  BY <1>1, <1>1a, <1>2, <1>3, IsASeq
<1>5. \A i \in 1 .. k : t[(k - i) + 1] = s[i]
  <2>1. SUFFICES ASSUME NEW i \in 1 .. k
                 PROVE  t[(k - i) + 1] = s[i]
    OBVIOUS
  <2>2. (k - i) + 1 \in 1 .. k /\ (k - ((k - i) + 1)) + 1 = i
    OBVIOUS
  <2>3. QED
    BY <1>4, <2>2
<1>6. Among(t) = Among(s)
  <2>1. \A x \in Among(t) : x \in Among(s)
    BY <1>1, <1>1a, <1>2, <1>4 DEF Among
  <2>2. ASSUME NEW x \in Among(s)
        PROVE  x \in Among(t)
    <3>1. PICK i \in 1 .. k : x = s[i]
      BY <1>1, <1>1a, <2>2 DEF Among
    <3>2. (k - i) + 1 \in 1 .. k /\ t[(k - i) + 1] = x
      BY <1>2, <1>5, <3>1
    <3>3. QED
      BY <1>4, <3>2 DEF Among
  <2>3. QED
    BY <2>1, <2>2
<1>7. ASSUME Once(s)
      PROVE  Once(t)
  <2>1. SUFFICES ASSUME NEW i \in 1 .. k, NEW j \in 1 .. k, i # j
                 PROVE  t[i] # t[j]
    BY <1>4 DEF Once
  <2>2. (k - i) + 1 # (k - j) + 1
    BY <2>1
  <2>3. s[(k - i) + 1] # s[(k - j) + 1]
    BY <1>1, <1>1a, <1>2, <1>7, <2>2 DEF Once
  <2>4. QED
    BY <1>4, <2>3
<1>8. QED
  BY <1>1, <1>1a, <1>4, <1>6, <1>7

LEMMA SendingsJoined ==
    ASSUME NEW s \in Seq(Sendings), NEW t \in Seq(Sendings)
    PROVE  /\ s \o t \in Seq(Sendings) /\ Among(s \o t) = Among(s) \cup Among(t)
           /\ Once(s) /\ Once(t) /\ (\A x \in Among(s) : x \notin Among(t)) => Once(s \o t)
<1>1. PICK u : u = s \o t
  OBVIOUS
<1>1a. PICK k \in Nat, l \in Nat : k = Len(s) /\ l = Len(t)
  BY LenProperties
<1>2. /\ u \in Seq(Sendings) /\ Len(u) = k + l
      /\ \A i \in 1 .. k + l : u[i] = IF i <= k THEN s[i] ELSE t[i - k]
  BY <1>1, <1>1a, ConcatProperties
<1>3. /\ \A i \in 1 .. k : i \in 1 .. k + l /\ u[i] = s[i]
      /\ \A i \in 1 .. k + l : i \in 1 .. k \/ (i - k \in 1 .. l /\ u[i] = t[i - k])
  BY <1>2
<1>4. \A i \in 1 .. l : k + i \in 1 .. k + l /\ u[k + i] = t[i]
  <2>1. SUFFICES ASSUME NEW i \in 1 .. l
                 PROVE  k + i \in 1 .. k + l /\ u[k + i] = t[i]
    OBVIOUS
  <2>2. k + i \in 1 .. k + l /\ ~(k + i <= k) /\ (k + i) - k = i
    OBVIOUS
  <2>3. QED
    BY <1>2, <2>2
<1>5. Among(u) = Among(s) \cup Among(t)
  <2>1. \A x \in Among(u) : x \in Among(s) \cup Among(t)
    BY <1>1, <1>1a, <1>2, <1>3 DEF Among
  <2>2. \A x \in Among(s) : x \in Among(u)
    BY <1>1, <1>1a, <1>2, <1>3 DEF Among
  <2>3. ASSUME NEW x \in Among(t)
        PROVE  x \in Among(u)
    <3>1. PICK i \in 1 .. l : x = t[i]
      BY <1>1a, <2>3 DEF Among
    <3>2. k + i \in 1 .. k + l /\ u[k + i] = x
      BY <1>4, <3>1
    <3>3. QED
      BY <1>2, <3>2 DEF Among
  <2>4. QED
    BY <2>1, <2>2, <2>3
<1>6. ASSUME Once(s), Once(t), \A x \in Among(s) : x \notin Among(t)
      PROVE  Once(u)
  <2>1. SUFFICES ASSUME NEW i \in 1 .. k + l, NEW j \in 1 .. k + l, i # j
                 PROVE  u[i] # u[j]
    BY <1>2 DEF Once
  <2>2. CASE i \in 1 .. k /\ j \in 1 .. k
    BY <1>1, <1>1a, <1>3, <1>6, <2>1, <2>2 DEF Once
  <2>3. CASE i - k \in 1 .. l /\ j - k \in 1 .. l /\ u[i] = t[i - k] /\ u[j] = t[j - k]
    <3>1. i - k # j - k
      BY <2>1
    <3>2. QED
      BY <1>1, <1>1a, <1>6, <2>3, <3>1 DEF Once
  <2>4. CASE i \in 1 .. k /\ j - k \in 1 .. l /\ u[j] = t[j - k]
    <3>1. u[i] \in Among(s)
      BY <1>1, <1>1a, <1>3, <2>4 DEF Among
    <3>2. u[j] \in Among(t)
      BY <1>1, <1>1a, <2>4 DEF Among
    <3>3. QED
      BY <1>6, <3>1, <3>2
  <2>5. CASE j \in 1 .. k /\ i - k \in 1 .. l /\ u[i] = t[i - k]
    <3>1. u[j] \in Among(s)
      BY <1>1, <1>1a, <1>3, <2>5 DEF Among
    <3>2. u[i] \in Among(t)
      BY <1>1, <1>1a, <2>5 DEF Among
    <3>3. QED
      BY <1>6, <3>1, <3>2
  <2>6. QED
    BY <1>3, <2>1, <2>2, <2>3, <2>4, <2>5
<1>7. QED
  BY <1>1, <1>1a, <1>2, <1>5, <1>6

LEMMA One ==
    ASSUME NEW e \in Sendings
    PROVE  <<e>> \in Seq(Sendings) /\ Among(<<e>>) = {e} /\ Once(<<e>>)
<1>1. PICK t : t = <<e>>
  OBVIOUS
<1>2. t \in Seq(Sendings) /\ Len(t) = 1 /\ t[1] = e
  BY <1>1
<1>3. QED
  BY <1>1, <1>2 DEF Among, Once

LEMMA MessagesMoved ==
    ASSUME NEW s \in Seq(Messages)
    PROVE  /\ \A e \in Messages : Append(s, e) \in Seq(Messages)
                                  /\ Among(Append(s, e)) = Among(s) \cup {e}
           /\ s # <<>> => /\ Tail(s) \in Seq(Messages) /\ Head(s) \in Messages
                          /\ Among(s) = {Head(s)} \cup Among(Tail(s))
           /\ ToSet(s) = Among(s)
<1>1. PICK k \in Nat : k = Len(s)
  BY LenProperties
<1>2. ASSUME NEW e \in Messages
      PROVE  Append(s, e) \in Seq(Messages) /\ Among(Append(s, e)) = Among(s) \cup {e}
  <2>1. PICK t : t = Append(s, e)
    OBVIOUS
  <2>2. /\ t \in Seq(Messages) /\ Len(t) = k + 1 /\ t[k + 1] = e
        /\ \A i \in 1 .. k : t[i] = s[i]
    BY <1>1, <2>1, AppendProperties
  <2>3. /\ \A i \in 1 .. k + 1 : i = k + 1 \/ i \in 1 .. k
        /\ \A i \in 1 .. k : i \in 1 .. k + 1
        /\ k + 1 \in 1 .. k + 1
    OBVIOUS
  <2>4. \A x \in Among(t) : x \in Among(s) \cup {e}
    BY <1>1, <2>2, <2>3 DEF Among
  <2>5. \A x \in Among(s) \cup {e} : x \in Among(t)
    BY <1>1, <2>2, <2>3 DEF Among
  <2>6. QED
    BY <2>1, <2>2, <2>4, <2>5
<1>3. ASSUME s # <<>>
      PROVE  /\ Tail(s) \in Seq(Messages) /\ Head(s) \in Messages
             /\ Among(s) = {Head(s)} \cup Among(Tail(s))
  <2>1. PICK t : t = Tail(s)
    OBVIOUS
  <2>2. k > 0
    BY <1>1, <1>3, EmptySeq
  <2>3. /\ t \in Seq(Messages) /\ Len(t) = k - 1 /\ Head(s) = s[1] /\ s[1] \in Messages
        /\ \A i \in 1 .. k - 1 : t[i] = s[i + 1]
    BY <1>1, <1>3, <2>1, <2>2, HeadTailProperties, ElementOfSeq
  <2>4. \A i \in 1 .. k : i = 1 \/ (i - 1 \in 1 .. k - 1 /\ t[i - 1] = s[i])
    <3>1. SUFFICES ASSUME NEW i \in 1 .. k, i # 1
                   PROVE  i - 1 \in 1 .. k - 1 /\ t[i - 1] = s[i]
      OBVIOUS
    <3>2. i - 1 \in 1 .. k - 1 /\ (i - 1) + 1 = i
      BY <3>1
    <3>3. QED
      BY <2>3, <3>2
  <2>5. \A x \in Among(s) : x \in {Head(s)} \cup Among(t)
    BY <1>1, <2>3, <2>4 DEF Among
  <2>6. \A x \in Among(t) : x \in Among(s)
    BY <1>1, <2>3 DEF Among
  <2>7. Head(s) \in Among(s)
    BY <1>1, <2>2, <2>3 DEF Among
  <2>8. QED
    BY <2>1, <2>3, <2>5, <2>6, <2>7
<1>4. ToSet(s) = Among(s)
  BY LenProperties DEF ToSet, Among
<1>5. QED
  BY <1>2, <1>3, <1>4

\* A message is on its way if one of its deliveries is.
LEMMA OnTheWayMeans ==
    ASSUME Typed, NEW m
    PROVE  OnTheWay(m) <=> \E delivery \in OnTheWire : delivery[1] = m
<1>1. down \in Seq(Sendings) /\ deferred \in Seq(Sendings) /\ batch \in Seq(Sendings)
  BY DEF Typed
<1>2. PICK u : u = down \o deferred
  OBVIOUS
<1>3. u \in Seq(Sendings) /\ Among(u) = Among(down) \cup Among(deferred)
  BY <1>1, <1>2, SendingsJoined
<1>4. PICK v : v = u \o batch
  OBVIOUS
<1>5. v \in Seq(Sendings) /\ Among(v) = Among(u) \cup Among(batch)
  BY <1>1, <1>3, <1>4, SendingsJoined
<1>6. ToSet(v) = Among(v)
  BY <1>5, LenProperties DEF ToSet, Among
<1>7. QED
  BY <1>2, <1>3, <1>4, <1>5, <1>6 DEF OnTheWay, OnTheWire, MessageOf

-----------------------------------------------------------------------------
\* Every variable keeps its type.

LEMMA AnswersMoved ==
    ASSUME NEW s \in Seq(Answers)
    PROVE  /\ \A e \in Answers : Append(s, e) \in Seq(Answers) /\ <<e>> \in Seq(Answers)
           /\ s # <<>> => Tail(s) \in Seq(Answers) /\ Head(s) \in Answers
<1>1. s # <<>> => Tail(s) \in Seq(Answers) /\ Head(s) \in Answers
  BY HeadTailProperties
<1>2. \A e \in Answers : Append(s, e) \in Seq(Answers)
  BY AppendProperties
<1>3. \A e \in Answers : <<e>> \in Seq(Answers)
  OBVIOUS
<1>4. QED
  BY <1>1, <1>2, <1>3

\* A delivery that may be written goes out with what was deferred.
LEMMA ReleaseTyped ==
    ASSUME Typed, NEW first \in Seq(Sendings), Release(first)
    PROVE  /\ batch' \in Seq(Sendings) /\ deferred' = <<>>
           /\ Among(batch') = Among(first) \cup Among(deferred)
           /\ Once(first) /\ Once(deferred) /\ (\A x \in Among(first) : x \notin Among(deferred))
                  => Once(batch')
<1>1. PICK back : back = Reverse(deferred)
  OBVIOUS
<1>2. /\ back \in Seq(Sendings) /\ Among(back) = Among(deferred)
      /\ Once(deferred) => Once(back)
  BY <1>1, SendingsReversed DEF Typed
<1>3. batch' = first \o back /\ deferred' = <<>>
  BY <1>1 DEF Release
<1>4. QED
  BY <1>2, <1>3, SendingsJoined

LEMMA TypedStarts ==
    ASSUME Init
    PROVE  Typed
<1>1. /\ state \in [Messages -> {"queued", "out", "settled"}] /\ count \in [Messages -> Nat]
      /\ inHand \in [Kinds -> SUBSET Sendings]
  BY DEF Init
<1>2. QED
  BY <1>1, Empty DEF Init, Typed

LEMMA TypedAtBroker ==
    ASSUME Typed, Broker
    PROVE  Typed'
<1> USE DEF Typed, broker, sockets, clientPump, serverPump, checker, history
<1>1. CASE TakeAck
  <2>1. toServer' \in Seq(Messages) /\ Head(toServer) \in Messages
    BY <1>1, MessagesMoved DEF TakeAck
  <2>2. state' \in [Messages -> {"queued", "out", "settled"}]
    BY <1>1 DEF TakeAck
  <2>3. QED
    BY <1>1, <2>1, <2>2 DEF TakeAck
<1>2. ASSUME NEW m \in Messages, Send(m)
      PROVE  Typed'
  <2>1. /\ state' \in [Messages -> {"queued", "out", "settled"}] /\ count' \in [Messages -> Nat]
        /\ <<m, count[m] + 1>> \in Sendings
    BY <1>2 DEF Send, Sendings
  <2>2. down' \in Seq(Sendings)
    BY <1>2, <2>1, SendingsAppended DEF Send
  <2>3. crossed' \in BOOLEAN
    BY <1>2, Zenon DEF Send
  <2>4. QED
    BY <1>2, <2>1, <2>2, <2>3 DEF Send
<1>3. ASSUME NEW m \in Messages, AckWaitEnds(m)
      PROVE  Typed'
  <2>1. state' \in [Messages -> {"queued", "out", "settled"}]
    BY <1>3 DEF AckWaitEnds
  <2>2. QED
    BY <1>3, <2>1 DEF AckWaitEnds
<1>4. QED
  BY <1>1, <1>2, <1>3 DEF Broker

LEMMA TypedAtService ==
    ASSUME Typed, Service \/ CloseSocket
    PROVE  Typed'
<1> USE DEF Typed, broker, sockets, clientPump, serverPump, checker, history
<1>1. CASE CloseSocket
  <2>1. clientOpen' \in BOOLEAN /\ serverOpen' \in BOOLEAN
    BY <1>1 DEF CloseSocket
  <2>2. UNCHANGED <<broker, connection, closed, clientPump, serverPump, remembered, inHand,
                    checker, history>>
    BY <1>1 DEF CloseSocket
  <2>3. QED
    BY <2>1, <2>2
<1>2. ASSUME NEW kind \in Kinds, NEW delivery \in inHand[kind], Answer(delivery, kind)
      PROVE  Typed'
  <2>1. delivery \in Sendings
    OBVIOUS
  <2>2. [delivery |-> delivery, kind |-> kind] \in Answers
    BY <2>1 DEF Answers
  <2>3. up' \in Seq(Answers)
    BY <1>2, <2>2, AnswersMoved DEF Answer
  <2>4. inHand' \in [Kinds -> SUBSET Sendings]
    BY <1>2 DEF Answer
  <2>5. QED
    <3>1. UNCHANGED <<broker, sockets, closed, clientPump, toServerPump, ack, remembered,
                      checker, history>>
      BY <1>2 DEF Answer
    <3>2. QED
      BY <2>3, <2>4, <3>1
<1>3. QED
  BY <1>1, <1>2 DEF Service

LEMMA TypedAtClient ==
    ASSUME Typed, ToClient
    PROVE  Typed'
<1> USE DEF Typed, broker, sockets, clientPump, serverPump, checker, history
<1>1. CASE ReadDelivery
  <2>1. PICK delivery \in Sendings : delivery = Head(down)
    BY <1>1, SendingsTail DEF ReadDelivery
  <2>2. down' \in Seq(Sendings)
    BY <1>1, SendingsTail DEF ReadDelivery
  <2>3. \/ Release(<<delivery>>) /\ UNCHANGED <<toClient, closed>>
        \/ UNCHANGED <<toClient, closed, batch, deferred>>
        \/ deferred' = Append(deferred, delivery) /\ UNCHANGED <<toClient, closed, batch>>
        \/ toClient' = "ended" /\ closed' = TRUE /\ deferred' = <<>> /\ UNCHANGED batch
    BY <1>1, <2>1 DEF ReadDelivery, CancelsTheOther
  <2>4. deferred' \in Seq(Sendings) /\ batch' \in Seq(Sendings)
    <3>1. CASE Release(<<delivery>>)
      BY <2>1, <3>1, One, Empty, ReleaseTyped
    <3>2. CASE UNCHANGED <<batch, deferred>>
      BY <3>2
    <3>3. CASE deferred' = Append(deferred, delivery) /\ UNCHANGED batch
      BY <2>1, <3>3, SendingsAppended
    <3>4. CASE deferred' = <<>> /\ UNCHANGED batch
      BY <3>4, Empty
    <3>5. QED
      BY <2>3, <3>1, <3>2, <3>3, <3>4
  <2>5. toClient' \in {"running", "draining", "ended"} /\ closed' \in BOOLEAN
    BY <2>3
  <2>6. UNCHANGED <<broker, sockets, serverPump, remembered, inHand, checker, history>>
    BY <1>1 DEF ReadDelivery
  <2>7. QED
    BY <2>2, <2>4, <2>5, <2>6
<1>2. CASE WriteDelivery
  <2>1. PICK delivery \in Sendings : delivery = Head(batch)
    BY <1>2, SendingsTail DEF WriteDelivery
  <2>2. batch' \in Seq(Sendings)
    BY <1>2, SendingsTail DEF WriteDelivery
  <2>3. remembered' \subseteq Sendings
    BY <1>2, <2>1 DEF WriteDelivery, Remember
  <2>4. inHand' \in [Kinds -> SUBSET Sendings] /\ received' \subseteq Nat \X Sendings
    BY <1>2, <2>1 DEF WriteDelivery
  <2>5. delivery[1] \in Messages
    BY <2>1 DEF Sendings
  <2>6. lastDelivered' \in Messages \cup {Nothing} /\ acked' = acked
    BY <1>2, <2>1, <2>5 DEF WriteDelivery, Delivered, MessageOf
  <2>7. fired' \in BOOLEAN
    BY <1>2, Zenon DEF WriteDelivery, Delivered
  <2>8. twice' \in BOOLEAN /\ overdue' \in BOOLEAN /\ cleared' \in BOOLEAN
    BY <1>2, Zenon DEF WriteDelivery, Remember
  <2>9. UNCHANGED <<broker, sockets, closed, down, toClient, deferred, serverPump,
                    settled, mistaken, crossed>>
    BY <1>2 DEF WriteDelivery
  <2>10. QED
    BY <2>2, <2>3, <2>4, <2>6, <2>7, <2>8, <2>9
<1>3. CASE StopDelivering
  <2>1. deferred' \in Seq(Sendings) /\ batch' \in Seq(Sendings)
    <3>1. \/ Release(<<>>)
          \/ UNCHANGED <<batch, deferred>>
      BY <1>3 DEF StopDelivering
    <3>2. QED
      BY <3>1, Empty, ReleaseTyped
  <2>2. /\ toClient' \in {"running", "draining", "ended"} /\ closed' \in BOOLEAN
        /\ UNCHANGED <<broker, sockets, down, serverPump, remembered, inHand, checker, history>>
    BY <1>3 DEF StopDelivering, CancelsTheOther
  <2>3. QED
    BY <2>1, <2>2
<1>4. CASE DeliveringFails
  BY <1>4, Empty DEF DeliveringFails, CancelsTheOther
<1>5. QED
  BY <1>1, <1>2, <1>3, <1>4 DEF ToClient

LEMMA TypedAtServer ==
    ASSUME Typed, ToServer
    PROVE  Typed'
<1> USE DEF Typed, broker, sockets, clientPump, serverPump, checker, history
<1>1. CASE ReadAck
  <2>1. up' \in Seq(Answers) /\ <<Head(up)>> \in Seq(Answers)
    BY <1>1, AnswersMoved DEF ReadAck
  <2>2. ack' = <<Head(up)>> \/ ack' = ack
    BY <1>1 DEF ReadAck
  <2>3. ack' \in Seq(Answers)
    BY <2>1, <2>2
  <2>4. UNCHANGED <<broker, sockets, closed, clientPump, toServerPump, remembered, inHand,
                    checker, history>>
    BY <1>1 DEF ReadAck
  <2>5. QED
    BY <2>1, <2>3, <2>4
<1>2. CASE WriteAck
  <2>1. PICK delivery \in Sendings : delivery = Head(ack).delivery
    BY <1>2, AnswersMoved DEF WriteAck, Answers
  <2>2. delivery[1] \in Messages
    BY <2>1 DEF Sendings
  <2>3. toServer' \in Seq(Messages) /\ ack' \in Seq(Answers)
    BY <1>2, <2>1, <2>2, MessagesMoved, Empty DEF WriteAck, MessageOf
  <2>4. lastDelivered' = lastDelivered /\ fired' = fired /\ acked' \subseteq Messages
    BY <1>2 DEF WriteAck, Acked
  <2>5. settled' \subseteq Messages
    BY <1>2, <2>1, <2>2 DEF WriteAck, MessageOf
  <2>6. mistaken' \in BOOLEAN /\ crossed' \in BOOLEAN
    BY <1>2, Zenon DEF WriteAck
  <2>7. UNCHANGED <<state, count, sockets, closed, clientPump, up, toServerPump, remembered,
                    inHand, received, twice, overdue, cleared>>
    BY <1>2 DEF WriteAck, KeepOnRead
  <2>8. QED
    BY <2>3, <2>4, <2>5, <2>6, <2>7
<1>3. CASE StopAnswering \/ AnsweringFails
  <2>1. toServerPump' = "ended" /\ closed' = TRUE /\ (ack' = ack \/ ack' = <<>>)
    BY <1>3 DEF StopAnswering, AnsweringFails, CancelsTheOther
  <2>2. UNCHANGED <<broker, sockets, clientPump, up, remembered, inHand, checker, history>>
    BY <1>3 DEF StopAnswering, AnsweringFails
  <2>3. ack' \in Seq(Answers) /\ closed' \in BOOLEAN
    BY <2>1, Empty
  <2>4. QED
    BY <2>1, <2>2, <2>3
<1>4. QED
  BY <1>1, <1>2, <1>3 DEF ToServer

LEMMA TypedKept ==
    ASSUME Typed, Next
    PROVE  Typed'
<1>1. CASE Reconnect
  <2>1. /\ connection' \in Nat
        /\ UNCHANGED <<broker, inHand, checker, history>>
    BY <1>1 DEF Reconnect, Typed
  <2>2. \/ UNCHANGED <<clientOpen, serverOpen, closed, clientPump, serverPump, remembered>>
        \/ /\ clientOpen' = TRUE /\ serverOpen' = TRUE /\ closed' = FALSE
           /\ down' = <<>> /\ toClient' = "running" /\ deferred' = <<>> /\ batch' = <<>>
           /\ up' = <<>> /\ toServerPump' = "running" /\ ack' = <<>> /\ remembered' = {}
    BY <1>1 DEF Reconnect
  <2>3. CASE UNCHANGED <<clientOpen, serverOpen, closed, clientPump, serverPump, remembered>>
    BY <2>1, <2>3 DEF Typed, broker, clientPump, serverPump, checker, history
  <2>4. CASE /\ clientOpen' = TRUE /\ serverOpen' = TRUE /\ closed' = FALSE
             /\ down' = <<>> /\ toClient' = "running" /\ deferred' = <<>> /\ batch' = <<>>
             /\ up' = <<>> /\ toServerPump' = "running" /\ ack' = <<>> /\ remembered' = {}
    BY <2>1, <2>4, Empty DEF Typed, broker, checker, history
  <2>5. QED
    BY <2>2, <2>3, <2>4
<1>2. QED
  BY <1>1, TypedAtBroker, TypedAtService, TypedAtClient, TypedAtServer DEF Next

-----------------------------------------------------------------------------
\* What each step does to the deliveries on their way.

LEMMA WireAtSend ==
    ASSUME Typed, Numbered, NEW m \in Messages, Send(m)
    PROVE  /\ Apart' /\ <<m, count[m] + 1>> \in Sendings
           /\ OnTheWire' = OnTheWire \cup {<<m, count[m] + 1>>}
           /\ <<m, count[m] + 1>> \notin Seen
<1>1. PICK k \in Nat : k = count[m]
  BY DEF Typed
<1>2. PICK new \in Sendings : new = <<m, k + 1>>
  <2>1. <<m, k + 1>> \in Messages \X Nat
    OBVIOUS
  <2>2. QED
    BY <2>1 DEF Sendings
<1>3. new[1] = m /\ new[2] = k + 1
  BY <1>2
<1>4. new \notin OnTheWire \cup Seen
  BY <1>1, <1>3 DEF Numbered
<1>5. down \in Seq(Sendings) /\ down' = Append(down, new) /\ UNCHANGED <<deferred, batch>>
  BY <1>1, <1>2 DEF Typed, Send
<1>6. Among(down') = Among(down) \cup {new} /\ Once(down')
  BY <1>4, <1>5, SendingsAppended DEF Numbered, Apart, OnTheWire
<1>7. OnTheWire' = OnTheWire \cup {new}
  BY <1>5, <1>6 DEF OnTheWire, Among
<1>8. Apart'
  <2>1. /\ Once(deferred) /\ Once(batch)
        /\ \A x \in Among(down') : x \notin Among(deferred) \cup Among(batch)
        /\ \A x \in Among(deferred) : x \notin Among(batch)
    BY <1>4, <1>6 DEF Numbered, Apart, OnTheWire
  <2>2. QED
    BY <1>5, <1>6, <2>1 DEF Apart
<1>9. QED
  BY <1>1, <1>2, <1>4, <1>7, <1>8

LEMMA WireAtRead ==
    ASSUME Typed, Apart, ReadDelivery
    PROVE  Apart' /\ OnTheWire' \subseteq OnTheWire
<1>1. down \in Seq(Sendings) /\ deferred \in Seq(Sendings) /\ batch = <<>> /\ down # <<>>
  BY DEF Typed, ReadDelivery
<1>2. PICK delivery \in Sendings : delivery = Head(down)
  BY <1>1, SendingsTail
<1>3. /\ Among(down) = {delivery} \cup Among(down') /\ Once(down')
      /\ delivery \notin Among(down')
  BY <1>1, <1>2, SendingsTail DEF ReadDelivery, Apart
<1>4. Among(batch) = {} /\ Once(<<>>) /\ Among(<<>>) = {}
  BY <1>1, Empty
<1>5. delivery \notin Among(deferred) /\ \A x \in Among(down') : x \notin Among(deferred)
  BY <1>3 DEF Apart
<1>6. Once(deferred)
  BY DEF Apart
<1>7. \/ Release(<<delivery>>)
      \/ UNCHANGED <<batch, deferred>>
      \/ deferred' = Append(deferred, delivery) /\ UNCHANGED batch
      \/ deferred' = <<>> /\ UNCHANGED batch
  BY <1>2 DEF ReadDelivery
<1>8. /\ Once(deferred') /\ Once(batch')
      /\ \A x \in Among(down') : x \notin Among(deferred') \cup Among(batch')
      /\ \A x \in Among(deferred') : x \notin Among(batch')
      /\ Among(deferred') \cup Among(batch') \subseteq Among(deferred) \cup {delivery}
  <2>1. CASE Release(<<delivery>>)
    <3>1. /\ <<delivery>> \in Seq(Sendings) /\ Among(<<delivery>>) = {delivery}
          /\ Once(<<delivery>>)
      BY <1>2, One
    <3>2. \A x \in Among(<<delivery>>) : x \notin Among(deferred)
      BY <1>5, <3>1
    <3>3. deferred' = <<>> /\ Once(batch') /\ Among(batch') = {delivery} \cup Among(deferred)
      BY <1>6, <2>1, <3>1, <3>2, ReleaseTyped
    <3>4. Among(deferred') = {} /\ Once(deferred')
      BY <1>4, <3>3
    <3>5. QED
      BY <1>3, <1>5, <3>3, <3>4
  <2>2. CASE UNCHANGED <<batch, deferred>>
    BY <1>1, <1>4, <1>5, <1>6, <2>2
  <2>3. CASE deferred' = Append(deferred, delivery) /\ UNCHANGED batch
    <3>1. Among(deferred') = Among(deferred) \cup {delivery} /\ Once(deferred')
      BY <1>1, <1>2, <1>5, <1>6, <2>3, SendingsAppended
    <3>2. Among(batch') = {} /\ Once(batch')
      BY <1>1, <1>4, <2>3
    <3>3. QED
      BY <1>3, <1>5, <3>1, <3>2
  <2>4. CASE deferred' = <<>> /\ UNCHANGED batch
    BY <1>1, <1>4, <2>4
  <2>5. QED
    BY <1>7, <2>1, <2>2, <2>3, <2>4
<1>9. QED
  <2>1. Apart'
    BY <1>3, <1>8 DEF Apart, Among, Once
  <2>2. OnTheWire' \subseteq OnTheWire
    BY <1>3, <1>8 DEF OnTheWire, Among
  <2>3. QED
    BY <2>1, <2>2

LEMMA WireAtWrite ==
    ASSUME Typed, Apart, WriteDelivery
    PROVE  /\ Apart' /\ OnTheWire' \subseteq OnTheWire
           /\ Head(batch) \in Sendings /\ Head(batch) \in OnTheWire /\ Head(batch) \notin OnTheWire'
<1>1. /\ batch \in Seq(Sendings) /\ batch # <<>> /\ batch' = Tail(batch)
      /\ UNCHANGED <<down, deferred>>
  BY DEF Typed, WriteDelivery
<1>2. PICK delivery \in Sendings : delivery = Head(batch)
  BY <1>1, SendingsTail
<1>3. /\ Among(batch) = {delivery} \cup Among(batch') /\ Once(batch')
      /\ delivery \notin Among(batch')
  BY <1>1, <1>2, SendingsTail DEF Apart
<1>4. Apart'
  <2>1. /\ Once(down) /\ Once(deferred)
        /\ \A x \in Among(down) : x \notin Among(deferred) \cup Among(batch')
        /\ \A x \in Among(deferred) : x \notin Among(batch')
    BY <1>3 DEF Apart
  <2>2. QED
    BY <1>1, <1>3, <2>1 DEF Apart
<1>5. OnTheWire' \subseteq OnTheWire /\ delivery \in OnTheWire
  BY <1>1, <1>3 DEF OnTheWire, Among
<1>6. delivery \notin OnTheWire'
  BY <1>1, <1>3 DEF Apart, OnTheWire, Among
<1>7. QED
  BY <1>2, <1>4, <1>5, <1>6

LEMMA WireAtStop ==
    ASSUME Typed, Apart, StopDelivering \/ DeliveringFails
    PROVE  Apart' /\ OnTheWire' \subseteq OnTheWire
<1>1. Once(<<>>) /\ Among(<<>>) = {} /\ <<>> \in Seq(Sendings)
  BY Empty
<1>2. UNCHANGED down
  BY DEF StopDelivering, DeliveringFails
<1>3. CASE UNCHANGED <<batch, deferred>>
  BY <1>2, <1>3 DEF Apart, OnTheWire, Among, Once
<1>4. CASE batch' = <<>> /\ deferred' = <<>>
  <2>1. Once(batch') /\ Once(deferred') /\ Among(batch') = {} /\ Among(deferred') = {}
    BY <1>1, <1>4
  <2>2. QED
    BY <1>2, <2>1 DEF Apart, OnTheWire, Among, Once
<1>5. CASE Release(<<>>)
  <2>1. deferred' = <<>> /\ Among(batch') = Among(deferred) /\ Once(batch')
    BY <1>1, <1>5, ReleaseTyped DEF Apart
  <2>2. Once(deferred') /\ Among(deferred') = {}
    BY <1>1, <2>1
  <2>3. QED
    BY <1>2, <2>1, <2>2 DEF Apart, OnTheWire, Among, Once
<1>6. QED
  BY <1>3, <1>4, <1>5 DEF StopDelivering, DeliveringFails

LEMMA WireAtReconnect ==
    ASSUME Typed, Apart, Reconnect
    PROVE  Apart' /\ OnTheWire' \subseteq OnTheWire
<1>1. \/ UNCHANGED <<down, deferred, batch>>
      \/ down' = <<>> /\ deferred' = <<>> /\ batch' = <<>>
  BY DEF Reconnect, clientPump
<1>2. CASE UNCHANGED <<down, deferred, batch>>
  BY <1>2 DEF Apart, OnTheWire, Among, Once
<1>3. CASE down' = <<>> /\ deferred' = <<>> /\ batch' = <<>>
  <2>1. /\ Among(down') = {} /\ Among(deferred') = {} /\ Among(batch') = {}
        /\ Once(down') /\ Once(deferred') /\ Once(batch')
    BY <1>3, Empty
  <2>2. QED
    BY <2>1 DEF Apart, OnTheWire, Among, Once
<1>4. QED
  BY <1>1, <1>2, <1>3

\* The steps of the server but sending, of the service and of the pump of acks
\* leave what is on its way alone.
Aside == TakeAck \/ (\E m \in Messages : AckWaitEnds(m)) \/ Service \/ CloseSocket \/ ToServer

LEMMA WireAside ==
    ASSUME Apart, Aside
    PROVE  /\ Apart' /\ OnTheWire' \subseteq OnTheWire
           /\ UNCHANGED <<down, deferred, batch, count, received>>
<1>1. UNCHANGED <<down, deferred, batch, count, received>>
  BY DEF Aside, TakeAck, AckWaitEnds, Service, Answer, CloseSocket, ToServer, ReadAck,
     WriteAck,
         StopAnswering, AnsweringFails, broker, clientPump, history
<1>2. Apart' /\ OnTheWire' \subseteq OnTheWire
  BY <1>1 DEF Apart, OnTheWire
<1>3. QED
  BY <1>1, <1>2

LEMMA NextCases ==
    ASSUME Next
    PROVE  \/ \E m \in Messages : Send(m)
           \/ ReadDelivery \/ WriteDelivery \/ StopDelivering \/ DeliveringFails \/ Reconnect
           \/ Aside
BY DEF Next, Broker, ToClient, Aside

LEMMA FreshKept ==
    ASSUME Typed, Numbered, Next
    PROVE  Numbered'
<1> USE DEF Numbered
<1>1. ASSUME NEW m \in Messages, Send(m)
      PROVE  Numbered'
  <2>1. PICK k \in Nat : k = count[m]
    BY DEF Typed
  <2>2. PICK new \in Sendings : new = <<m, k + 1>>
    <3>1. <<m, k + 1>> \in Messages \X Nat
      OBVIOUS
    <3>2. QED
      BY <3>1 DEF Sendings
  <2>3. new[1] = m /\ new[2] = k + 1
    BY <2>2
  <2>4. Apart' /\ OnTheWire' = OnTheWire \cup {new} /\ new \notin Seen
    BY <1>1, <2>1, <2>2, WireAtSend
  <2>5. Seen' = Seen
    BY <1>1 DEF Send, Seen
  <2>6. \A delivery \in OnTheWire' : delivery \notin Seen'
    BY <2>4, <2>5
  <2>7. count' = [count EXCEPT ![m] = k + 1] /\ count \in [Messages -> Nat]
    BY <1>1, <2>1 DEF Send, Typed
  <2>8. OnTheWire \cup Seen \subseteq Sendings
    BY SendingsTyped DEF Typed, OnTheWire, Seen
  <2>9. ASSUME NEW delivery \in OnTheWire \cup Seen
        PROVE  delivery[2] <= count'[delivery[1]]
    <3>1. delivery[1] \in Messages /\ delivery[2] \in Nat /\ delivery[2] <= count[delivery[1]]
      BY <2>8 DEF Sendings
    <3>2. count'[delivery[1]] = IF delivery[1] = m THEN k + 1 ELSE count[delivery[1]]
      BY <2>7, <3>1
    <3>3. QED
      BY <2>1, <3>1, <3>2
  <2>10. new[2] <= count'[new[1]]
    BY <2>3, <2>7
  <2>11. QED
    BY <2>4, <2>5, <2>6, <2>9, <2>10
<1>2. CASE WriteDelivery
  <2>1. PICK delivery \in Sendings : delivery = Head(batch)
    BY <1>2, WireAtWrite
  <2>2. Apart' /\ OnTheWire' \subseteq OnTheWire /\ delivery \in OnTheWire
    BY <1>2, <2>1, WireAtWrite
  <2>2a. delivery \notin OnTheWire'
    BY <1>2, <2>1, WireAtWrite
  <2>3. received' = received \cup {<<connection, delivery>>} /\ count' = count
    BY <1>2, <2>1 DEF WriteDelivery, broker
  <2>4. Seen' = Seen \cup {delivery}
    <3>1. <<connection, delivery>>[2] = delivery
      OBVIOUS
    <3>2. \A x \in Seen' : x \in Seen \cup {delivery}
      BY <2>3, <3>1 DEF Seen
    <3>3. \A x \in Seen \cup {delivery} : x \in Seen'
      BY <2>3, <3>1 DEF Seen
    <3>4. QED
      BY <3>2, <3>3
  <2>5. QED
    BY <2>2, <2>2a, <2>3, <2>4
<1>3. ASSUME Apart', OnTheWire' \subseteq OnTheWire, UNCHANGED <<count, received>>
      PROVE  Numbered'
  <2>1. Seen' = Seen
    BY <1>3 DEF Seen
  <2>2. QED
    BY <1>3, <2>1
<1>4. CASE ReadDelivery \/ StopDelivering \/ DeliveringFails \/ Reconnect
  <2>1. UNCHANGED <<count, received>>
    BY <1>4 DEF ReadDelivery, StopDelivering, DeliveringFails, Reconnect, broker, history
  <2>2. QED
    BY <1>3, <1>4, <2>1, WireAtRead, WireAtStop, WireAtReconnect
<1>5. QED
  BY <1>1, <1>2, <1>3, <1>4, NextCases, WireAside

-----------------------------------------------------------------------------
\* An ack in hand, and the table of pending acks.

LEMMA AckInHandKept ==
    ASSUME AckInHand, Next
    PROVE  AckInHand'
<1>1. CASE UNCHANGED <<ack, toServerPump>>
  BY <1>1 DEF AckInHand
<1>2. CASE ReadAck
  BY <1>2 DEF AckInHand, ReadAck
<1>3. CASE WriteAck
  BY <1>3 DEF AckInHand, WriteAck
<1>4. CASE StopAnswering \/ AnsweringFails
  BY <1>4 DEF AckInHand, StopAnswering, AnsweringFails
<1>5. CASE Reconnect
  BY <1>5 DEF AckInHand, Reconnect, serverPump
<1>6. CASE Broker \/ Service \/ CloseSocket \/ ToClient
  <2>1. UNCHANGED <<ack, toServerPump>>
    BY <1>6 DEF Broker, TakeAck, Send, AckWaitEnds, Service, Answer, CloseSocket, ToClient,
           ReadDelivery, WriteDelivery, StopDelivering, DeliveringFails, serverPump
  <2>2. QED
    BY <1>1, <2>1
<1>7. QED
  BY <1>2, <1>3, <1>4, <1>5, <1>6 DEF Next, ToServer

\* A step that neither delivers nor connects leaves what the table is about.
LEMMA TableAside ==
    ASSUME Next, ~WriteDelivery, ~Reconnect
    PROVE  /\ UNCHANGED <<connection, received, remembered, cleared>>
           /\ toServerPump' = "running" => toServerPump = "running"
<1>1. CASE Broker \/ Service \/ CloseSocket
  BY <1>1 DEF Broker, TakeAck, Send, AckWaitEnds, Service, Answer, CloseSocket, sockets,
     history,
         serverPump
<1>2. CASE ToClient
  BY <1>2 DEF ToClient, ReadDelivery, StopDelivering, DeliveringFails, sockets, serverPump,
     history
<1>3. CASE ToServer
  BY <1>3 DEF ToServer, ReadAck, WriteAck, KeepOnRead, StopAnswering, AnsweringFails, sockets,
         history
<1>4. QED
  BY <1>1, <1>2, <1>3 DEF Next

LEMMA TableIsTrueKept ==
    ASSUME Typed, TableIsTrue, Next
    PROVE  TableIsTrue'
<1>1. PICK n \in Nat : n = connection
  BY DEF Typed
<1>2. CASE ~WriteDelivery /\ ~Reconnect
  BY <1>2, TableAside DEF TableIsTrue
<1>3. CASE WriteDelivery
  <2>1. PICK delivery \in Sendings : delivery = Head(batch)
    BY <1>3, SendingsTail DEF WriteDelivery, Typed
  <2>2. received' = received \cup {<<n, delivery>>}
    BY <1>1, <1>3, <2>1 DEF WriteDelivery
  <2>3. connection' = n /\ toServerPump' = toServerPump
    BY <1>1, <1>3 DEF WriteDelivery, sockets, serverPump
  <2>4. \/ remembered' = remembered \cup {delivery}
        \/ remembered' = {delivery} /\ cleared'
    BY <1>3, <2>1 DEF WriteDelivery, Remember
  <2>5. cleared => cleared'
    BY <1>3, Zenon DEF WriteDelivery, Remember
  <2>6. \A receipt \in received' : receipt[1] <= connection'
    BY <1>1, <2>2, <2>3 DEF TableIsTrue
  <2>7. ASSUME toServerPump' = "running"
        PROVE  /\ \A sending \in remembered' : <<connection', sending>> \in received'
               /\ \A receipt \in received' :
                      receipt[1] = connection' => receipt[2] \in remembered' \/ cleared'
    <3>1. /\ \A sending \in remembered : <<n, sending>> \in received
          /\ \A receipt \in received :
                 receipt[1] = n => receipt[2] \in remembered \/ cleared
      BY <1>1, <2>3, <2>7 DEF TableIsTrue
    <3>2. \A sending \in remembered' : <<connection', sending>> \in received'
      BY <2>2, <2>3, <2>4, <3>1
    <3>3. ASSUME NEW receipt \in received', receipt[1] = n
          PROVE  receipt[2] \in remembered' \/ cleared'
      <4>1. CASE receipt \in received
        BY <2>4, <2>5, <3>1, <3>3, <4>1
      <4>2. CASE receipt = <<n, delivery>>
        BY <2>4, <4>2
      <4>3. QED
        BY <2>2, <3>3, <4>1, <4>2
    <3>4. QED
      BY <2>3, <3>2, <3>3
  <2>8. QED
    BY <2>6, <2>7 DEF TableIsTrue
<1>4. CASE Reconnect
  <2>1. connection' = n + 1 /\ received' = received
    BY <1>1, <1>4 DEF Reconnect, history
  <2>2. \/ remembered' = {}
        \/ toServerPump' = "ended"
    BY <1>4 DEF Reconnect, serverPump
  <2>3. received \subseteq Nat \X Sendings
    BY DEF Typed
  <2>4. \A receipt \in received : receipt[1] \in Nat /\ receipt[1] <= n
    BY <1>1, <2>3 DEF TableIsTrue
  <2>5. \A receipt \in received' : receipt[1] <= connection' /\ receipt[1] # connection'
    BY <2>1, <2>4
  <2>6. CASE remembered' = {}
    BY <2>5, <2>6 DEF TableIsTrue
  <2>7. CASE toServerPump' = "ended"
    BY <2>5, <2>7 DEF TableIsTrue
  <2>8. QED
    BY <2>2, <2>6, <2>7
<1>5. QED
  BY <1>2, <1>3, <1>4

-----------------------------------------------------------------------------
\* What the service acked: as the checker takes it, and as it was meant.

\* The checker charges the ack to the last delivery exactly when the table has
\* the delivery; it was then delivered on this connection.
LEMMA AckCharged ==
    ASSUME Typed, AckInHand, TableIsTrue, WriteAck,
           NEW delivery, delivery = Head(ack).delivery
    PROVE  /\ delivery \in Sendings /\ delivery[1] \in Messages
           /\ delivery \in remembered => <<connection, delivery>> \in received
           /\ <<connection, delivery>> \in received => delivery \in remembered \/ cleared
<1>1. delivery \in Sendings
  BY AnswersMoved DEF Typed, WriteAck, Answers
<1>2. delivery[1] \in Messages
  BY <1>1 DEF Sendings
<1>3. toServerPump = "running"
  BY DEF WriteAck, AckInHand
<1>4. delivery \in remembered => <<connection, delivery>> \in received
  BY <1>3 DEF TableIsTrue
<1>5. <<connection, delivery>>[1] = connection /\ <<connection, delivery>>[2] = delivery
  OBVIOUS
<1>6. <<connection, delivery>> \in received => delivery \in remembered \/ cleared
  BY <1>3, <1>5 DEF TableIsTrue
<1>7. QED
  BY <1>1, <1>2, <1>4, <1>6

\* The steps that touch neither what was sent or acked nor the two flags.
LEMMA VerdictAside ==
    ASSUME Next, ~Broker, ~WriteAck
    PROVE  /\ UNCHANGED <<state, toServer, acked, mistaken, crossed, settled>>
           /\ cleared => cleared'
<1>1. CASE Service \/ CloseSocket \/ Reconnect
  <2>1. UNCHANGED <<broker, checker, history>>
    BY <1>1 DEF Service, Answer, CloseSocket, Reconnect
  <2>2. QED
    BY <2>1 DEF broker, checker, history
<1>2. CASE ReadDelivery \/ StopDelivering \/ DeliveringFails
  BY <1>2 DEF ReadDelivery, StopDelivering, DeliveringFails, broker, checker, history
<1>3. CASE WriteDelivery
  <2>1. cleared => cleared'
    BY <1>3, Zenon DEF WriteDelivery, Remember
  <2>2. UNCHANGED <<state, toServer, acked, mistaken, crossed, settled>>
    BY <1>3 DEF WriteDelivery, Delivered, broker
  <2>3. QED
    BY <2>1, <2>2
<1>4. CASE ReadAck \/ StopAnswering \/ AnsweringFails
  BY <1>4 DEF ReadAck, StopAnswering, AnsweringFails, broker, checker, history
<1>5. QED
  BY <1>1, <1>2, <1>3, <1>4 DEF Next, ToClient, ToServer

LEMMA AckedIsOverKept ==
    ASSUME Typed, Numbered, AckInHand, TableIsTrue, AckedIsOver, Next
    PROVE  AckedIsOver'
<1>1. ASSUME NEW sent \in Messages, Send(sent)
      PROVE  AckedIsOver'
  <2>1. SUFFICES ASSUME NEW m \in acked', ~mistaken', ~crossed'
                 PROVE  /\ \A delivery \in OnTheWire' : delivery[1] # m
                        /\ m \in Among(toServer') \/ state'[m] = "settled"
    BY DEF AckedIsOver
  <2>2. UNCHANGED <<acked, toServer, mistaken>> /\ ~mistaken
    BY <1>1, <2>1 DEF Send, checker
  <2>3. ~crossed /\ sent \notin ToSet(toServer)
    BY <1>1, <2>1, Zenon DEF Send
  <2>4. sent \notin Among(toServer)
    BY <2>3, MessagesMoved DEF Typed
  <2>5. /\ m \in Messages
        /\ \A delivery \in OnTheWire : delivery[1] # m
        /\ m \in Among(toServer) \/ state[m] = "settled"
    BY <2>1, <2>2, <2>3 DEF AckedIsOver, Typed
  <2>6. state[sent] = "queued" /\ state' = [state EXCEPT ![sent] = "out"]
    BY <1>1 DEF Send
  <2>7. m # sent
    BY <2>4, <2>5, <2>6
  <2>8. state'[m] = state[m]
    BY <2>5, <2>6, <2>7 DEF Typed
  <2>9. OnTheWire' = OnTheWire \cup {<<sent, count[sent] + 1>>}
    BY <1>1, WireAtSend
  <2>10. \A delivery \in OnTheWire' : delivery[1] # m
    BY <2>5, <2>7, <2>9
  <2>11. m \in Among(toServer') \/ state'[m] = "settled"
    BY <2>2, <2>5, <2>8
  <2>12. QED
    BY <2>10, <2>11
<1>2. CASE WriteAck
  <2>1. PICK delivery : delivery = Head(ack).delivery
    OBVIOUS
  <2>2. PICK of : of = delivery[1]
    OBVIOUS
  <2>3. /\ delivery \in Sendings /\ of \in Messages
        /\ delivery \in remembered => <<connection, delivery>> \in received
    BY <1>2, <2>1, <2>2, AckCharged
  <2>4. PICK kind : kind = Head(ack).kind
    OBVIOUS
  <2>5. SUFFICES ASSUME NEW m \in acked', ~mistaken', ~crossed'
                 PROVE  /\ \A sending \in OnTheWire' : sending[1] # m
                        /\ m \in Among(toServer') \/ state'[m] = "settled"
    BY DEF AckedIsOver
  <2>6. UNCHANGED <<state, down, deferred, batch>>
    BY <1>2 DEF WriteAck, clientPump
  <2>7. OnTheWire' = OnTheWire
    BY <2>6 DEF OnTheWire
  <2>8. ~mistaken /\ (kind = "ack" /\ <<connection, delivery>> \in received => lastDelivered = of)
    BY <1>2, <2>1, <2>2, <2>4, <2>5, Zenon DEF WriteAck, MessageOf
  <2>9. ~crossed /\ (kind = "ack" => ~OnTheWay(of))
    BY <1>2, <2>1, <2>2, <2>4, <2>5, Zenon DEF WriteAck, MessageOf
  <2>10. toServer' = IF kind = "ack" THEN Append(toServer, of) ELSE toServer
    BY <1>2, <2>1, <2>2, <2>4 DEF WriteAck, MessageOf
  <2>11. Among(toServer) \subseteq Among(toServer') /\ (kind = "ack" => of \in Among(toServer'))
    BY <2>3, <2>10, MessagesMoved DEF Typed
  <2>12. \/ acked' = acked
         \/ /\ kind = "ack" /\ delivery \in remembered
            /\ acked' = acked \cup ({lastDelivered} \ {Nothing})
    BY <1>2, <2>1, <2>4 DEF WriteAck, Acked, Settles, checker
  <2>13. CASE m \in acked
    <3>1. /\ \A sending \in OnTheWire : sending[1] # m
          /\ m \in Among(toServer) \/ state[m] = "settled"
      BY <2>8, <2>9, <2>13 DEF AckedIsOver
    <3>2. QED
      BY <2>6, <2>7, <2>11, <3>1
  <2>14. CASE m \notin acked
    <3>1. kind = "ack" /\ delivery \in remembered /\ m = lastDelivered
      BY <2>5, <2>12, <2>14
    <3>2. m = of
      BY <2>3, <2>8, <3>1
    <3>3. \A sending \in OnTheWire : sending[1] # m
      BY <2>9, <3>1, <3>2, OnTheWayMeans
    <3>4. QED
      BY <2>7, <2>11, <3>1, <3>2, <3>3
  <2>15. QED
    BY <2>13, <2>14
<1>3. CASE TakeAck
  <2>1. PICK taken \in Messages : taken = Head(toServer)
    BY <1>3, MessagesMoved DEF TakeAck, Typed
  <2>2. Among(toServer) = {taken} \cup Among(toServer')
    BY <1>3, <2>1, MessagesMoved DEF TakeAck, Typed
  <2>3. state' = [state EXCEPT ![taken] = "settled"]
    BY <1>3, <2>1 DEF TakeAck
  <2>4. UNCHANGED <<acked, mistaken, crossed, down, deferred, batch>>
    BY <1>3 DEF TakeAck, checker, history, clientPump
  <2>5. OnTheWire' = OnTheWire
    BY <2>4 DEF OnTheWire
  <2>6. ASSUME NEW m \in acked, m \in Among(toServer) \/ state[m] = "settled"
        PROVE  m \in Among(toServer') \/ state'[m] = "settled"
    <3>1. m \in Messages /\ state \in [Messages -> {"queued", "out", "settled"}]
      BY DEF Typed
    <3>2. QED
      BY <2>2, <2>3, <2>6, <3>1
  <2>7. QED
    BY <2>4, <2>5, <2>6 DEF AckedIsOver
<1>4. ASSUME NEW waiting \in Messages, AckWaitEnds(waiting)
      PROVE  AckedIsOver'
  <2>1. state[waiting] = "out" /\ state' = [state EXCEPT ![waiting] = "queued"]
    BY <1>4 DEF AckWaitEnds
  <2>2. UNCHANGED <<acked, mistaken, crossed, down, deferred, batch, toServer>>
    BY <1>4 DEF AckWaitEnds, checker, history, clientPump
  <2>3. OnTheWire' = OnTheWire
    BY <2>2 DEF OnTheWire
  <2>4. \A m \in acked : state[m] = "settled" => state'[m] = "settled"
    BY <2>1 DEF Typed
  <2>5. QED
    BY <2>2, <2>3, <2>4 DEF AckedIsOver
<1>5. CASE ~Broker /\ ~WriteAck
  <2>1. UNCHANGED <<state, toServer, acked, mistaken, crossed>>
    BY <1>5, VerdictAside
  <2>2. OnTheWire' \subseteq OnTheWire
    <3>1. ~\E m \in Messages : Send(m)
      BY <1>5 DEF Broker
    <3>2. Apart
      BY DEF Numbered
    <3>3. QED
      BY <3>1, <3>2, NextCases, WireAtRead, WireAtWrite, WireAtStop, WireAtReconnect, WireAside
  <2>3. QED
    BY <2>1, <2>2 DEF AckedIsOver
<1>6. QED
  BY <1>1, <1>2, <1>3, <1>4, <1>5 DEF Broker

LEMMA SettledIsAckedKept ==
    ASSUME Typed, AckInHand, TableIsTrue, SettledIsAcked, Next
    PROVE  SettledIsAcked'
<1>1. CASE WriteAck
  <2>1. PICK delivery : delivery = Head(ack).delivery
    OBVIOUS
  <2>2. PICK of : of = delivery[1]
    OBVIOUS
  <2>3. /\ of \in Messages
        /\ <<connection, delivery>> \in received => delivery \in remembered \/ cleared
    BY <1>1, <2>1, <2>2, AckCharged
  <2>4. PICK kind : kind = Head(ack).kind
    OBVIOUS
  <2>5. /\ cleared' = cleared
        /\ settled' = IF kind = "ack" /\ <<connection, delivery>> \in received /\ lastDelivered = of
                      THEN settled \cup {of} ELSE settled
    BY <1>1, <2>1, <2>2, <2>4 DEF WriteAck, MessageOf
  <2>6. /\ acked \subseteq acked'
        /\ kind = "ack" /\ delivery \in remembered
               => acked' = acked \cup ({lastDelivered} \ {Nothing})
    BY <1>1, <2>1, <2>4 DEF WriteAck, Acked, Settles, checker
  <2>7. of # Nothing
    BY <2>3, MessagesAssumption DEF Nothing
  <2>8. ASSUME NEW m \in settled', ~cleared'
        PROVE  m \in acked'
    <3>1. CASE m \in settled
      BY <2>5, <2>6, <2>8, <3>1 DEF SettledIsAcked
    <3>2. CASE m \notin settled
      BY <2>3, <2>5, <2>6, <2>7, <2>8, <3>2
    <3>3. QED
      BY <3>1, <3>2
  <2>9. QED
    BY <2>8 DEF SettledIsAcked
<1>2. CASE Broker
  <2>1. UNCHANGED <<acked, settled, cleared>>
    BY <1>2 DEF Broker, TakeAck, Send, AckWaitEnds, checker, history
  <2>2. QED
    BY <2>1 DEF SettledIsAcked
<1>3. CASE ~Broker /\ ~WriteAck
  BY <1>3, VerdictAside DEF SettledIsAcked
<1>4. QED
  BY <1>1, <1>2, <1>3

-----------------------------------------------------------------------------
\* The verdicts.

LEMMA VerdictKept ==
    ASSUME Next, ~WriteDelivery
    PROVE  /\ UNCHANGED <<fired, twice, overdue>>
           /\ (mistaken => mistaken') /\ (crossed => crossed') /\ (cleared => cleared')
<1>1. ASSUME NEW m \in Messages, Send(m)
      PROVE  /\ UNCHANGED <<fired, twice, overdue, mistaken, cleared>>
             /\ crossed => crossed'
  <2>1. UNCHANGED <<fired, twice, overdue, mistaken, cleared>>
    BY <1>1 DEF Send, checker
  <2>2. crossed => crossed'
    BY <1>1, Zenon DEF Send
  <2>3. QED
    BY <2>1, <2>2
<1>2. CASE TakeAck \/ (\E m \in Messages : AckWaitEnds(m)) \/ Service \/ CloseSocket
           \/ Reconnect
  <2>1. UNCHANGED <<checker, history>>
    BY <1>2 DEF TakeAck, AckWaitEnds, Service, Answer, CloseSocket, Reconnect
  <2>2. QED
    BY <2>1 DEF checker, history
<1>3. CASE ReadDelivery \/ StopDelivering \/ DeliveringFails
  BY <1>3 DEF ReadDelivery, StopDelivering, DeliveringFails, checker, history
<1>4. CASE ReadAck \/ StopAnswering \/ AnsweringFails
  BY <1>4 DEF ReadAck, StopAnswering, AnsweringFails, checker, history
<1>5. CASE WriteAck
  <2>1. UNCHANGED <<fired, twice, overdue, cleared>>
    BY <1>5 DEF WriteAck, Acked, checker
  <2>2. (mistaken => mistaken') /\ (crossed => crossed')
    BY <1>5, Zenon DEF WriteAck
  <2>3. QED
    BY <2>1, <2>2
<1>6. QED
  BY <1>1, <1>2, <1>3, <1>4, <1>5 DEF Next, Broker, ToClient, ToServer

LEMMA FiresForAReasonKept ==
    ASSUME Typed, Numbered, AckedIsOver, FiresForAReason, Next
    PROVE  FiresForAReason'
<1>1. CASE WriteDelivery
  <2>1. UNCHANGED <<mistaken, crossed>>
    BY <1>1 DEF WriteDelivery
  <2>2. CASE Head(batch)[1] \in acked
    <3>1. Head(batch) \in OnTheWire
      BY <1>1, WireAtWrite DEF Numbered
    <3>2. mistaken \/ crossed
      BY <2>2, <3>1 DEF AckedIsOver
    <3>3. QED
      BY <2>1, <3>2 DEF FiresForAReason
  <2>3. CASE Head(batch)[1] \notin acked
    <3>1. fired' = fired
      BY <1>1, <2>3 DEF WriteDelivery, Delivered, MessageOf
    <3>2. QED
      BY <2>1, <3>1 DEF FiresForAReason
  <2>4. QED
    BY <2>2, <2>3
<1>2. CASE ~WriteDelivery
  BY <1>2, VerdictKept DEF FiresForAReason
<1>3. QED
  BY <1>1, <1>2

LEMMA RedeliveryIsReportedKept ==
    ASSUME Typed, Numbered, SettledIsAcked, RedeliveryIsReported, Next
    PROVE  RedeliveryIsReported'
<1>1. CASE WriteDelivery
  <2>1. PICK delivery : delivery = Head(batch)
    OBVIOUS
  <2>2. delivery \in OnTheWire
    BY <1>1, <2>1, WireAtWrite DEF Numbered
  <2>3. delivery \notin Seen
    BY <2>2 DEF Numbered
  <2>4. ~\E n \in 1..connection : <<n, delivery>> \in received
    <3>1. ASSUME NEW n, <<n, delivery>> \in received
          PROVE  FALSE
      <4>1. <<n, delivery>>[2] = delivery
        OBVIOUS
      <4>2. QED
        BY <2>3, <3>1, <4>1 DEF Seen
    <3>2. QED
      BY <3>1
  <2>5. ~twice'
    BY <1>1, <2>1, <2>4, Zenon DEF WriteDelivery, RedeliveryIsReported
  <2>6. cleared => cleared'
    BY <1>1, Zenon DEF WriteDelivery, Remember
  <2>7. /\ delivery[1] \in acked => fired'
        /\ delivery[1] \notin acked => fired' = fired
    BY <1>1, <2>1 DEF WriteDelivery, Delivered, MessageOf
  <2>8. overdue' => overdue \/ delivery[1] \in settled
    BY <1>1, <2>1, Zenon DEF WriteDelivery, MessageOf
  <2>9. fired => fired'
    BY <2>7
  <2>10. delivery[1] \in settled => delivery[1] \in acked \/ cleared
    BY DEF SettledIsAcked
  <2>11. overdue => fired \/ cleared
    BY DEF RedeliveryIsReported
  <2>12. overdue' => fired' \/ cleared'
    BY <2>6, <2>7, <2>8, <2>9, <2>10, <2>11, Zenon
  <2>13. QED
    BY <2>5, <2>12 DEF RedeliveryIsReported
<1>2. CASE ~WriteDelivery
  <2>1. UNCHANGED <<fired, twice, overdue>> /\ (cleared => cleared')
    BY <1>2, VerdictKept
  <2>2. QED
    BY <2>1 DEF RedeliveryIsReported
<1>3. QED
  BY <1>1, <1>2

-----------------------------------------------------------------------------
\* The theorems.

LEMMA NatsInvStarts ==
    ASSUME Init
    PROVE  NatsInv
<1>1. Typed
  BY TypedStarts
<1>2. received = {} /\ acked = {} /\ settled = {} /\ remembered = {} /\ ack = <<>>
  BY DEF Init
<1>3. ~fired /\ ~twice /\ ~overdue
  BY DEF Init
<1>4. /\ Among(down) = {} /\ Among(deferred) = {} /\ Among(batch) = {}
      /\ Once(down) /\ Once(deferred) /\ Once(batch)
  BY Empty DEF Init
<1>5. Numbered
  BY <1>2, <1>4 DEF Numbered, Apart, OnTheWire, Seen
<1>6. AckInHand /\ TableIsTrue /\ AckedIsOver /\ SettledIsAcked
  BY <1>2 DEF AckInHand, TableIsTrue, AckedIsOver, SettledIsAcked
<1>7. FiresForAReason /\ RedeliveryIsReported
  BY <1>3 DEF FiresForAReason, RedeliveryIsReported
<1>8. QED
  BY <1>1, <1>5, <1>6, <1>7 DEF NatsInv

LEMMA NatsInvKept ==
    ASSUME NatsInv, [Next]_vars
    PROVE  NatsInv'
<1> USE DEF NatsInv
<1>1. CASE Next
  BY <1>1, TypedKept, FreshKept, AckInHandKept, TableIsTrueKept, AckedIsOverKept,
     SettledIsAckedKept, FiresForAReasonKept, RedeliveryIsReportedKept
<1>2. CASE UNCHANGED vars
  <2>1. UNCHANGED <<state, count, toServer, connection, clientOpen, serverOpen, closed, down,
                    toClient, deferred, batch, up, toServerPump, ack, remembered, inHand>>
    BY <1>2 DEF vars, broker, sockets, clientPump, serverPump
  <2>2. UNCHANGED <<lastDelivered, acked, fired, received, twice, settled, overdue, mistaken,
                    crossed, cleared>>
    BY <1>2 DEF vars, checker, history
  <2>3. Typed'
    BY <2>1, <2>2 DEF Typed
  <2>4. Numbered' /\ AckInHand' /\ TableIsTrue'
    BY <2>1, <2>2 DEF Numbered, Apart, OnTheWire, Seen, AckInHand, TableIsTrue
  <2>5. AckedIsOver' /\ SettledIsAcked' /\ FiresForAReason' /\ RedeliveryIsReported'
    BY <2>1, <2>2 DEF AckedIsOver, OnTheWire, SettledIsAcked, FiresForAReason,
       RedeliveryIsReported
  <2>6. QED
    BY <2>3, <2>4, <2>5
<1>3. QED
  BY <1>1, <1>2

\* Every variable of the connection, of the server and of the checker keeps the
\* type the code gives it, through reconnections (NatsProxy and the pumps of
\* proxy/nats.rs).
THEOREM TypeCorrect == Spec => []Typed
<1>1. Init => NatsInv
  BY NatsInvStarts
<1>2. NatsInv /\ [Next]_vars => NatsInv'
  BY NatsInvKept
<1>3. NatsInv => Typed
  BY DEF NatsInv
<1>4. QED
  BY <1>1, <1>2, <1>3, PTL DEF Spec

\* no_delivery_after_ack fires only where an ack was charged to a message it was
\* not for or passed a delivery on the way: never for what the pumps put off,
\* drained or cut short, for any number of messages and connections.
THEOREM ReportsHaveAReason == Spec => []FiresForAReason
<1>1. Init => NatsInv
  BY NatsInvStarts
<1>2. NatsInv /\ [Next]_vars => NatsInv'
  BY NatsInvKept
<1>3. NatsInv => FiresForAReason
  BY DEF NatsInv
<1>4. QED
  BY <1>1, <1>2, <1>3, PTL DEF Spec

\* No delivery of the server reaches the client twice, and one of a message that
\* was acked as the latest is reported unless the table of pending acks, of
\* whatever size, was emptied.
THEOREM RedeliveriesAreReported == Spec => []RedeliveryIsReported
<1>1. Init => NatsInv
  BY NatsInvStarts
<1>2. NatsInv /\ [Next]_vars => NatsInv'
  BY NatsInvKept
<1>3. NatsInv => RedeliveryIsReported
  BY DEF NatsInv
<1>4. QED
  BY <1>1, <1>2, <1>3, PTL DEF Spec

-----------------------------------------------------------------------------
\* The checkers that are shown events one after another.

LEMMA IntervalSize ==
    ASSUME NEW n \in Nat
    PROVE  IsFiniteSet(1 .. n) /\ Cardinality(1 .. n) = n
<1>1. n \in Int /\ 1 \in Int
  OBVIOUS
<1>2. IsFiniteSet(1 .. n) /\ Cardinality(1 .. n) = IF 1 > n THEN 0 ELSE n - 1 + 1
  BY <1>1, FS_Interval
<1>3. QED
  BY <1>2

LEMMA LeastExists ==
    ASSUME NEW set \in SUBSET Nat, set # {}
    PROVE  \E m \in set : \A n \in set : m <= n
<1>1. PICK m \in set : \A n \in set : ~ (<<n, m>> \in OpToRel(<, Nat))
  BY WFMin, NatLessThanWellFounded, Zenon
<1>2. \A n \in set : m <= n
  <2>1. \A n \in set : ~(n < m)
    BY <1>1, Zenon DEF OpToRel
  <2>2. QED
    BY <2>1
<1>3. QED
  BY <1>2

LEMMA MaxIs ==
    ASSUME NEW n \in Nat, NEW set \in SUBSET (1 .. n), set # {}
    PROVE  Max(set) \in set /\ \A x \in set : x <= Max(set)
<1>1. PICK short : short = {n - x : x \in set}
  OBVIOUS
<1>2. short \in SUBSET Nat /\ short # {}
  <2>1. \A x \in set : n - x \in Nat
    OBVIOUS
  <2>2. QED
    BY <1>1, <2>1
<1>3. PICK m \in short : \A y \in short : m <= y
  BY <1>2, LeastExists
<1>4. PICK x \in set : m = n - x
  BY <1>1, <1>3
<1>5. \A y \in set : x >= y
  <2>1. \A y \in set : m <= n - y
    BY <1>1, <1>3
  <2>2. QED
    BY <1>4, <2>1
<1>6. \E y \in set : \A z \in set : y >= z
  BY <1>5
<1>7. Max(set) \in set /\ \A y \in set : Max(set) >= y
  BY <1>6 DEF Max
<1>8. QED
  BY <1>7

\* What a fold makes of each set of places.
FoldsShown(g, sets, base, list) ==
    g = [s \in sets |-> IF s = {} THEN base ELSE Observe(g[s \ {Max(s)}], list[Max(s)])]

ShownAll(base, list) == FoldLeft(Observe, base, list)

\* One held after another.
ShownSteps(base, list, n) ==
    \E f : /\ f[0] = base /\ ShownAll(base, list) = f[n]
           /\ \A k \in 1 .. n : f[k] = Observe(f[k - 1], list[k])

LEMMA ShownFolds ==
    ASSUME NEW n \in Nat, NEW list, DOMAIN list = 1 .. n, NEW base
    PROVE  ShownSteps(base, list, n)
<1> DEFINE Small(m) == {s \in SUBSET (1 .. n) : Cardinality(s) <= m}
<1>1. \A s \in SUBSET (1 .. n) : IsFiniteSet(s) /\ Cardinality(s) \in Nat /\ Cardinality(s) <= n
  <2>1. PICK all : all = 1 .. n
    OBVIOUS
  <2>2. IsFiniteSet(all) /\ Cardinality(all) = n
    BY <2>1, IntervalSize
  <2>3. \A s \in SUBSET all : IsFiniteSet(s) /\ Cardinality(s) <= n
    BY <2>2, FS_Subset
  <2>4. \A s \in SUBSET all : Cardinality(s) \in Nat
    BY <2>3, FS_CardinalityType
  <2>5. QED
    BY <2>1, <2>3, <2>4
<1>2. \A s \in SUBSET (1 .. n) : s # {} =>
          /\ Max(s) \in s /\ s \ {Max(s)} \in SUBSET (1 .. n)
          /\ Cardinality(s \ {Max(s)}) = Cardinality(s) - 1
  BY <1>1, MaxIs, FS_RemoveElement
<1>3. Small(0) = {{}}
  BY <1>1, FS_EmptySet
<1>4. \E g : FoldsShown(g, Small(0), base, list)
  <2>1. PICK g : g = [s \in Small(0) |-> base]
    OBVIOUS
  <2>2. g = [s \in Small(0) |-> IF s = {} THEN base ELSE Observe(g[s \ {Max(s)}], list[Max(s)])]
    BY <1>3, <2>1
  <2>3. QED
    BY <2>2 DEF FoldsShown
<1>5. ASSUME NEW m \in Nat, NEW g, FoldsShown(g, Small(m), base, list)
      PROVE  \E h : FoldsShown(h, Small(m + 1), base, list)
  <2>1. PICK h : h = [s \in Small(m + 1) |->
                         IF s = {} THEN base ELSE Observe(g[s \ {Max(s)}], list[Max(s)])]
    OBVIOUS
  <2>2. \A s \in Small(m) : s \in Small(m + 1) /\ h[s] = g[s]
    <3>1. \A s \in Small(m) : s \in Small(m + 1)
      BY <1>1
    <3>2. \A s \in Small(m) :
              g[s] = IF s = {} THEN base ELSE Observe(g[s \ {Max(s)}], list[Max(s)])
      BY <1>5 DEF FoldsShown
    <3>3. \A s \in Small(m + 1) :
              h[s] = IF s = {} THEN base ELSE Observe(g[s \ {Max(s)}], list[Max(s)])
      BY <2>1
    <3>4. QED
      BY <3>1, <3>2, <3>3
  <2>3. ASSUME NEW s \in Small(m + 1), s # {}
        PROVE  s \ {Max(s)} \in Small(m)
    <3>1. PICK rest : rest = s \ {Max(s)}
      OBVIOUS
    <3>2. rest \in SUBSET (1 .. n) /\ Cardinality(rest) = Cardinality(s) - 1
      BY <1>2, <2>3, <3>1
    <3>3. Cardinality(s) \in Nat /\ Cardinality(s) <= m + 1
      BY <1>1
    <3>4. Cardinality(rest) <= m
      BY <3>2, <3>3
    <3>5. QED
      BY <3>1, <3>2, <3>4
  <2>4. h = [s \in Small(m + 1) |->
                IF s = {} THEN base ELSE Observe(h[s \ {Max(s)}], list[Max(s)])]
    BY <2>1, <2>2, <2>3
  <2>5. QED
    BY <2>4 DEF FoldsShown
<1>6. \A m \in Nat : \E g : FoldsShown(g, Small(m), base, list)
  <2>1. SUFFICES ASSUME \E m \in Nat : ~ \E g : FoldsShown(g, Small(m), base, list) PROVE FALSE
    OBVIOUS
  <2>2. PICK bad : bad = {m \in Nat : ~ \E g : FoldsShown(g, Small(m), base, list)}
    OBVIOUS
  <2>3. bad \in SUBSET Nat /\ bad # {}
    BY <2>1, <2>2
  <2>4. PICK m \in bad : \A k \in bad : m <= k
    BY <2>3, LeastExists
  <2>5. m \in Nat /\ m # 0
    BY <1>4, <2>2
  <2>6. PICK k \in Nat : m = k + 1
    BY <2>5
  <2>7. k \notin bad
    BY <2>4, <2>6
  <2>8. \E g : FoldsShown(g, Small(k), base, list)
    BY <2>2, <2>7
  <2>9. QED
    BY <1>5, <2>2, <2>6, <2>8
<1>7. Small(n) = SUBSET (1 .. n)
  BY <1>1
<1>8. PICK iter : /\ iter = CHOOSE g : FoldsShown(g, SUBSET (1 .. n), base, list)
                  /\ FoldsShown(iter, SUBSET (1 .. n), base, list)
  BY <1>6, <1>7
<1>9. ShownAll(base, list) = iter[1 .. n]
  BY <1>8 DEF ShownAll, FoldLeft, MapThenFoldSet, FoldsShown
<1>10. PICK f : f = [k \in 0 .. n |-> iter[1 .. k]]
  OBVIOUS
<1>11. f[0] = base /\ f[n] = iter[1 .. n]
  <2>1. f[0] = iter[1 .. 0] /\ f[n] = iter[1 .. n]
    BY <1>10
  <2>2. 1 .. 0 = {} /\ {} \in SUBSET (1 .. n)
    OBVIOUS
  <2>3. iter[{}] = base
    BY <1>8, <2>2 DEF FoldsShown
  <2>4. QED
    BY <2>1, <2>2, <2>3
<1>12. ASSUME NEW k \in 1 .. n
       PROVE  f[k] = Observe(f[k - 1], list[k])
  <2>1. 1 .. k \in SUBSET (1 .. n) /\ 1 .. k # {} /\ k \in 1 .. k
    <3>1. k \in Nat /\ 1 <= k /\ k <= n
      OBVIOUS
    <3>2. \A i \in 1 .. k : i \in 1 .. n
      BY <3>1
    <3>3. k \in 1 .. k
      BY <3>1
    <3>4. QED
      BY <3>2, <3>3
  <2>2. Max(1 .. k) = k
    <3>1. PICK m : m = Max(1 .. k) /\ m \in 1 .. k /\ k <= m
      BY <2>1, MaxIs
    <3>2. QED
      BY <3>1
  <2>3. (1 .. k) \ {k} = 1 .. k - 1
    OBVIOUS
  <2>4. iter[1 .. k] = Observe(iter[1 .. k - 1], list[k])
    BY <1>8, <2>1, <2>2, <2>3 DEF FoldsShown
  <2>5. QED
    BY <1>10, <2>4
<1>13. QED
  BY <1>9, <1>11, <1>12 DEF ShownSteps

-----------------------------------------------------------------------------
\* Filters.

LEMMA MinIs ==
    ASSUME NEW set \in SUBSET Nat, set # {}
    PROVE  Min(set) \in set /\ \A x \in set : Min(set) <= x
<1>1. \E m \in set : \A x \in set : m =< x
  BY LeastExists
<1>2. QED
  BY <1>1 DEF Min

\* The words at which the matching of a filter ends.
Decides(filter, subject, i) ==
    \/ filter[i] = ">"
    \/ filter[i] = "*" /\ i > Len(subject)
    \/ filter[i] \notin {">", "*"} /\ (i > Len(subject) \/ subject[i] # filter[i])
Deciding(filter, subject) == {i \in DOMAIN filter : Decides(filter, subject, i)}

LEMMA MatchesBy ==
    ASSUME NEW filter, NEW subject, NEW set, set = Deciding(filter, subject)
    PROVE  SubjectMatches(filter, subject) <=>
               IF set = {} THEN Len(filter) = Len(subject)
               ELSE /\ filter[Min(set)] = ">" /\ Min(set) = Len(filter)
                    /\ Len(subject) >= Min(set)
BY DEF SubjectMatches, Deciding, Decides

LEMMA FilterExact ==
    ASSUME NEW words, NEW filter \in Seq(words), filter # <<>>, NEW subject \in Seq(words)
    PROVE  FilterIsExact(filter, subject)
<1>1. PICK n \in Nat, m \in Nat : n = Len(filter) /\ m = Len(subject) /\ n > 0
  BY LenProperties, EmptySeq
<1>2. DOMAIN filter = 1 .. n
  BY <1>1, LenProperties
<1>3. PICK open \in BOOLEAN : open <=> filter[n] = ">"
  OBVIOUS
<1>4. PICK fixed : fixed = IF open THEN Front(filter) ELSE filter
  OBVIOUS
<1>5. PICK f \in Nat : /\ f = IF open THEN n - 1 ELSE n
                       /\ Len(fixed) = f /\ DOMAIN fixed = 1 .. f
                       /\ \A i \in 1 .. f : fixed[i] = filter[i]
  <2>1. CASE open
    <3>1. fixed = [i \in 1 .. n - 1 |-> filter[i]]
      BY <1>1, <1>4, <2>1 DEF Front
    <3>2. n - 1 \in Nat /\ Len(fixed) = n - 1 /\ DOMAIN fixed = 1 .. n - 1
      BY <1>1, <3>1
    <3>3. QED
      BY <2>1, <3>1, <3>2
  <2>2. CASE ~open
    BY <1>1, <1>2, <1>4, <2>2
  <2>3. QED
    BY <2>1, <2>2
<1>6. FilterIsExact(filter, subject) <=>
          (SubjectMatches(filter, subject) <=>
               /\ IF open THEN m > f ELSE m = f
               /\ \A i \in 1 .. f : filter[i] # ">" /\ Word(filter[i], subject[i]))
  <2>1. open <=> Last(filter) = ">"
    BY <1>1, <1>3 DEF Last
  <2>2. (\A i \in DOMAIN fixed : fixed[i] # ">" /\ Word(fixed[i], subject[i]))
            <=> \A i \in 1 .. f : filter[i] # ">" /\ Word(filter[i], subject[i])
    BY <1>5
  <2>3. QED
    BY <1>1, <1>4, <1>5, <2>1, <2>2 DEF FilterIsExact
<1>7. PICK set : set = Deciding(filter, subject)
  OBVIOUS
<1>8. \A i : i \in set <=> i \in 1 .. n /\ Decides(filter, subject, i)
  BY <1>2, <1>7 DEF Deciding
<1>9. \A i \in 1 .. n : Decides(filter, subject, i) <=>
          filter[i] = ">" \/ i > m \/ ~Word(filter[i], subject[i])
  <2>1. TAKE i \in 1 .. n
  <2>2. filter[i] # ">" /\ filter[i] = "*" => (Decides(filter, subject, i) <=> i > m)
    BY <1>1 DEF Decides
  <2>3. filter[i] # ">" /\ filter[i] # "*" =>
            (Decides(filter, subject, i) <=> i > m \/ subject[i] # filter[i])
    BY <1>1 DEF Decides
  <2>4. filter[i] = ">" => Decides(filter, subject, i)
    BY DEF Decides
  <2>5. QED
    BY <2>2, <2>3, <2>4 DEF Word
<1>10. CASE set = {}
  <2>1. \A i \in 1 .. n : filter[i] # ">" /\ i <= m /\ Word(filter[i], subject[i])
    BY <1>1, <1>8, <1>9, <1>10
  <2>2. n \in 1 .. n
    BY <1>1
  <2>3. ~open /\ f = n
    BY <1>3, <1>5, <2>1, <2>2
  <2>4. SubjectMatches(filter, subject) <=> n = m
    BY <1>1, <1>7, <1>10, MatchesBy
  <2>5. QED
    BY <1>6, <2>1, <2>3, <2>4
<1>11. CASE set # {}
  <2>1. PICK d : d = Min(set) /\ d \in set /\ \A i \in set : d <= i
    <3>1. set \in SUBSET Nat
      BY <1>8
    <3>2. QED
      BY <1>11, <3>1, MinIs
  <2>2. d \in 1 .. n
    BY <1>8, <2>1
  <2>3. SubjectMatches(filter, subject) <=> filter[d] = ">" /\ d = n /\ m >= d
    BY <1>1, <1>7, <1>11, <2>1, MatchesBy
  <2>4. ASSUME filter[d] = ">", d = n, m >= d
        PROVE  open /\ m > f /\ \A i \in 1 .. f : filter[i] # ">" /\ Word(filter[i], subject[i])
    <3>1. open /\ f = n - 1
      BY <1>3, <1>5, <2>4
    <3>2. \A i \in 1 .. f : i \in 1 .. n /\ ~(d <= i)
      BY <1>1, <2>4, <3>1
    <3>3. \A i \in 1 .. f : ~Decides(filter, subject, i)
      BY <1>8, <2>1, <3>2
    <3>4. m > f
      BY <1>1, <2>4, <3>1
    <3>5. \A i \in 1 .. f : filter[i] # ">" /\ Word(filter[i], subject[i])
      BY <1>9, <3>2, <3>3
    <3>6. QED
      BY <3>1, <3>4, <3>5
  <2>5. ASSUME IF open THEN m > f ELSE m = f,
               \A i \in 1 .. f : filter[i] # ">" /\ Word(filter[i], subject[i])
        PROVE  filter[d] = ">" /\ d = n /\ m >= d
    <3>1. \A i \in 1 .. f : i \in 1 .. n /\ i <= m
      BY <1>1, <1>5, <2>5
    <3>2. \A i \in 1 .. f : i \notin set
      BY <1>8, <1>9, <2>5, <3>1
    <3>3. f # n /\ d = n
      BY <1>1, <1>5, <2>1, <2>2, <3>2
    <3>4. open /\ m > n - 1
      BY <1>5, <2>5, <3>3
    <3>5. QED
      BY <1>1, <1>3, <3>3, <3>4
  <2>6. QED
    BY <1>6, <2>3, <2>4, <2>5
<1>12. QED
  BY <1>10, <1>11

-----------------------------------------------------------------------------
\* What the two checkers that know the topology hold after k events: for each
\* consumer what it was last told to be.  The values are limits or filters.

InForceGrown(events, k) ==
    /\ events[k + 1].event = "configured" =>
           InForce(events, k + 1, events[k + 1].consumer) = {k + 1}
    /\ \A c : (events[k + 1].event = "configured" => c # events[k + 1].consumer) =>
           InForce(events, k + 1, c) = InForce(events, k, c)

LEMMA InForceGrows ==
    ASSUME NEW events, NEW k \in Nat
    PROVE  InForceGrown(events, k)
<1>1. ASSUME events[k + 1].event = "configured", NEW c, c = events[k + 1].consumer
      PROVE  InForce(events, k + 1, c) = {k + 1}
  <2>1. \A i \in 1 .. k + 1 : i # k + 1 => k + 1 \in i + 1 .. k + 1
    OBVIOUS
  <2>2. k + 1 \in 1 .. k + 1 /\ (k + 1) + 1 .. k + 1 = {}
    OBVIOUS
  <2>3. QED
    BY <1>1, <2>1, <2>2 DEF InForce, Configures
<1>2. ASSUME NEW c, ~Configures(events[k + 1], c)
      PROVE  InForce(events, k + 1, c) = InForce(events, k, c)
  <2>1. ASSUME NEW i \in InForce(events, k + 1, c)
        PROVE  i \in InForce(events, k, c)
    <3>1. /\ i \in 1 .. k + 1 /\ Configures(events[i], c)
          /\ \A j \in i + 1 .. k + 1 : ~Configures(events[j], c)
      BY <2>1 DEF InForce
    <3>2. i \in 1 .. k /\ \A j \in i + 1 .. k : j \in i + 1 .. k + 1
      BY <1>2, <3>1
    <3>3. QED
      BY <3>1, <3>2 DEF InForce
  <2>2. ASSUME NEW i \in InForce(events, k, c)
        PROVE  i \in InForce(events, k + 1, c)
    <3>1. /\ i \in 1 .. k /\ Configures(events[i], c)
          /\ \A j \in i + 1 .. k : ~Configures(events[j], c)
      BY <2>2 DEF InForce
    <3>2. i \in 1 .. k + 1 /\ \A j \in i + 1 .. k + 1 : j \in i + 1 .. k \/ j = k + 1
      BY <3>1
    <3>3. QED
      BY <1>2, <3>1, <3>2 DEF InForce
  <2>3. QED
    BY <2>1, <2>2
<1>3. QED
  BY <1>1, <1>2 DEF InForceGrown, Configures

Knows(events, k, map, values) ==
    \A c : /\ c \in DOMAIN map => \E j \in InForce(events, k, c) : map[c] = values[j]
           /\ \A j \in InForce(events, k, c) : c \in DOMAIN map /\ map[c] = values[j]

LEMMA KnowsMore ==
    ASSUME NEW events, NEW k \in Nat, NEW map, NEW values, Knows(events, k, map, values),
           events[k + 1].event = "configured",
           NEW next, next = Put(map, events[k + 1].consumer, values[k + 1])
    PROVE  Knows(events, k + 1, next, values)
<1>1. PICK c : c = events[k + 1].consumer
  OBVIOUS
<1>2. /\ DOMAIN next = DOMAIN map \cup {c} /\ next[c] = values[k + 1]
      /\ \A d \in DOMAIN map : d # c => next[d] = map[d]
  BY <1>1 DEF Put
<1>3. /\ InForce(events, k + 1, c) = {k + 1}
      /\ \A d : d # c => InForce(events, k + 1, d) = InForce(events, k, d)
  BY <1>1, InForceGrows DEF InForceGrown
<1>4. QED
  BY <1>2, <1>3 DEF Knows

LEMMA KnowsStill ==
    ASSUME NEW events, NEW k \in Nat, NEW map, NEW values, Knows(events, k, map, values),
           events[k + 1].event # "configured"
    PROVE  Knows(events, k + 1, map, values)
<1>1. \A d : InForce(events, k + 1, d) = InForce(events, k, d)
  BY InForceGrows DEF InForceGrown
<1>2. QED
  BY <1>1 DEF Knows

-----------------------------------------------------------------------------
\* max_deliver_respected, after k events.

Limits(events) == [j \in DOMAIN events |-> events[j].max]
Filters(events) == [j \in DOMAIN events |-> events[j].filter]

ExceededAt(events, i) ==
    /\ events[i].event = "delivered"
    /\ \E j \in InForce(events, i - 1, events[i].consumer) : events[i].count > events[j].max
Exceeded(events, k) == \E i \in 1 .. k : ExceededAt(events, i)
LimitInv(events, k, held) ==
    /\ held = [max |-> held.max, fired |-> held.fired] /\ held.fired \in BOOLEAN
    /\ held.fired <=> Exceeded(events, k)
    /\ ~held.fired => Knows(events, k, held.max, Limits(events))

LEMMA ExceededGrows ==
    ASSUME NEW events, NEW k \in Nat
    PROVE  Exceeded(events, k + 1) <=> Exceeded(events, k) \/ ExceededAt(events, k + 1)
<1>1. 1 .. k + 1 = (1 .. k) \cup {k + 1}
  OBVIOUS
<1>2. QED
  BY <1>1 DEF Exceeded

LEMMA InForceAt ==
    ASSUME NEW n \in Nat, NEW events, DOMAIN events = 1 .. n, NEW k \in Nat, k <= n,
           NEW c, NEW j \in InForce(events, k, c)
    PROVE  /\ j \in 1 .. k /\ Limits(events)[j] = events[j].max
           /\ Filters(events)[j] = events[j].filter
           /\ events[j].event = "configured" /\ events[j].consumer = c
<1>1. j \in 1 .. k /\ Configures(events[j], c)
  BY DEF InForce
<1>2. j \in 1 .. n
  BY <1>1
<1>3. QED
  BY <1>1, <1>2 DEF Limits, Filters, Configures

LEMMA DeliverySeen ==
    ASSUME NEW n \in Nat, NEW events, DOMAIN events = 1 .. n, NEW k \in Nat, k + 1 \in 1 .. n,
           NEW held, ~held.fired, LimitInv(events, k, held),
           NEW next, next = SeeDeliveries(held, events[k + 1])
    PROVE  LimitInv(events, k + 1, next)
<1>1. PICK map, values, c : map = held.max /\ values = Limits(events) /\ c = events[k + 1].consumer
  OBVIOUS
<1>2. /\ held = [max |-> map, fired |-> FALSE] /\ ~Exceeded(events, k)
      /\ Knows(events, k, map, values)
  BY <1>1 DEF LimitInv
<1>3. CASE events[k + 1].event = "configured"
  <2>1. PICK m : m = Put(map, c, events[k + 1].max)
    OBVIOUS
  <2>2. next = [max |-> m, fired |-> FALSE]
    <3>1. next = [held EXCEPT !.max = Put(@, c, events[k + 1].max)]
      BY <1>1, <1>3 DEF SeeDeliveries
    <3>2. QED
      BY <1>2, <2>1, <3>1
  <2>3. m = Put(map, events[k + 1].consumer, values[k + 1])
    BY <1>1, <2>1 DEF Limits
  <2>4. Knows(events, k + 1, m, values)
    BY <1>2, <1>3, <2>3, KnowsMore
  <2>5. ~Exceeded(events, k + 1)
    BY <1>2, <1>3, ExceededGrows DEF ExceededAt
  <2>6. QED
    BY <1>1, <2>2, <2>4, <2>5 DEF LimitInv
<1>4. ASSUME events[k + 1].event # "configured"
      PROVE  Knows(events, k + 1, map, values)
  BY <1>2, <1>4, KnowsStill
<1>5. CASE events[k + 1].event = "delivered" /\ c \in DOMAIN map
  <2>1. PICK over \in BOOLEAN : over <=> events[k + 1].count > map[c]
    OBVIOUS
  <2>2. next = [max |-> map, fired |-> over]
    <3>1. next = [held EXCEPT !.fired = events[k + 1].count > map[c]]
      BY <1>1, <1>5 DEF SeeDeliveries
    <3>2. next = [max |-> map, fired |-> events[k + 1].count > map[c]]
      BY <1>2, <3>1
    <3>3. QED
      BY <2>1, <3>2
  <2>3. ExceededAt(events, k + 1) <=> over
    <3>1. (k + 1) - 1 = k /\ k <= n
      OBVIOUS
    <3>2. \A j \in InForce(events, k, c) : map[c] = events[j].max
      <4>1. \A j \in InForce(events, k, c) : values[j] = events[j].max
        BY <1>1, <3>1, InForceAt
      <4>2. QED
        BY <1>2, <4>1 DEF Knows
    <3>3. \E j \in InForce(events, k, c) : TRUE
      BY <1>2, <1>5 DEF Knows
    <3>4. QED
      BY <1>1, <1>5, <2>1, <3>1, <3>2, <3>3 DEF ExceededAt
  <2>4. over <=> Exceeded(events, k + 1)
    BY <1>2, <2>3, ExceededGrows
  <2>5. QED
    BY <1>1, <1>4, <1>5, <2>1, <2>2, <2>4 DEF LimitInv
<1>6. CASE events[k + 1].event # "configured" /\ ~(events[k + 1].event = "delivered" /\ c \in DOMAIN map)
  <2>1. next = held
    BY <1>1, <1>6 DEF SeeDeliveries
  <2>2. ~ExceededAt(events, k + 1)
    <3>1. (k + 1) - 1 = k
      OBVIOUS
    <3>2. c \notin DOMAIN map => InForce(events, k, c) = {}
      BY <1>2 DEF Knows
    <3>3. QED
      BY <1>1, <1>6, <3>1, <3>2 DEF ExceededAt
  <2>3. ~Exceeded(events, k + 1)
    BY <1>2, <2>2, ExceededGrows
  <2>4. QED
    BY <1>1, <1>2, <1>4, <1>6, <2>1, <2>3 DEF LimitInv
<1>7. QED
  BY <1>3, <1>5, <1>6

-----------------------------------------------------------------------------
\* consumer_filter_excludes_dead_letter, after k events.

LetInAt(events, i) ==
    /\ events[i].event = "deadLettered"
    /\ \E j \in 1 .. i - 1 : /\ events[j].event = "configured"
                             /\ j \in InForce(events, i - 1, events[j].consumer)
                             /\ SubjectMatches(events[j].filter, events[i].subject)
LetIn(events, k) == \E i \in 1 .. k : LetInAt(events, i)
LetterInv(events, k, held) ==
    /\ held = [filters |-> held.filters, fired |-> held.fired] /\ held.fired \in BOOLEAN
    /\ held.fired <=> LetIn(events, k)
    /\ ~held.fired => Knows(events, k, held.filters, Filters(events))

LEMMA LetInGrows ==
    ASSUME NEW events, NEW k \in Nat
    PROVE  LetIn(events, k + 1) <=> LetIn(events, k) \/ LetInAt(events, k + 1)
<1>1. 1 .. k + 1 = (1 .. k) \cup {k + 1}
  OBVIOUS
<1>2. QED
  BY <1>1 DEF LetIn

LEMMA LetterSeen ==
    ASSUME NEW n \in Nat, NEW events, DOMAIN events = 1 .. n, NEW k \in Nat, k + 1 \in 1 .. n,
           NEW held, ~held.fired, LetterInv(events, k, held),
           NEW next, next = SeeDeadLetter(held, events[k + 1])
    PROVE  LetterInv(events, k + 1, next)
<1>1. PICK map, values, c : map = held.filters /\ values = Filters(events) /\ c = events[k + 1].consumer
  OBVIOUS
<1>2. /\ held = [filters |-> map, fired |-> FALSE] /\ ~LetIn(events, k)
      /\ Knows(events, k, map, values)
  BY <1>1 DEF LetterInv
<1>3. CASE events[k + 1].event = "configured"
  <2>1. PICK m : m = Put(map, c, events[k + 1].filter)
    OBVIOUS
  <2>2. next = [filters |-> m, fired |-> FALSE]
    <3>1. next = [held EXCEPT !.filters = Put(@, c, events[k + 1].filter)]
      BY <1>1, <1>3 DEF SeeDeadLetter
    <3>2. QED
      BY <1>2, <2>1, <3>1
  <2>3. m = Put(map, events[k + 1].consumer, values[k + 1])
    BY <1>1, <2>1 DEF Filters
  <2>4. Knows(events, k + 1, m, values)
    BY <1>2, <1>3, <2>3, KnowsMore
  <2>5. ~LetIn(events, k + 1)
    BY <1>2, <1>3, LetInGrows DEF LetInAt
  <2>6. QED
    BY <1>1, <2>2, <2>4, <2>5 DEF LetterInv
<1>4. ASSUME events[k + 1].event # "configured"
      PROVE  Knows(events, k + 1, map, values)
  BY <1>2, <1>4, KnowsStill
<1>5. CASE events[k + 1].event = "deadLettered"
  <2>1. PICK subject : subject = events[k + 1].subject
    OBVIOUS
  <2>2. PICK into \in BOOLEAN : into <=> \E d \in DOMAIN map : SubjectMatches(map[d], subject)
    OBVIOUS
  <2>3. next = [filters |-> map, fired |-> into]
    <3>1. next = [held EXCEPT !.fired = \E d \in DOMAIN map : SubjectMatches(map[d], subject)]
      BY <1>1, <1>5, <2>1 DEF SeeDeadLetter
    <3>2. next = [filters |-> map, fired |-> \E d \in DOMAIN map : SubjectMatches(map[d], subject)]
      BY <1>2, <3>1
    <3>3. QED
      BY <2>2, <3>2
  <2>4. (k + 1) - 1 = k /\ k <= n
    OBVIOUS
  <2>5. ASSUME NEW d \in DOMAIN map, SubjectMatches(map[d], subject)
        PROVE  LetInAt(events, k + 1)
    <3>1. PICK j \in InForce(events, k, d) : map[d] = values[j]
      BY <1>2 DEF Knows
    <3>2. /\ j \in 1 .. k /\ values[j] = events[j].filter
          /\ events[j].event = "configured" /\ events[j].consumer = d
      BY <1>1, <2>4, InForceAt
    <3>3. QED
      BY <1>5, <2>1, <2>4, <2>5, <3>1, <3>2 DEF LetInAt
  <2>6. ASSUME LetInAt(events, k + 1)
        PROVE  \E d \in DOMAIN map : SubjectMatches(map[d], subject)
    <3>1. PICK j \in 1 .. k : /\ j \in InForce(events, k, events[j].consumer)
                              /\ SubjectMatches(events[j].filter, subject)
      BY <2>1, <2>4, <2>6 DEF LetInAt
    <3>2. values[j] = events[j].filter
      BY <1>1, <2>4, <3>1, InForceAt
    <3>3. events[j].consumer \in DOMAIN map /\ map[events[j].consumer] = values[j]
      BY <1>2, <3>1 DEF Knows
    <3>4. QED
      BY <3>1, <3>2, <3>3
  <2>7. into <=> LetIn(events, k + 1)
    BY <1>2, <2>2, <2>5, <2>6, LetInGrows
  <2>8. QED
    BY <1>1, <1>4, <1>5, <2>2, <2>3, <2>7 DEF LetterInv
<1>6. CASE events[k + 1].event # "configured" /\ events[k + 1].event # "deadLettered"
  <2>1. next = held
    BY <1>6 DEF SeeDeadLetter
  <2>2. ~LetIn(events, k + 1)
    BY <1>2, <1>6, LetInGrows DEF LetInAt
  <2>3. QED
    BY <1>1, <1>2, <1>4, <1>6, <2>1, <2>2 DEF LetterInv
<1>7. QED
  BY <1>3, <1>5, <1>6

-----------------------------------------------------------------------------
\* no_infinite_redelivery, after k events.

Comes(events, j, payload) == events[j].event = "delivered" /\ events[j].payload = payload
Recent(events, k, payload) ==
    {j \in 1 .. k : /\ Comes(events, j, payload)
                    /\ \A l \in 1 .. k : Comes(events, l, payload) =>
                                             events[l].at <= events[j].at + Window}
Entries(events, set) == {[number |-> j, at |-> events[j].at] : j \in set}

LoopedAt(events, i) ==
    events[i].event = "delivered" /\ Cardinality(Repeats(events, i)) > MaxRepeats
Looped(events, k) == \E i \in 1 .. k : LoopedAt(events, i)
SightingsAre(events, k, seen) ==
    \A payload : SightingsOf(seen, payload) = Entries(events, Recent(events, k, payload))
PayloadInv(events, k, held) ==
    /\ held = [shown |-> held.shown, seen |-> held.seen, fired |-> held.fired]
    /\ held.fired \in BOOLEAN
    /\ held.fired <=> Looped(events, k)
    /\ ~held.fired => held.shown = k /\ SightingsAre(events, k, held.seen)

LEMMA LoopedGrows ==
    ASSUME NEW events, NEW k \in Nat
    PROVE  Looped(events, k + 1) <=> Looped(events, k) \/ LoopedAt(events, k + 1)
<1>1. 1 .. k + 1 = (1 .. k) \cup {k + 1}
  OBVIOUS
<1>2. QED
  BY <1>1 DEF Looped

LEMMA EntriesCounted ==
    ASSUME NEW n \in Nat, NEW events, NEW set \in SUBSET (1 .. n)
    PROVE  Cardinality(Entries(events, set)) = Cardinality(set)
<1>1. IsFiniteSet(set)
  BY IntervalSize, FS_Subset
<1>2. PICK f : f = [j \in set |-> [number |-> j, at |-> events[j].at]]
  OBVIOUS
<1>3. PICK entries : entries = Entries(events, set)
  OBVIOUS
<1>4. \A j \in set : f[j] \in entries /\ f[j].number = j
  BY <1>2, <1>3 DEF Entries
<1>5. f \in [set -> entries]
  BY <1>2, <1>4
<1>6. \A e \in entries : \E j \in set : f[j] = e
  BY <1>2, <1>3 DEF Entries
<1>7. \A i, j \in set : f[i] = f[j] => i = j
  BY <1>4
<1>8. f \in Bijection(set, entries)
  BY <1>5, <1>6, <1>7 DEF Bijection, Injection, Surjection, IsInjective
<1>9. ExistsBijection(set, entries)
  BY <1>8 DEF ExistsBijection
<1>10. Cardinality(set) = Cardinality(entries)
  BY <1>1, <1>9, FS_Bijection
<1>11. QED
  BY <1>3, <1>10

\* Of a payload that comes, what is kept is what repeats it.
KeptAre(events, k, payload) ==
    /\ Recent(events, k + 1, payload) = Repeats(events, k + 1)
    /\ Repeats(events, k + 1) =
           {j \in Recent(events, k, payload) :
               events[j].at + Window >= events[k + 1].at} \cup {k + 1}

LEMMA RecentRepeats ==
    ASSUME NEW n \in Nat, NEW events, DOMAIN events = 1 .. n, InTime(events),
           NEW k \in Nat, k + 1 \in 1 .. n, NEW payload, Comes(events, k + 1, payload)
    PROVE  KeptAre(events, k, payload)
<1>1. PICK at \in Nat, window \in Nat : at = events[k + 1].at /\ window = Window
  BY ChecksAssumption DEF InTime, Arrivals, Comes
<1>2. \A j \in 1 .. k + 1 : Comes(events, j, payload) => events[j].at \in Nat /\ events[j].at <= at
  BY <1>1 DEF InTime, Arrivals, Comes
<1>3. \A j : j \in Repeats(events, k + 1) <=>
          j \in 1 .. k + 1 /\ Comes(events, j, payload) /\ at <= events[j].at + window
  BY <1>1 DEF Repeats, Arrivals, Comes
<1>4. k + 1 \in Repeats(events, k + 1)
  <2>1. k + 1 \in 1 .. k + 1 /\ at <= at + window
    OBVIOUS
  <2>2. QED
    BY <1>1, <1>3, <2>1
<1>5. ASSUME NEW j \in 1 .. k + 1, Comes(events, j, payload), at <= events[j].at + window,
             NEW l \in 1 .. k + 1, Comes(events, l, payload)
      PROVE  events[l].at <= events[j].at + window
  <2>1. PICK a \in Nat, b \in Nat : a = events[l].at /\ b = events[j].at /\ a <= at
    BY <1>2, <1>5
  <2>2. at <= b + window
    BY <1>5, <2>1
  <2>3. a <= b + window
    BY <2>1, <2>2
  <2>4. QED
    BY <2>1, <2>3
<1>6. \A j : j \in Recent(events, k + 1, payload) <=>
          /\ j \in 1 .. k + 1 /\ Comes(events, j, payload)
          /\ \A l \in 1 .. k + 1 : Comes(events, l, payload) => events[l].at <= events[j].at + window
  BY <1>1 DEF Recent
<1>7. \A j : j \in Recent(events, k, payload) <=>
          /\ j \in 1 .. k /\ Comes(events, j, payload)
          /\ \A l \in 1 .. k : Comes(events, l, payload) => events[l].at <= events[j].at + window
  BY <1>1 DEF Recent
<1>8. \A j : j \in Recent(events, k + 1, payload) <=> j \in Repeats(events, k + 1)
  <2>1. k + 1 \in 1 .. k + 1
    OBVIOUS
  <2>2. QED
    BY <1>1, <1>3, <1>5, <1>6, <2>1
<1>9. \A j : j \in Repeats(events, k + 1) <=>
          \/ j \in Recent(events, k, payload) /\ events[j].at + window >= at
          \/ j = k + 1
  <2>1. ASSUME NEW j \in Repeats(events, k + 1), j # k + 1
        PROVE  j \in Recent(events, k, payload) /\ events[j].at + window >= at
    <3>1. j \in 1 .. k + 1 /\ Comes(events, j, payload) /\ at <= events[j].at + window
      BY <1>3
    <3>2. j \in 1 .. k /\ \A l \in 1 .. k : l \in 1 .. k + 1
      BY <2>1, <3>1
    <3>3. \A l \in 1 .. k : Comes(events, l, payload) => events[l].at <= events[j].at + window
      BY <1>5, <3>1, <3>2
    <3>4. events[j].at + window >= at
      BY <1>2, <3>1
    <3>5. QED
      BY <1>7, <3>1, <3>2, <3>3, <3>4
  <2>2. ASSUME NEW j \in Recent(events, k, payload), events[j].at + window >= at
        PROVE  j \in Repeats(events, k + 1)
    <3>1. j \in 1 .. k /\ Comes(events, j, payload)
      BY <1>7
    <3>2. j \in 1 .. k + 1
      BY <3>1
    <3>3. at <= events[j].at + window
      BY <1>2, <2>2, <3>1, <3>2
    <3>4. QED
      BY <1>3, <3>1, <3>2, <3>3
  <2>3. QED
    BY <1>4, <2>1, <2>2
<1>10. QED
  BY <1>1, <1>8, <1>9 DEF KeptAre

LEMMA RecentStays ==
    ASSUME NEW events, NEW k \in Nat, NEW payload, ~Comes(events, k + 1, payload)
    PROVE  Recent(events, k + 1, payload) = Recent(events, k, payload)
<1>1. 1 .. k + 1 = (1 .. k) \cup {k + 1}
  OBVIOUS
<1>2. QED
  BY <1>1 DEF Recent

LEMMA PayloadSeen ==
    ASSUME NEW n \in Nat, NEW events, DOMAIN events = 1 .. n, InTime(events),
           NEW k \in Nat, k + 1 \in 1 .. n,
           NEW held, ~held.fired, PayloadInv(events, k, held),
           NEW next, next = SeePayload(held, events[k + 1])
    PROVE  PayloadInv(events, k + 1, next)
<1>1. PICK seen, payload, at :
          seen = held.seen /\ payload = events[k + 1].payload /\ at = events[k + 1].at
  OBVIOUS
<1>2. /\ held = [shown |-> k, seen |-> seen, fired |-> FALSE] /\ ~Looped(events, k)
      /\ SightingsAre(events, k, seen)
  BY <1>1 DEF PayloadInv
<1>3. CASE events[k + 1].event = "delivered"
  <2> DEFINE near == {entry \in SightingsOf(seen, payload) : entry.at + Window >= at}
  <2>0. PICK kept, put : /\ kept = near \cup {[number |-> k + 1, at |-> at]}
                         /\ put = Put(seen, payload, kept)
    OBVIOUS
  <2>1. PICK over \in BOOLEAN : over <=> Cardinality(kept) > MaxRepeats
    OBVIOUS
  <2>2. next = [shown |-> k + 1, seen |-> put, fired |-> over]
    <3>1. held.shown = k /\ held.seen = seen
      BY <1>2
    <3>2. next = [shown |-> k + 1, seen |-> put, fired |-> Cardinality(kept) > MaxRepeats]
      BY <1>1, <1>3, <2>0, <3>1 DEF SeePayload
    <3>3. QED
      BY <2>1, <3>2
  <2>3. Comes(events, k + 1, payload)
    BY <1>1, <1>3 DEF Comes
  <2>4. PICK now : /\ now = Repeats(events, k + 1) /\ now = Recent(events, k + 1, payload)
                   /\ now = {j \in Recent(events, k, payload) : events[j].at + Window >= at} \cup {k + 1}
    <3>1. KeptAre(events, k, payload)
      BY <2>3, RecentRepeats
    <3>2. QED
      BY <1>1, <3>1 DEF KeptAre
  <2>5. kept = Entries(events, now)
    <3>1. SightingsOf(seen, payload) = Entries(events, Recent(events, k, payload))
      BY <1>2 DEF SightingsAre
    <3>2. near = Entries(events, {j \in Recent(events, k, payload) : events[j].at + Window >= at})
      BY <3>1 DEF Entries
    <3>3. QED
      BY <1>1, <2>0, <2>4, <3>2 DEF Entries
  <2>6. Cardinality(kept) = Cardinality(Repeats(events, k + 1))
    <3>1. now \in SUBSET (1 .. k + 1)
      BY <2>4 DEF Recent
    <3>2. PICK m \in Nat : m = k + 1
      OBVIOUS
    <3>3. now \in SUBSET (1 .. m)
      BY <3>1, <3>2
    <3>4. Cardinality(Entries(events, now)) = Cardinality(now)
      BY <3>3, EntriesCounted
    <3>5. QED
      BY <2>4, <2>5, <3>4
  <2>7. over <=> Looped(events, k + 1)
    <3>1. over <=> LoopedAt(events, k + 1)
      BY <1>3, <2>1, <2>6 DEF LoopedAt
    <3>2. QED
      BY <1>2, <3>1, LoopedGrows
  <2>8. SightingsAre(events, k + 1, put)
    <3>1. SightingsOf(put, payload) = kept
      BY <2>0 DEF SightingsOf, Put
    <3>2. ASSUME NEW other, other # payload
          PROVE  SightingsOf(put, other) = Entries(events, Recent(events, k + 1, other))
      <4>1. SightingsOf(put, other) = SightingsOf(seen, other)
        BY <2>0, <3>2 DEF SightingsOf, Put
      <4>2. Recent(events, k + 1, other) = Recent(events, k, other)
        BY <1>1, <3>2, RecentStays DEF Comes
      <4>3. QED
        BY <1>2, <4>1, <4>2 DEF SightingsAre
    <3>3. QED
      BY <2>4, <2>5, <3>1, <3>2 DEF SightingsAre
  <2>9. QED
    BY <2>2, <2>7, <2>8 DEF PayloadInv
<1>4. CASE events[k + 1].event # "delivered"
  <2>1. next = [shown |-> k + 1, seen |-> seen, fired |-> FALSE]
    <3>1. next = [held EXCEPT !.shown = held.shown + 1]
      BY <1>4 DEF SeePayload
    <3>2. QED
      BY <1>2, <3>1
  <2>2. ~Looped(events, k + 1)
    BY <1>2, <1>4, LoopedGrows DEF LoopedAt
  <2>3. SightingsAre(events, k + 1, seen)
    <3>1. \A p : Recent(events, k + 1, p) = Recent(events, k, p)
      BY <1>4, RecentStays DEF Comes
    <3>2. QED
      BY <1>2, <3>1 DEF SightingsAre
  <2>4. QED
    BY <2>1, <2>2, <2>3 DEF PayloadInv
<1>5. QED
  BY <1>3, <1>4

-----------------------------------------------------------------------------
\* The three together, after k events.

CheckerInv(events, k, held) ==
    /\ LimitInv(events, k, held.limit)
    /\ PayloadInv(events, k, held.payload)
    /\ LetterInv(events, k, held.letter)

LEMMA CheckersStart ==
    ASSUME NEW events
    PROVE  CheckerInv(events, 0, Fresh)
<1>1. PICK none : none = <<>> /\ DOMAIN none = {}
  OBVIOUS
<1>2. Fresh = [limit   |-> [max |-> none, fired |-> FALSE],
               payload |-> [shown |-> 0, seen |-> none, fired |-> FALSE],
               letter  |-> [filters |-> none, fired |-> FALSE]]
  BY <1>1 DEF Fresh
<1>3. ~Exceeded(events, 0) /\ ~Looped(events, 0) /\ ~LetIn(events, 0)
  BY DEF Exceeded, Looped, LetIn
<1>4. \A values : Knows(events, 0, none, values)
  BY <1>1 DEF Knows, InForce
<1>5. SightingsAre(events, 0, none)
  BY <1>1 DEF SightingsAre, SightingsOf, Entries, Recent
<1>6. LimitInv(events, 0, Fresh.limit)
  BY <1>2, <1>3, <1>4 DEF LimitInv
<1>7. PayloadInv(events, 0, Fresh.payload)
  BY <1>2, <1>3, <1>5 DEF PayloadInv
<1>8. LetterInv(events, 0, Fresh.letter)
  BY <1>2, <1>3, <1>4 DEF LetterInv
<1>9. QED
  BY <1>6, <1>7, <1>8 DEF CheckerInv

\* A checker that fired is shown nothing more, and nothing more could clear it.
LEMMA CheckersGoOn ==
    ASSUME NEW n \in Nat, NEW events, DOMAIN events = 1 .. n, InTime(events),
           NEW k \in Nat, k + 1 \in 1 .. n, NEW held, CheckerInv(events, k, held),
           NEW next, next = Observe(held, events[k + 1])
    PROVE  CheckerInv(events, k + 1, next)
<1>1. /\ LimitInv(events, k, held.limit) /\ PayloadInv(events, k, held.payload)
      /\ LetterInv(events, k, held.letter)
  BY DEF CheckerInv
<1>2. LimitInv(events, k + 1, next.limit)
  <2>1. CASE held.limit.fired
    <3>1. next.limit = held.limit
      BY <2>1 DEF Observe
    <3>2. Exceeded(events, k + 1)
      BY <1>1, <2>1, ExceededGrows DEF LimitInv
    <3>3. QED
      BY <1>1, <2>1, <3>1, <3>2 DEF LimitInv
  <2>2. CASE ~held.limit.fired
    <3>1. next.limit = SeeDeliveries(held.limit, events[k + 1])
      BY <2>2 DEF Observe
    <3>2. QED
      BY <1>1, <2>2, <3>1, DeliverySeen
  <2>3. QED
    BY <2>1, <2>2
<1>3. PayloadInv(events, k + 1, next.payload)
  <2>1. CASE held.payload.fired
    <3>1. next.payload = held.payload
      BY <2>1 DEF Observe
    <3>2. Looped(events, k + 1)
      BY <1>1, <2>1, LoopedGrows DEF PayloadInv
    <3>3. QED
      BY <1>1, <2>1, <3>1, <3>2 DEF PayloadInv
  <2>2. CASE ~held.payload.fired
    <3>1. next.payload = SeePayload(held.payload, events[k + 1])
      BY <2>2 DEF Observe
    <3>2. QED
      BY <1>1, <2>2, <3>1, PayloadSeen
  <2>3. QED
    BY <2>1, <2>2
<1>4. LetterInv(events, k + 1, next.letter)
  <2>1. CASE held.letter.fired
    <3>1. next.letter = held.letter
      BY <2>1 DEF Observe
    <3>2. LetIn(events, k + 1)
      BY <1>1, <2>1, LetInGrows DEF LetterInv
    <3>3. QED
      BY <1>1, <2>1, <3>1, <3>2 DEF LetterInv
  <2>2. CASE ~held.letter.fired
    <3>1. next.letter = SeeDeadLetter(held.letter, events[k + 1])
      BY <2>2 DEF Observe
    <3>2. QED
      BY <1>1, <2>2, <3>1, LetterSeen
  <2>3. QED
    BY <2>1, <2>2
<1>5. QED
  BY <1>2, <1>3, <1>4 DEF CheckerInv

LEMMA CheckersExact ==
    ASSUME NEW n \in Nat, NEW events, DOMAIN events = 1 .. n, InTime(events)
    PROVE  ChecksAreExact(events)
<1>1. ShownSteps(Fresh, events, n)
  BY ShownFolds
<1>2. PICK f : /\ f[0] = Fresh /\ Shown(events) = f[n]
               /\ \A k \in 1 .. n : f[k] = Observe(f[k - 1], events[k])
  BY <1>1 DEF ShownSteps, ShownAll, Shown
<1>3. CheckerInv(events, n, f[n])
  <2>1. SUFFICES ASSUME ~CheckerInv(events, n, f[n]) PROVE FALSE
    OBVIOUS
  <2>2. PICK bad : bad = {k \in 0 .. n : ~CheckerInv(events, k, f[k])}
    OBVIOUS
  <2>3. bad \in SUBSET Nat /\ bad # {}
    BY <2>1, <2>2
  <2>4. PICK m \in bad : \A k \in bad : m <= k
    BY <2>3, LeastExists
  <2>5. m \in 0 .. n /\ ~CheckerInv(events, m, f[m])
    BY <2>2
  <2>6. m # 0
    BY <1>2, <2>5, CheckersStart
  <2>7. PICK k \in Nat : m = k + 1 /\ k \in 0 .. n /\ k + 1 \in 1 .. n
    <3>1. m - 1 \in Nat /\ m = (m - 1) + 1 /\ m - 1 \in 0 .. n /\ (m - 1) + 1 \in 1 .. n
      BY <2>5, <2>6
    <3>2. QED
      BY <3>1
  <2>8. CheckerInv(events, k, f[k])
    <3>1. k \notin bad
      BY <2>4, <2>7
    <3>2. QED
      BY <2>2, <2>7, <3>1
  <2>9. f[k + 1] = Observe(f[k], events[k + 1])
    <3>1. (k + 1) - 1 = k
      OBVIOUS
    <3>2. QED
      BY <1>2, <2>7, <3>1
  <2>10. CheckerInv(events, k + 1, f[k + 1])
    BY <2>7, <2>8, <2>9, CheckersGoOn
  <2>11. QED
    BY <2>5, <2>7, <2>10
<1>4. \A i : i \in Arrivals(events) <=> i \in 1 .. n /\ events[i].event = "delivered"
  BY DEF Arrivals
<1>5. MaxDeliverFires(events) <=> Exceeded(events, n)
  BY <1>2, <1>3 DEF CheckerInv, LimitInv, MaxDeliverFires
<1>6. RedeliveryFires(events) <=> Looped(events, n)
  BY <1>2, <1>3 DEF CheckerInv, PayloadInv, RedeliveryFires
<1>7. DeadLetterFires(events) <=> LetIn(events, n)
  BY <1>2, <1>3 DEF CheckerInv, LetterInv, DeadLetterFires
<1>8. Exceeded(events, n) <=>
          \E i \in Arrivals(events) : \E j \in InForce(events, i - 1, events[i].consumer) :
              events[i].count > events[j].max
  BY <1>4 DEF Exceeded, ExceededAt
<1>9. Looped(events, n) <=>
          \E i \in Arrivals(events) : Cardinality(Repeats(events, i)) > MaxRepeats
  BY <1>4 DEF Looped, LoopedAt
<1>10. LetIn(events, n) <=>
          \E i \in DOMAIN events : /\ events[i].event = "deadLettered"
                                   /\ \E j \in 1 .. i - 1 :
                                          /\ events[j].event = "configured"
                                          /\ j \in InForce(events, i - 1, events[j].consumer)
                                          /\ SubjectMatches(events[j].filter, events[i].subject)
  BY DEF LetIn, LetInAt
<1>11. QED
  BY <1>5, <1>6, <1>7, <1>8, <1>9, <1>10 DEF ChecksAreExact

-----------------------------------------------------------------------------
\* What two streams tell.

ToldTwo(events, a, b, last) ==
    /\ DOMAIN events = 1 .. 3 /\ events[1] = a /\ events[2] = b /\ events[3] = last
    /\ InForce(events, 2, a.consumer) = {1} /\ InForce(events, 2, b.consumer) = {2}

LEMMA TwoAreTold ==
    ASSUME NEW a, NEW b, NEW last, a.event = "configured", b.event = "configured",
           a.consumer # b.consumer, NEW events, events = Append(<<a, b>>, last)
    PROVE  ToldTwo(events, a, b, last)
<1>1. PICK set : set = {a, b, last}
  OBVIOUS
<1>2. <<a, b>> \in Seq(set)
  BY <1>1
<1>3. PICK told \in Seq(set) : told = <<a, b>>
  BY <1>2
<1>4. Len(told) = 2 /\ told[1] = a /\ told[2] = b
  BY <1>3
<1>5. /\ events \in Seq(set) /\ Len(events) = Len(told) + 1
      /\ \A i \in 1 .. Len(told) : events[i] = told[i]
      /\ events[Len(told) + 1] = last
  BY <1>1, <1>3, AppendProperties
<1>6. Len(events) = 3 /\ events[1] = a /\ events[2] = b /\ events[3] = last
  BY <1>4, <1>5
<1>7. DOMAIN events = 1 .. 3
  BY <1>5, <1>6, LenProperties
<1>8. \A i, j : i \in 1 .. 2 /\ j \in i + 1 .. 2 <=> i = 1 /\ j = 2
  OBVIOUS
<1>9. \A i : i \in 1 .. 2 <=> i = 1 \/ i = 2
  OBVIOUS
<1>10. /\ \A c : Configures(events[1], c) <=> c = a.consumer
       /\ \A c : Configures(events[2], c) <=> c = b.consumer
  BY <1>6 DEF Configures
<1>11. InForce(events, 2, a.consumer) = {1}
  BY <1>8, <1>9, <1>10 DEF InForce
<1>12. InForce(events, 2, b.consumer) = {2}
  <2>1. 2 + 1 .. 2 = {}
    OBVIOUS
  <2>2. QED
    BY <1>8, <1>9, <1>10, <2>1 DEF InForce
<1>13. QED
  BY <1>6, <1>7, <1>11, <1>12 DEF ToldTwo

\* What an event that is no news of a topology is judged by.
JudgedByTwo(events, a, b, last) ==
    /\ last.event = "delivered" =>
           (MaxDeliverFires(events) <=> \/ last.consumer = a.consumer /\ last.count > a.max
                                        \/ last.consumer = b.consumer /\ last.count > b.max)
    /\ last.event = "deadLettered" =>
           (DeadLetterFires(events) <=> \/ SubjectMatches(a.filter, last.subject)
                                        \/ SubjectMatches(b.filter, last.subject))

LEMMA TwoJudge ==
    ASSUME NEW a, NEW b, NEW last, a.event = "configured", b.event = "configured",
           a.consumer # b.consumer, last.event = "delivered" => last.at \in Nat,
           last.event = "delivered" => last.consumer \in {a.consumer, b.consumer},
           NEW events, events = Append(<<a, b>>, last)
    PROVE  JudgedByTwo(events, a, b, last)
<1>1. /\ DOMAIN events = 1 .. 3 /\ events[1] = a /\ events[2] = b /\ events[3] = last
      /\ InForce(events, 2, a.consumer) = {1} /\ InForce(events, 2, b.consumer) = {2}
  <2>1. ToldTwo(events, a, b, last)
    BY TwoAreTold
  <2>2. QED
    BY <2>1 DEF ToldTwo
<1>2. \A i : i \in 1 .. 3 <=> i = 1 \/ i = 2 \/ i = 3
  OBVIOUS
<1>3. \A i : i \in Arrivals(events) <=> i = 3 /\ last.event = "delivered"
  BY <1>1, <1>2 DEF Arrivals
<1>4. InTime(events)
  <2>1. \A i \in Arrivals(events) : events[i].at \in Nat
    BY <1>1, <1>3
  <2>2. \A i, j \in Arrivals(events) : i <= j => events[i].at <= events[j].at
    BY <1>3, <2>1
  <2>3. QED
    BY <2>1, <2>2 DEF InTime
<1>5. ChecksAreExact(events)
  <2>1. 3 \in Nat
    OBVIOUS
  <2>2. QED
    BY <1>1, <1>4, <2>1, CheckersExact
<1>6. 3 - 1 = 2
  OBVIOUS
<1>7. ASSUME last.event = "delivered"
      PROVE  MaxDeliverFires(events) <=> \/ last.consumer = a.consumer /\ last.count > a.max
                                         \/ last.consumer = b.consumer /\ last.count > b.max
  <2>1. MaxDeliverFires(events) <=>
            \E j \in InForce(events, 2, last.consumer) : last.count > events[j].max
    <3>1. MaxDeliverFires(events) <=>
              \E i \in Arrivals(events) : \E j \in InForce(events, i - 1, events[i].consumer) :
                  events[i].count > events[j].max
      BY <1>5 DEF ChecksAreExact
    <3>2. Arrivals(events) = {3}
      BY <1>3, <1>7
    <3>3. QED
      BY <1>1, <1>6, <3>1, <3>2
  <2>2. QED
    BY <1>1, <1>7, <2>1
<1>8. ASSUME last.event = "deadLettered"
      PROVE  DeadLetterFires(events) <=> \/ SubjectMatches(a.filter, last.subject)
                                         \/ SubjectMatches(b.filter, last.subject)
  <2>1. DeadLetterFires(events) <=>
            \E i \in DOMAIN events : /\ events[i].event = "deadLettered"
                                     /\ \E j \in 1 .. i - 1 :
                                            /\ events[j].event = "configured"
                                            /\ j \in InForce(events, i - 1, events[j].consumer)
                                            /\ SubjectMatches(events[j].filter, events[i].subject)
    BY <1>5 DEF ChecksAreExact
  <2>2. \A i : i \in DOMAIN events /\ events[i].event = "deadLettered" <=> i = 3
    BY <1>1, <1>2, <1>8
  <2>3. DeadLetterFires(events) <=>
            \E j \in 1 .. 2 : /\ events[j].event = "configured"
                              /\ j \in InForce(events, 2, events[j].consumer)
                              /\ SubjectMatches(events[j].filter, last.subject)
    BY <1>1, <1>6, <2>1, <2>2
  <2>4. \A j : j \in 1 .. 2 <=> j = 1 \/ j = 2
    OBVIOUS
  <2>5. /\ events[1].event = "configured" /\ 1 \in InForce(events, 2, events[1].consumer)
        /\ events[2].event = "configured" /\ 2 \in InForce(events, 2, events[2].consumer)
    BY <1>1
  <2>6. QED
    BY <1>1, <2>3, <2>4, <2>5
<1>9. QED
  BY <1>7, <1>8 DEF JudgedByTwo

\* A server that two streams with names of their own were applied to.
Limit(stream) == IF stream.maxDeliver < 0 THEN Unlimited ELSE stream.maxDeliver

LEMMA StreamIs ==
    ASSUME NEW stream \in Streams
    PROVE  stream.name \in {"S", "T"} /\ stream.maxDeliver \in {-1, 1, 2}
BY DEF Streams

LEMMA StreamsApplied ==
    ASSUME NEW s \in Streams, NEW t \in Streams, s.name # t.name,
           NEW first, first = Applied(LeftBehind, s), NEW server, server = Applied(first, t)
    PROVE  /\ Configured(LeftBehind, s) = Told(ConsumerOf(s), FilterOf(s), Limit(s))
           /\ Configured(first, t) = Told(ConsumerOf(t), FilterOf(t), Limit(t))
           /\ server[s.name].maxDeliver = s.maxDeliver /\ server[s.name].filter = FilterOf(s)
           /\ server[t.name].maxDeliver = t.maxDeliver /\ server[t.name].filter = FilterOf(t)
<1>1. /\ s.name \in {"S", "T"} /\ t.name \in {"S", "T"}
      /\ DOMAIN LeftBehind = {"S", "T"}
  BY StreamIs DEF LeftBehind
<1>2. PICK sName, tName, sHas, tHas :
          /\ sName = s.name /\ tName = t.name
          /\ sHas = [filter |-> FilterOf(s), maxDeliver |-> s.maxDeliver]
          /\ tHas = [filter |-> FilterOf(t), maxDeliver |-> t.maxDeliver]
  OBVIOUS
<1>3. first = [LeftBehind EXCEPT ![sName] = sHas]
  BY <1>2 DEF Applied
<1>4. first[sName] = sHas /\ DOMAIN first = {"S", "T"}
  BY <1>1, <1>2, <1>3
<1>5. server = [first EXCEPT ![tName] = tHas]
  BY <1>2 DEF Applied
<1>6. server[tName] = tHas /\ server[sName] = sHas
  BY <1>1, <1>2, <1>4, <1>5
<1>7. Configured(LeftBehind, s) = Told(ConsumerOf(s), FilterOf(s), Limit(s))
  <2>1. Applied(LeftBehind, s)[s.name] = sHas
    BY <1>2, <1>4
  <2>2. sHas.filter = FilterOf(s) /\ sHas.maxDeliver = s.maxDeliver
    BY <1>2
  <2>3. QED
    BY <2>1, <2>2 DEF Configured, Limit
<1>8. Configured(first, t) = Told(ConsumerOf(t), FilterOf(t), Limit(t))
  <2>1. Applied(first, t)[t.name] = tHas
    BY <1>2, <1>6
  <2>2. tHas.filter = FilterOf(t) /\ tHas.maxDeliver = t.maxDeliver
    BY <1>2
  <2>3. QED
    BY <2>1, <2>2 DEF Configured, Limit
<1>9. QED
  BY <1>2, <1>6, <1>7, <1>8

LEMMA TopologyEnforced == TopologyIsEnforced
<1> SUFFICES ASSUME NEW s \in Streams, NEW t \in Streams, s.name # t.name,
                    ConsumerOf(s) # ConsumerOf(t), NEW stream \in {s, t},
                    NEW n \in {k \in 1 .. 3 : k <= Unlimited},
                    NEW first, first = Applied(LeftBehind, s),
                    NEW server, server = Applied(first, t),
                    NEW told, told = <<Configured(LeftBehind, s), Configured(first, t)>>
             PROVE  /\ MaxDeliverFires(Append(told, Delivery(ConsumerOf(stream), n, "p", 0))) <=>
                           /\ server[stream.name].maxDeliver >= 0
                           /\ n > server[stream.name].maxDeliver
                    /\ \A subject \in {<<"a", "dead">>, <<"b">>, <<"old">>} :
                           DeadLetterFires(Append(told, DeadLettered(subject))) <=>
                               \E name \in {"S", "T"} : SubjectMatches(server[name].filter, subject)
  BY DEF TopologyIsEnforced
<1>1. PICK a, b : a = Configured(LeftBehind, s) /\ b = Configured(first, t)
  OBVIOUS
<1>2. a = Told(ConsumerOf(s), FilterOf(s), Limit(s)) /\ b = Told(ConsumerOf(t), FilterOf(t), Limit(t))
  BY <1>1, StreamsApplied
<1>3. /\ a.event = "configured" /\ a.consumer = ConsumerOf(s) /\ a.filter = FilterOf(s)
      /\ a.max = Limit(s)
      /\ b.event = "configured" /\ b.consumer = ConsumerOf(t) /\ b.filter = FilterOf(t)
      /\ b.max = Limit(t)
  BY <1>2 DEF Told
<1>4. /\ server[s.name].maxDeliver = s.maxDeliver /\ server[s.name].filter = FilterOf(s)
      /\ server[t.name].maxDeliver = t.maxDeliver /\ server[t.name].filter = FilterOf(t)
  BY StreamsApplied
<1>5. told = <<a, b>>
  BY <1>1
<1>6. MaxDeliverFires(Append(told, Delivery(ConsumerOf(stream), n, "p", 0))) <=>
          /\ server[stream.name].maxDeliver >= 0
          /\ n > server[stream.name].maxDeliver
  <2>1. PICK last, events : /\ last = Delivery(ConsumerOf(stream), n, "p", 0)
                            /\ events = Append(<<a, b>>, last)
    OBVIOUS
  <2>2. /\ last.event = "delivered" /\ last.consumer = ConsumerOf(stream) /\ last.count = n
        /\ last.at = 0
    BY <2>1 DEF Delivery
  <2>3. last.consumer \in {a.consumer, b.consumer} /\ last.at \in Nat
    BY <1>3, <2>2
  <2>4. JudgedByTwo(events, a, b, last)
    BY <1>3, <2>1, <2>2, <2>3, TwoJudge
  <2>5. MaxDeliverFires(events) <=> \/ ConsumerOf(stream) = ConsumerOf(s) /\ n > Limit(s)
                                    \/ ConsumerOf(stream) = ConsumerOf(t) /\ n > Limit(t)
    BY <1>3, <2>2, <2>4 DEF JudgedByTwo
  <2>6. MaxDeliverFires(events) <=> n > Limit(stream)
    <3>1. CASE stream = s
      BY <2>5, <3>1
    <3>2. CASE stream = t
      BY <2>5, <3>2
    <3>3. QED
      BY <3>1, <3>2
  <2>7. PICK most \in Nat : most = Unlimited
    BY ChecksAssumption
  <2>8. n \in Nat /\ ~(n > most)
    BY <2>7
  <2>9. PICK max \in {-1, 1, 2} : max = stream.maxDeliver
    BY StreamIs
  <2>10. n > Limit(stream) <=> max >= 0 /\ n > max
    BY <2>7, <2>8, <2>9 DEF Limit
  <2>11. server[stream.name].maxDeliver = max
    BY <1>4, <2>9
  <2>12. QED
    BY <1>5, <2>1, <2>6, <2>10, <2>11
<1>7. ASSUME NEW subject
      PROVE  DeadLetterFires(Append(told, DeadLettered(subject))) <=>
                 \E name \in {"S", "T"} : SubjectMatches(server[name].filter, subject)
  <2>1. PICK last, events : last = DeadLettered(subject) /\ events = Append(<<a, b>>, last)
    OBVIOUS
  <2>2. last.event = "deadLettered" /\ last.subject = subject
    BY <2>1 DEF DeadLettered
  <2>3. JudgedByTwo(events, a, b, last)
    BY <1>3, <2>1, <2>2, TwoJudge
  <2>4. DeadLetterFires(events) <=> \/ SubjectMatches(FilterOf(s), subject)
                                    \/ SubjectMatches(FilterOf(t), subject)
    BY <1>3, <2>2, <2>3 DEF JudgedByTwo
  <2>5. {"S", "T"} = {s.name, t.name}
    BY StreamIs
  <2>6. (\E name \in {"S", "T"} : SubjectMatches(server[name].filter, subject)) <=>
            \/ SubjectMatches(server[s.name].filter, subject)
            \/ SubjectMatches(server[t.name].filter, subject)
    BY <2>5
  <2>7. QED
    BY <1>4, <1>5, <2>1, <2>4, <2>6
<1>8. QED
  BY <1>6, <1>7

-----------------------------------------------------------------------------
\* The instances that are looked at.

LEMMA UptoIs ==
    ASSUME NEW n \in Nat, NEW set, NEW list \in Upto(n, set)
    PROVE  /\ list \in Seq(set) /\ list # <<>>
           /\ \E k \in Nat : DOMAIN list = 1 .. k
<1>1. PICK k \in 1 .. n : list \in [1 .. k -> set]
  BY DEF Upto
<1>2. list \in Seq(set) /\ Len(list) = k /\ k \in Nat /\ k # 0
  BY <1>1
<1>3. list # <<>>
  BY <1>2
<1>4. QED
  BY <1>1, <1>2, <1>3

LEMMA FiltersExact == FiltersAreExact
<1> SUFFICES ASSUME NEW filter \in Upto(3, {"a", "b", "*", ">"}), NEW subject \in Upto(3, {"a", "b"})
             PROVE  FilterIsExact(filter, subject)
  BY DEF FiltersAreExact
<1>1. PICK words : words = {"a", "b", "*", ">"}
  OBVIOUS
<1>2. filter \in Seq(words) /\ filter # <<>>
  BY <1>1, UptoIs
<1>3. subject \in Seq(words)
  <2>1. subject \in Upto(3, words)
    BY <1>1 DEF Upto
  <2>2. QED
    BY <2>1, UptoIs
<1>4. QED
  BY <1>2, <1>3, FilterExact

LEMMA SightingsJudged == SightingsAreJudged
<1> SUFFICES ASSUME NEW events \in Upto(3, Sightings) \cup [1 .. 4 -> Payloads], InTime(events)
             PROVE  ChecksAreExact(events)
  BY DEF SightingsAreJudged
<1>1. PICK n \in Nat : DOMAIN events = 1 .. n
  <2>1. CASE events \in Upto(3, Sightings)
    BY <2>1, UptoIs
  <2>2. CASE events \in [1 .. 4 -> Payloads]
    BY <2>2
  <2>3. QED
    BY <2>1, <2>2
<1>2. QED
  BY <1>1, CheckersExact

-----------------------------------------------------------------------------
\* What is read from a socket.

Follower == <<Line("PING", <<>>)>>

\* A line and what follows it.
LEMMA TwoTokens ==
    ASSUME NEW a, NEW b, NEW rest \in {<<>>, Follower}
    PROVE  LET socket == <<a, b>> \o rest IN
           /\ socket # <<>> /\ Head(socket) = a
           /\ Tail(socket) # <<>> /\ Head(Tail(socket)) = b
           /\ Tail(Tail(socket)) = rest
<1>1. CASE rest = <<>>
  <2>1. <<a, b>> \o rest = <<a, b>>
    BY <1>1
  <2>2. QED
    BY <1>1, <2>1
<1>2. CASE rest = Follower
  <2>1. PICK c : rest = <<c>>
    BY <1>2 DEF Follower
  <2>2. <<a, b>> \o rest = <<a, b, c>>
    <3>1. PICK set : set = {a, b, c}
      OBVIOUS
    <3>2. <<a, b>> \in Seq(set) /\ rest \in Seq(set) /\ <<a, b, c>> \in Seq(set)
      BY <2>1, <3>1
    <3>3. Len(rest) = 1 /\ rest[1] = c
      BY <2>1
    <3>4. PICK pair \in Seq(set) : pair = <<a, b>>
      BY <3>2
    <3>5. PICK both : both = pair \o rest
      OBVIOUS
    <3>6. /\ both \in Seq(set) /\ Len(both) = Len(pair) + Len(rest)
          /\ \A i \in 1 .. Len(pair) + Len(rest) :
                 both[i] = IF i <= Len(pair) THEN pair[i] ELSE rest[i - Len(pair)]
      BY <3>2, <3>5, ConcatProperties
    <3>7. Len(pair) = 2 /\ pair[1] = a /\ pair[2] = b
      BY <3>4
    <3>8. Len(both) = 3 /\ both[1] = a /\ both[2] = b /\ both[3] = c
      BY <3>3, <3>6, <3>7
    <3>9. PICK whole \in Seq(set) : whole = <<a, b, c>>
      BY <3>2
    <3>10. Len(whole) = 3 /\ whole[1] = a /\ whole[2] = b /\ whole[3] = c
      BY <3>9
    <3>11. both = whole
      BY <3>6, <3>8, <3>10, SeqEqual
    <3>12. QED
      BY <3>4, <3>5, <3>9, <3>11
  <2>3. PICK both : both = <<a, b, c>>
    OBVIOUS
  <2>4. Head(both) = a /\ both # <<>> /\ Tail(both) = <<b, c>>
    BY <2>3
  <2>5. Tail(Tail(both)) = <<c>> /\ Head(Tail(both)) = b /\ Tail(both) # <<>>
    <3>1. PICK tail : tail = <<b, c>>
      OBVIOUS
    <3>2. Tail(tail) = <<c>> /\ Head(tail) = b /\ tail # <<>>
      BY <3>1
    <3>3. QED
      BY <2>4, <3>1, <3>2
  <2>6. QED
    BY <2>1, <2>2, <2>3, <2>4, <2>5
<1>3. QED
  BY <1>1, <1>2

LEMMA OneThenOne ==
    ASSUME NEW a, NEW b
    PROVE  <<a>> \o <<b>> = <<a, b>>
<1>1. PICK set : set = {a, b}
  OBVIOUS
<1>2. PICK first \in Seq(set), second \in Seq(set), both \in Seq(set) :
          first = <<a>> /\ second = <<b>> /\ both = <<a, b>>
  <2>1. <<a>> \in Seq(set) /\ <<b>> \in Seq(set) /\ <<a, b>> \in Seq(set)
    BY <1>1
  <2>2. QED
    BY <2>1
<1>3. /\ Len(first) = 1 /\ first[1] = a /\ Len(second) = 1 /\ second[1] = b
      /\ Len(both) = 2 /\ both[1] = a /\ both[2] = b
  BY <1>2
<1>4. PICK joined : joined = first \o second
  OBVIOUS
<1>5. /\ joined \in Seq(set) /\ Len(joined) = Len(first) + Len(second)
      /\ \A i \in 1 .. Len(first) + Len(second) :
             joined[i] = IF i <= Len(first) THEN first[i] ELSE second[i - Len(first)]
  BY <1>4, ConcatProperties
<1>6. Len(joined) = 2 /\ joined[1] = a /\ joined[2] = b
  BY <1>3, <1>5
<1>7. joined = both
  BY <1>3, <1>5, <1>6, SeqEqual
<1>8. QED
  BY <1>2, <1>4, <1>7

\* A publish or a message whose last word is its length is read whole, or not at all.
WholeRead(op, args, line, bytes, payload, rest) ==
    ReadFrame(<<line, Body(bytes)>> \o rest) =
        IF Len(bytes) > MaxPayload THEN Failed
        ELSE Taken(Frame(IF op \in PublishOps THEN "publish" ELSE "message",
                         Some(Head(args)), ReplyTo(line), payload, <<line, Body(bytes)>>),
                   rest)

LEMMA ReadWhole ==
    ASSUME NEW op \in PublishOps \cup MessageOps, NEW args, NEW n \in Nat, n >= 2, Len(args) = n,
           NEW bytes, Len(bytes) \in Nat, args[n] = Number(Len(bytes)), args # <<>>,
           NEW rest \in {<<>>, Follower}, NEW line, line = Line(op, args),
           NEW payload, WithoutHeaders(line, bytes) = Some(payload)
    PROVE  WholeRead(op, args, line, bytes, payload, rest)
<1>1. PICK socket : socket = <<line, Body(bytes)>> \o rest
  OBVIOUS
<1>2. /\ socket # <<>> /\ Head(socket) = line /\ Tail(socket) # <<>>
      /\ Head(Tail(socket)) = Body(bytes) /\ Tail(Tail(socket)) = rest
  BY <1>1, TwoTokens
<1>3. line.token = "line" /\ line.op = op /\ line.args = args
  BY DEF Line
<1>4. Last(args) = Number(Len(bytes)) /\ IsNumber(Last(args)) /\ Last(args).number = Len(bytes)
  BY DEF Last, Number, IsNumber
<1>5. LengthOf(line) = <<Len(bytes)>>
  BY <1>3, <1>4 DEF LengthOf, Some
<1>6. PICK tail : tail = Tail(socket)
  OBVIOUS
<1>7. ReadBody(tail, Len(bytes)) =
          IF Len(bytes) > MaxPayload THEN Failed ELSE Taken(bytes, rest)
  <2>1. Head(tail).token = "body" /\ Head(tail).bytes = bytes /\ tail # <<>> /\ Tail(tail) = rest
    BY <1>2, <1>6 DEF Body
  <2>2. PICK size \in Nat, most \in Nat : size = Len(bytes) /\ most = MaxPayload
    BY PayloadAssumption
  <2>3. size <= most <=> ~(size > most)
    OBVIOUS
  <2>4. QED
    BY <2>1, <2>2, <2>3 DEF ReadBody
<1>8. CASE Len(bytes) > MaxPayload
  <2>1. ReadBody(tail, Len(bytes)) = Failed /\ ~IsTaken(Failed)
    BY <1>7, <1>8 DEF Failed, IsTaken
  <2>2. QED
    BY <1>1, <1>2, <1>3, <1>5, <1>6, <1>8, <2>1 DEF WholeRead, ReadFrame
<1>9. CASE ~(Len(bytes) > MaxPayload)
  <2>1. PICK body : body = Taken(bytes, rest)
    OBVIOUS
  <2>2. ReadBody(tail, Len(bytes)) = body /\ IsTaken(body) /\ body.result = bytes /\ body.left = rest
    BY <1>7, <1>9, <2>1 DEF Taken, IsTaken
  <2>3. WithoutHeaders(line, body.result) # None /\ WithoutHeaders(line, body.result)[1] = payload
    <3>1. WithoutHeaders(line, body.result) = <<payload>>
      BY <2>2 DEF Some
    <3>2. <<payload>> # <<>> /\ <<payload>>[1] = payload
      OBVIOUS
    <3>3. QED
      BY <3>1, <3>2 DEF None
  <2>4. LengthOf(line) # None /\ LengthOf(line)[1] = Len(bytes)
    BY <1>5 DEF None
  <2>5. QED
    BY <1>1, <1>2, <1>3, <1>6, <1>9, <2>2, <2>3, <2>4 DEF WholeRead, ReadFrame
<1>10. QED
  BY <1>8, <1>9

-----------------------------------------------------------------------------
\* The words of an operation: what comes before the numbers is known.

\* One or two numbers after up to three words.
Words == {Subject, Inbox} \cup {Number(n) : n \in Nat}
Between == {<<>>, <<Inbox>>, <<Number(7)>>, <<Number(7), Inbox>>}

LEMMA BetweenIs ==
    ASSUME NEW between \in Between
    PROVE  /\ between \in Seq(Words) /\ Len(between) \in 0 .. 2
           /\ Subject \in Words
<1>1. PICK inbox \in Words, seven \in Words : inbox = Inbox /\ seven = Number(7)
  BY DEF Words
<1>2. between \in {<<>>, <<inbox>>, <<seven>>, <<seven, inbox>>}
  BY <1>1 DEF Between
<1>3. between \in Seq(Words)
  <2>1. /\ <<>> \in Seq(Words) /\ <<inbox>> \in Seq(Words) /\ <<seven>> \in Seq(Words)
        /\ <<seven, inbox>> \in Seq(Words)
    OBVIOUS
  <2>2. QED
    BY <1>2, <2>1
<1>4. Len(between) \in 0 .. 2
  BY <1>2
<1>5. Subject \in Words
  BY DEF Words
<1>6. QED
  BY <1>3, <1>4, <1>5

LEMMA PlainWords ==
    ASSUME NEW between \in Between, NEW size \in Nat,
           NEW args, args = <<Subject>> \o between \o <<Number(size)>>
    PROVE  /\ Len(args) = Len(between) + 2 /\ args # <<>> /\ Head(args) = Subject
           /\ args[Len(between) + 2] = Number(size)
           /\ \A i \in 1 .. Len(between) : args[i + 1] = between[i]
<1>1. PICK one \in Seq(Words), last \in Seq(Words) :
          /\ one = <<Subject>> /\ Len(one) = 1 /\ one[1] = Subject
          /\ last = <<Number(size)>> /\ Len(last) = 1 /\ last[1] = Number(size)
  <2>1. Number(size) \in Words /\ Subject \in Words
    BY DEF Words
  <2>2. <<Subject>> \in Seq(Words) /\ <<Number(size)>> \in Seq(Words)
    BY <2>1
  <2>3. QED
    BY <2>2
<1>2. PICK m \in 0 .. 2 : m = Len(between)
  BY BetweenIs
<1>3. between \in Seq(Words)
  BY BetweenIs
<1>4. PICK head : head = one \o between
  OBVIOUS
<1>5. /\ head \in Seq(Words) /\ Len(head) = 1 + m
      /\ \A i \in 1 .. 1 + m : head[i] = IF i <= 1 THEN one[i] ELSE between[i - 1]
  BY <1>1, <1>2, <1>3, <1>4, ConcatProperties
<1>6. PICK len \in Nat : len = Len(head) /\ len = 1 + m
  BY <1>5
<1>7. /\ args \in Seq(Words) /\ Len(args) = len + 1
      /\ \A i \in 1 .. len + 1 : args[i] = IF i <= len THEN head[i] ELSE last[i - len]
  BY <1>1, <1>4, <1>5, <1>6, ConcatProperties
<1>8. args[1] = Subject /\ args[m + 2] = Number(size) /\ Len(args) = m + 2
  BY <1>1, <1>5, <1>6, <1>7
<1>9. \A i \in 1 .. m : args[i + 1] = between[i]
  BY <1>5, <1>6, <1>7
<1>10. args # <<>> /\ Head(args) = args[1]
  BY <1>7, <1>8, HeadTailProperties
<1>11. QED
  BY <1>2, <1>8, <1>9, <1>10

LEMMA HeadedWords ==
    ASSUME NEW between \in Between, NEW first \in Nat, NEW size \in Nat,
           NEW args, args = <<Subject>> \o between \o <<Number(first), Number(size)>>
    PROVE  /\ Len(args) = Len(between) + 3 /\ args # <<>> /\ Head(args) = Subject
           /\ args[Len(between) + 2] = Number(first) /\ args[Len(between) + 3] = Number(size)
           /\ \A i \in 1 .. Len(between) : args[i + 1] = between[i]
<1>1. PICK one \in Seq(Words), last \in Seq(Words) :
          /\ one = <<Subject>> /\ Len(one) = 1 /\ one[1] = Subject
          /\ last = <<Number(first), Number(size)>> /\ Len(last) = 2
          /\ last[1] = Number(first) /\ last[2] = Number(size)
  <2>1. Number(size) \in Words /\ Number(first) \in Words /\ Subject \in Words
    BY DEF Words
  <2>2. <<Subject>> \in Seq(Words) /\ <<Number(first), Number(size)>> \in Seq(Words)
    BY <2>1
  <2>3. QED
    BY <2>2
<1>2. PICK m \in 0 .. 2 : m = Len(between)
  BY BetweenIs
<1>3. between \in Seq(Words)
  BY BetweenIs
<1>4. PICK head : head = one \o between
  OBVIOUS
<1>5. /\ head \in Seq(Words) /\ Len(head) = 1 + m
      /\ \A i \in 1 .. 1 + m : head[i] = IF i <= 1 THEN one[i] ELSE between[i - 1]
  BY <1>1, <1>2, <1>3, <1>4, ConcatProperties
<1>6. PICK len \in Nat : len = Len(head) /\ len = 1 + m
  BY <1>5
<1>7. /\ args \in Seq(Words) /\ Len(args) = len + 2
      /\ \A i \in 1 .. len + 2 : args[i] = IF i <= len THEN head[i] ELSE last[i - len]
  BY <1>1, <1>4, <1>5, <1>6, ConcatProperties
<1>8. args[1] = Subject /\ args[m + 2] = Number(first) /\ args[m + 3] = Number(size) /\ Len(args) = m + 3
  <2>1. Len(args) = m + 3 /\ 1 \in 1 .. len /\ 1 \in 1 .. len + 2
    BY <1>6, <1>7
  <2>2. m + 2 \in 1 .. len + 2 /\ ~(m + 2 <= len) /\ (m + 2) - len = 1
    BY <1>6
  <2>3. m + 3 \in 1 .. len + 2 /\ ~(m + 3 <= len) /\ (m + 3) - len = 2
    BY <1>6
  <2>4. args[m + 2] = last[1] /\ args[m + 3] = last[2]
    BY <1>7, <2>2, <2>3
  <2>5. args[1] = Subject
    BY <1>1, <1>5, <1>6, <1>7
  <2>6. QED
    BY <1>1, <2>1, <2>4, <2>5
<1>9. \A i \in 1 .. m : args[i + 1] = between[i]
  BY <1>5, <1>6, <1>7
<1>10. args # <<>> /\ Head(args) = args[1]
  BY <1>7, <1>8, HeadTailProperties
<1>11. QED
  BY <1>2, <1>8, <1>9, <1>10

\* Where answers go is the second word of those between, if there are two.
LEMMA PlainReply ==
    ASSUME NEW between \in Between, NEW size \in Nat, NEW op \in PublishOps \cup MessageOps,
           op \notin HeadedOps,
           NEW line, line = Line(op, <<Subject>> \o between \o <<Number(size)>>)
    PROVE  ReplyTo(line) = IF op \in MessageOps /\ Len(between) = 2 THEN Some(between[2]) ELSE None
<1>1. PICK args : args = <<Subject>> \o between \o <<Number(size)>> /\ line.args = args /\ line.op = op
  BY DEF Line
<1>0. PICK m \in 0 .. 2 : m = Len(between)
  BY BetweenIs
<1>2. PICK len : len = Len(args) /\ len = m + 2
  <2>1. Len(args) = Len(between) + 2
    BY <1>1, PlainWords
  <2>2. QED
    BY <1>0, <2>1
<1>3. len > 3 <=> m = 2
  BY <1>2
<1>4. m = 2 => args[3] = between[2]
  <2>1. m = 2 => 2 \in 1 .. m /\ 2 + 1 = 3
    OBVIOUS
  <2>2. \A i \in 1 .. Len(between) : args[i + 1] = between[i]
    BY <1>1, PlainWords
  <2>3. QED
    BY <1>0, <2>1, <2>2
<1>5. QED
  BY <1>0, <1>1, <1>2, <1>3, <1>4 DEF ReplyTo

LEMMA HeadedReply ==
    ASSUME NEW between \in Between, NEW first \in Nat, NEW size \in Nat, NEW op \in HeadedOps,
           NEW line, line = Line(op, <<Subject>> \o between \o <<Number(first), Number(size)>>)
    PROVE  ReplyTo(line) = IF op \in MessageOps /\ Len(between) = 2 THEN Some(between[2]) ELSE None
<1>1. PICK args : /\ args = <<Subject>> \o between \o <<Number(first), Number(size)>>
                  /\ line.args = args /\ line.op = op
  BY DEF Line
<1>0. PICK m \in 0 .. 2 : m = Len(between)
  BY BetweenIs
<1>2. PICK len : len = Len(args) /\ len = m + 3
  <2>1. Len(args) = Len(between) + 3
    BY <1>1, HeadedWords
  <2>2. QED
    BY <1>0, <2>1
<1>3. len > 4 <=> m = 2
  BY <1>2
<1>4. m = 2 => args[3] = between[2]
  <2>1. m = 2 => 2 \in 1 .. m /\ 2 + 1 = 3
    OBVIOUS
  <2>2. \A i \in 1 .. Len(between) : args[i + 1] = between[i]
    BY <1>1, HeadedWords
  <2>3. QED
    BY <1>0, <2>1, <2>2
<1>5. QED
  BY <1>0, <1>1, <1>2, <1>3, <1>4 DEF ReplyTo

-----------------------------------------------------------------------------
\* Payloads.

LEMMA BytesAre ==
    ASSUME NEW bytes \in Bytes
    PROVE  bytes \in Seq({0, 1}) /\ Len(bytes) \in Nat /\ Len(bytes) <= MaxPayload
<1>1. PICK n \in 0 .. MaxPayload : bytes \in [1 .. n -> {0, 1}]
  BY DEF Bytes
<1>2. n \in Nat /\ n <= MaxPayload
  BY <1>1, PayloadAssumption
<1>3. QED
  BY <1>1, <1>2

\* What follows the headers.
LEMMA AfterHeaders ==
    ASSUME NEW header \in Seq({0, 1}), NEW payload \in Seq({0, 1})
    PROVE  SubSeq(header \o payload, Len(header) + 1, Len(header \o payload)) = payload
BY SubSeqOfConcat2

LEMMA PlainPayload ==
    ASSUME NEW op, op \notin HeadedOps, NEW args, NEW line, line = Line(op, args), NEW body
    PROVE  WithoutHeaders(line, body) = Some(body)
BY DEF WithoutHeaders, Line

HeadersOff(op, args, header, payload) ==
    WithoutHeaders(Line(op, args), header \o payload) = Some(payload)

LEMMA HeadedPayload ==
    ASSUME NEW op \in HeadedOps, NEW args, NEW n \in Nat, n >= 2, Len(args) = n,
           NEW header \in Seq({0, 1}), NEW payload \in Seq({0, 1}),
           args[n - 1] = Number(Len(header))
    PROVE  HeadersOff(op, args, header, payload)
<1>0. PICK line : line = Line(op, args)
  OBVIOUS
<1>1. line.op = op /\ line.args = args
  BY <1>0 DEF Line
<1>2. PICK h \in Nat, p \in Nat, all \in Nat :
          /\ h = Len(header) /\ p = Len(payload) /\ all = Len(header \o payload) /\ all = h + p
  <2>1. Len(header) \in Nat /\ Len(payload) \in Nat
    OBVIOUS
  <2>2. Len(header \o payload) = Len(header) + Len(payload)
    BY ConcatProperties
  <2>3. QED
    BY <2>1, <2>2
<1>3. IsNumber(args[n - 1]) /\ args[n - 1].number = h
  BY <1>2 DEF IsNumber, Number
<1>4. ~(h > all) /\ ~(n < 2)
  BY <1>2
<1>5. SubSeq(header \o payload, h + 1, all) = payload
  BY <1>2, AfterHeaders
<1>6. QED
  BY <1>0, <1>1, <1>2, <1>3, <1>4, <1>5 DEF WithoutHeaders, HeadersOff

\* Every form of an operation.
Kind(op) == IF op \in PublishOps THEN "publish" ELSE "message"
AnswerTo(op, between) ==
    IF op \in MessageOps /\ Len(between) = 2 THEN Some(between[2]) ELSE None

LEMMA PlainIsRead ==
    ASSUME NEW op \in PublishOps \cup MessageOps, op \notin HeadedOps,
           NEW between \in Between, NEW payload \in Bytes
    PROVE  Reads(Plain(op, between, payload), Kind(op), AnswerTo(op, between), payload)
<1>1. PICK size \in Nat : size = Len(payload) /\ size <= MaxPayload
  BY BytesAre
<1>2. PICK args, line : /\ args = <<Subject>> \o between \o <<Number(size)>>
                        /\ line = Line(op, args)
  OBVIOUS
<1>3. PICK m \in 0 .. 2, n \in Nat : m = Len(between) /\ n = m + 2
  BY BetweenIs
<1>4. Len(args) = n /\ n >= 2 /\ args # <<>> /\ Head(args) = Subject /\ args[n] = Number(size)
  BY <1>1, <1>2, <1>3, PlainWords
<1>5. WithoutHeaders(line, payload) = Some(payload)
  BY <1>2, PlainPayload
<1>6. ReplyTo(line) = AnswerTo(op, between)
  BY <1>1, <1>2, PlainReply DEF AnswerTo
<1>7. \A rest \in {<<>>, Follower} :
          ReadFrame(<<line, Body(payload)>> \o rest) =
              IF Len(payload) > MaxPayload THEN Failed
              ELSE Taken(Frame(Kind(op), Some(Head(args)), ReplyTo(line), payload,
                               <<line, Body(payload)>>), rest)
  <2>1. TAKE rest \in {<<>>, Follower}
  <2>2. Len(payload) \in Nat /\ args[n] = Number(Len(payload))
    BY <1>1, <1>4
  <2>3. WholeRead(op, args, line, payload, payload, rest)
    BY <1>2, <1>3, <1>4, <1>5, <2>2, ReadWhole
  <2>4. QED
    BY <2>3 DEF WholeRead, Kind
<1>8. ~(Len(payload) > MaxPayload)
  BY <1>1, PayloadAssumption
<1>9. PICK sent : sent = <<line, Body(payload)>>
  OBVIOUS
<1>10. sent = Plain(op, between, payload)
  BY <1>1, <1>2, <1>9 DEF Plain
<1>11. sent[2].bytes = payload
  BY <1>9 DEF Body
<1>12. QED
  BY <1>1, <1>4, <1>6, <1>7, <1>8, <1>9, <1>10, <1>11 DEF Reads, Follower

LEMMA HeadedIsRead ==
    ASSUME NEW op \in HeadedOps, NEW between \in Between,
           NEW header \in Bytes, NEW payload \in Bytes
    PROVE  Reads(WithHeader(op, between, header, payload), Kind(op), AnswerTo(op, between), payload)
<1>1. PICK h \in Nat, p \in Nat : h = Len(header) /\ p = Len(payload)
  BY BytesAre
<1>2. header \in Seq({0, 1}) /\ payload \in Seq({0, 1})
  BY BytesAre
<1>3. PICK body : body = header \o payload /\ Len(body) = h + p
  BY <1>1, <1>2, ConcatProperties
<1>0. PICK size \in Nat : size = h + p
  OBVIOUS
<1>4. PICK args, line : /\ args = <<Subject>> \o between \o <<Number(h), Number(size)>>
                        /\ line = Line(op, args)
  OBVIOUS
<1>5. PICK m \in 0 .. 2, n \in Nat : m = Len(between) /\ n = m + 3
  BY BetweenIs
<1>6. /\ Len(args) = n /\ n >= 2 /\ args # <<>> /\ Head(args) = Subject
      /\ args[n] = Number(size) /\ args[n - 1] = Number(h)
  BY <1>1, <1>4, <1>5, HeadedWords
<1>7. WithoutHeaders(line, body) = Some(payload)
  <2>1. args[n - 1] = Number(Len(header))
    BY <1>1, <1>6
  <2>2. Len(args) = n /\ n \in Nat /\ n >= 2
    BY <1>5, <1>6
  <2>3. HeadersOff(op, args, header, payload)
    BY <1>2, <2>1, <2>2, HeadedPayload
  <2>4. QED
    BY <1>3, <1>4, <2>3 DEF HeadersOff
<1>8. ReplyTo(line) = AnswerTo(op, between)
  BY <1>4, HeadedReply DEF AnswerTo
<1>9. op \in PublishOps \cup MessageOps
  BY DEF HeadedOps, PublishOps, MessageOps
<1>10. \A rest \in {<<>>, Follower} :
          ReadFrame(<<line, Body(body)>> \o rest) =
              IF Len(body) > MaxPayload THEN Failed
              ELSE Taken(Frame(Kind(op), Some(Head(args)), ReplyTo(line), payload,
                               <<line, Body(body)>>), rest)
  <2>1. TAKE rest \in {<<>>, Follower}
  <2>2. Len(body) \in Nat /\ args[n] = Number(Len(body))
    BY <1>0, <1>3, <1>6
  <2>3. WholeRead(op, args, line, body, payload, rest)
    BY <1>4, <1>5, <1>6, <1>7, <1>9, <2>2, ReadWhole
  <2>4. QED
    BY <2>3 DEF WholeRead, Kind
<1>11. PICK sent : sent = <<line, Body(body)>>
  OBVIOUS
<1>12. sent = WithHeader(op, between, header, payload)
  BY <1>0, <1>1, <1>3, <1>4, <1>11 DEF WithHeader
<1>13. sent[2].bytes = body
  BY <1>11 DEF Body
<1>14. Len(body) > MaxPayload <=> ~(Len(body) <= MaxPayload)
  BY <1>3, PayloadAssumption
<1>15. QED
  BY <1>6, <1>8, <1>10, <1>11, <1>12, <1>13, <1>14 DEF Reads, Follower

LEMMA EveryFrameIsRead == FramesAreRead
<1> SUFFICES ASSUME NEW header \in Bytes, NEW payload \in Bytes, NEW reply \in {<<>>, <<Inbox>>}
             PROVE  /\ Reads(Plain("PUB", reply, payload), "publish", None, payload)
                    /\ Reads(WithHeader("HPUB", reply, header, payload), "publish", None, payload)
                    /\ Reads(Plain("MSG", <<Number(7)>> \o reply, payload), "message", reply, payload)
                    /\ Reads(WithHeader("HMSG", <<Number(7)>> \o reply, header, payload), "message",
                             reply, payload)
  BY DEF FramesAreRead
<1>1. reply \in Between /\ AnswerTo("PUB", reply) = None /\ AnswerTo("HPUB", reply) = None
  BY DEF Between, AnswerTo, MessageOps, None
<1>2. PICK between : between = <<Number(7)>> \o reply
  OBVIOUS
<1>3. /\ between \in Between
      /\ (IF Len(between) = 2 THEN Some(between[2]) ELSE None) = reply
  <2>1. CASE reply = <<>>
    <3>1. PICK seven : seven = Number(7)
      OBVIOUS
    <3>2. between = <<seven>>
      BY <1>2, <2>1, <3>1
    <3>3. QED
      BY <2>1, <3>1, <3>2 DEF Between, None
  <2>2. CASE reply = <<Inbox>>
    <3>1. PICK seven, inbox : seven = Number(7) /\ inbox = Inbox
      OBVIOUS
    <3>2. between = <<seven>> \o <<inbox>>
      BY <1>2, <2>2, <3>1
    <3>3. between = <<seven, inbox>>
      BY <3>2, OneThenOne
    <3>4. Len(between) = 2 /\ between[2] = inbox
      BY <3>3
    <3>5. QED
      BY <2>2, <3>1, <3>3, <3>4 DEF Between, Some
  <2>3. QED
    BY <2>1, <2>2
<1>4. AnswerTo("MSG", between) = reply /\ AnswerTo("HMSG", between) = reply
  BY <1>3 DEF AnswerTo, MessageOps
<1>5. /\ Kind("PUB") = "publish" /\ Kind("HPUB") = "publish"
      /\ Kind("MSG") = "message" /\ Kind("HMSG") = "message"
  BY DEF Kind, PublishOps
<1>6. /\ "PUB" \in PublishOps \cup MessageOps /\ "PUB" \notin HeadedOps
      /\ "MSG" \in PublishOps \cup MessageOps /\ "MSG" \notin HeadedOps
      /\ "HPUB" \in HeadedOps /\ "HMSG" \in HeadedOps
  BY DEF PublishOps, MessageOps, HeadedOps
<1>7. Reads(Plain("PUB", reply, payload), "publish", None, payload)
  BY <1>1, <1>5, <1>6, PlainIsRead
<1>8. Reads(WithHeader("HPUB", reply, header, payload), "publish", None, payload)
  BY <1>1, <1>5, <1>6, HeadedIsRead
<1>9. Reads(Plain("MSG", between, payload), "message", reply, payload)
  BY <1>3, <1>4, <1>5, <1>6, PlainIsRead
<1>10. Reads(WithHeader("HMSG", between, header, payload), "message", reply, payload)
  BY <1>3, <1>4, <1>5, <1>6, HeadedIsRead
<1>11. QED
  BY <1>2, <1>7, <1>8, <1>9, <1>10

-----------------------------------------------------------------------------
\* Streams that were cut off.

LEMMA Beginnings ==
    ASSUME NEW a, NEW b
    PROVE  /\ \A s : SubSeq(<<a, b>>, 1, 0) \o <<s>> = <<s>>
           /\ SubSeq(<<a, b>>, 1, 1) = <<a>>
           /\ SubSeq(<<a>>, 1, 0) = <<>> /\ \A s : <<>> \o <<s>> = <<s>>
<1>1. \A s : <<>> \o <<s>> = <<s>>
  OBVIOUS
<1>2. SubSeq(<<a, b>>, 1, 0) = <<>> /\ SubSeq(<<a>>, 1, 0) = <<>>
  OBVIOUS
<1>3. SubSeq(<<a, b>>, 1, 1) = <<a>>
  <2>1. PICK set : set = {a, b}
    OBVIOUS
  <2>2. <<a, b>> \in Seq(set) /\ <<a>> \in Seq(set)
    BY <2>1
  <2>3. PICK both \in Seq(set), one \in Seq(set) : both = <<a, b>> /\ one = <<a>>
    BY <2>2
  <2>4. both[1] = a /\ Len(both) = 2 /\ one[1] = a /\ Len(one) = 1
    BY <2>3
  <2>5. PICK first : first = SubSeq(both, 1, 1)
    OBVIOUS
  <2>6. first \in Seq(set) /\ Len(first) = 1 /\ first[1] = both[1]
    BY <2>4, <2>5, SubSeqProperties
  <2>7. first = one
    BY <2>4, <2>6, SeqEqual
  <2>8. QED
    BY <2>3, <2>5, <2>7
<1>4. QED
  BY <1>1, <1>2, <1>3

LEMMA CutIsNotRead ==
    ASSUME NEW line, line.token = "line"
    PROVE  /\ ReadFrame(<<>>) = Ended
           /\ ReadFrame(<<Torn>>) = Failed
           /\ line.op \in PublishOps \cup MessageOps =>
                  ReadFrame(<<line>>) = Failed /\ ReadFrame(<<line, Torn>>) = Failed
<1>1. ReadFrame(<<>>) = Ended
  BY DEF ReadFrame
<1>2. ReadFrame(<<Torn>>) = Failed
  <2>1. PICK torn : torn = Torn
    OBVIOUS
  <2>2. torn.token = "torn"
    BY <2>1 DEF Torn
  <2>3. <<torn>> # <<>> /\ Head(<<torn>>) = torn
    OBVIOUS
  <2>4. QED
    BY <2>1, <2>2, <2>3 DEF ReadFrame
<1>3. ASSUME line.op \in PublishOps \cup MessageOps, NEW rest, NEW socket,
             socket # <<>>, Head(socket) = line, Tail(socket) = rest,
             rest # <<>> => Head(rest).token # "body"
      PROVE  ReadFrame(socket) = Failed
  <2>1. \A n : ReadBody(rest, n) = Failed
    BY <1>3 DEF ReadBody
  <2>2. ~IsTaken(Failed)
    BY DEF IsTaken, Failed
  <2>3. QED
    BY <1>3, <2>1, <2>2 DEF ReadFrame
<1>4. <<line>> # <<>> /\ Head(<<line>>) = line /\ Tail(<<line>>) = <<>>
  OBVIOUS
<1>0. PICK torn : torn = Torn
  OBVIOUS
<1>5. torn.token = "torn"
  BY <1>0 DEF Torn
<1>6. /\ <<line, torn>> # <<>> /\ Head(<<line, torn>>) = line /\ Tail(<<line, torn>>) = <<torn>>
      /\ Head(<<torn>>) = torn
  OBVIOUS
<1>7. QED
  BY <1>0, <1>1, <1>2, <1>3, <1>4, <1>5, <1>6

LEMMA NothingIsCutShort == NoFrameIsCutShort
<1>1. ASSUME NEW payload \in Bytes
      PROVE  FailsWhenCut(Plain("MSG", <<Number(7)>>, payload), ReadFrame)
  <2>1. PICK line, body : /\ line.token = "line" /\ line.op = "MSG"
                          /\ Plain("MSG", <<Number(7)>>, payload) = <<line, body>>
    BY DEF Plain, Line
  <2>0. PICK sent : sent = <<line, body>>
    OBVIOUS
  <2>2. Len(sent) = 2
    BY <2>0
  <2>10. 1 - 1 = 0 /\ 2 - 1 = 1
    OBVIOUS
  <2>3. line.op \in PublishOps \cup MessageOps
    BY <2>1 DEF MessageOps
  <2>4. ReadFrame(<<>>) = Ended
    BY <2>1, CutIsNotRead
  <2>5. ReadFrame(SubSeq(sent, 1, 1 - 1) \o <<Torn>>) = Failed
    <3>1. SubSeq(sent, 1, 0) \o <<Torn>> = <<Torn>>
      BY <2>0, Beginnings
    <3>2. QED
      BY <2>1, <2>10, <3>1, CutIsNotRead
  <2>6. ReadFrame(SubSeq(sent, 1, 1)) = Failed
    <3>1. SubSeq(sent, 1, 1) = <<line>>
      BY <2>0, Beginnings
    <3>2. QED
      BY <2>1, <2>3, <3>1, CutIsNotRead
  <2>7. ReadFrame(SubSeq(sent, 1, 2 - 1) \o <<Torn>>) = Failed
    <3>1. SubSeq(sent, 1, 2 - 1) \o <<Torn>> = <<line, Torn>>
      <4>1. SubSeq(sent, 1, 1) = <<line>>
        BY <2>0, Beginnings
      <4>2. QED
        BY <2>10, <4>1, OneThenOne
    <3>2. QED
      BY <2>1, <2>3, <3>1, CutIsNotRead
  <2>8. \A i \in 1 .. 2 : i = 1 \/ i = 2
    OBVIOUS
  <2>9. \A i \in 1 .. Len(sent) :
            /\ ReadFrame(SubSeq(sent, 1, i - 1) \o <<Torn>>) = Failed
            /\ i < Len(sent) => ReadFrame(SubSeq(sent, 1, i)) = Failed
    BY <2>2, <2>5, <2>6, <2>7, <2>8
  <2>11. ReadFrame(<<>>) \in {Ended, Failed}
    BY <2>4
  <2>12. FailsWhenCut(sent, ReadFrame)
    BY <2>9, <2>11 DEF FailsWhenCut
  <2>13. QED
    BY <2>0, <2>1, <2>12
<1>2. FailsWhenCut(<<Line("PING", <<>>)>>, ReadFrame)
  <2>0. PICK ping, sent : ping = Line("PING", <<>>) /\ sent = <<ping>>
    OBVIOUS
  <2>1. ping.token = "line"
    BY <2>0 DEF Line
  <2>2. Len(sent) = 1 /\ 1 - 1 = 0
    BY <2>0
  <2>3. ReadFrame(<<>>) = Ended /\ ReadFrame(<<Torn>>) = Failed
    BY <2>1, CutIsNotRead
  <2>4. SubSeq(sent, 1, 1 - 1) \o <<Torn>> = <<Torn>>
    BY <2>0, <2>2, Beginnings
  <2>5. \A i \in 1 .. 1 : i = 1
    OBVIOUS
  <2>6. \A i \in 1 .. Len(sent) :
            /\ ReadFrame(SubSeq(sent, 1, i - 1) \o <<Torn>>) = Failed
            /\ i < Len(sent) => ReadFrame(SubSeq(sent, 1, i)) = Failed
    <3>1. \A i \in 1 .. Len(sent) : i = 1 /\ ~(i < Len(sent))
      BY <2>2
    <3>2. ReadFrame(SubSeq(sent, 1, 1 - 1) \o <<Torn>>) = Failed
      BY <2>3, <2>4
    <3>3. QED
      BY <3>1, <3>2
  <2>7. ReadFrame(<<>>) \in {Ended, Failed}
    BY <2>3
  <2>8. FailsWhenCut(sent, ReadFrame)
    BY <2>6, <2>7 DEF FailsWhenCut
  <2>9. QED
    BY <2>0, <2>8
<1>3. QED
  BY <1>1, <1>2 DEF NoFrameIsCutShort

-----------------------------------------------------------------------------
\* Acks.

LEMMA FillerIs ==
    ASSUME NEW n \in Nat, NEW set, Text("x") \in set
    PROVE  /\ Filler(n) \in Seq(set) /\ Len(Filler(n)) = n
           /\ \A i \in 1 .. n : Filler(n)[i] = Text("x")
<1>1. Filler(n) \in [1 .. n -> set]
  BY DEF Filler
<1>2. QED
  BY <1>1 DEF Filler

\* A subject that begins as acks do.
LEMMA AckSubject ==
    ASSUME NEW set, NEW rest \in Seq(set), Text("$JS") \in set, Text("ACK") \in set
    PROVE  LET subject == AckPrefix \o rest IN
           /\ IsPrefix(AckPrefix, subject) /\ Len(subject) = Len(rest) + 2
           /\ \A i \in 1 .. Len(rest) : subject[i + 2] = rest[i]
<1>1. PICK prefix \in Seq(set) : prefix = AckPrefix /\ Len(prefix) = 2
  <2>1. PICK js \in set, ackWord \in set : js = Text("$JS") /\ ackWord = Text("ACK")
    OBVIOUS
  <2>2. <<js, ackWord>> \in Seq(set) /\ Len(<<js, ackWord>>) = 2
    OBVIOUS
  <2>3. QED
    BY <2>1, <2>2 DEF AckPrefix
<1>2. PICK subject : subject = prefix \o rest
  OBVIOUS
<1>3. PICK m \in Nat : m = Len(rest)
  OBVIOUS
<1>4. /\ subject \in Seq(set) /\ Len(subject) = 2 + m
      /\ \A i \in 1 .. 2 + m : subject[i] = IF i <= 2 THEN prefix[i] ELSE rest[i - 2]
  <2>1. /\ subject \in Seq(set) /\ Len(subject) = Len(prefix) + Len(rest)
        /\ \A i \in 1 .. Len(prefix) + Len(rest) :
               subject[i] = IF i <= Len(prefix) THEN prefix[i] ELSE rest[i - Len(prefix)]
    BY <1>2, ConcatProperties
  <2>2. QED
    BY <1>1, <1>3, <2>1
<1>5. \A i \in 1 .. m : subject[i + 2] = rest[i]
  <2>1. \A i \in 1 .. m : i + 2 \in 1 .. 2 + m /\ ~(i + 2 <= 2) /\ (i + 2) - 2 = i
    OBVIOUS
  <2>2. QED
    BY <1>4, <2>1
<1>6. SubSeq(subject, 1, 2) = SubSeq(prefix, 1, 2)
  <2>1. subject[1] = prefix[1] /\ subject[2] = prefix[2]
    BY <1>4
  <2>2. \A s : SubSeq(s, 1, 2) = [i \in 1 .. 2 |-> s[i]]
    OBVIOUS
  <2>3. \A i \in 1 .. 2 : subject[i] = prefix[i]
    BY <2>1
  <2>4. [i \in 1 .. 2 |-> subject[i]] = [i \in 1 .. 2 |-> prefix[i]]
    BY <2>3
  <2>5. QED
    BY <2>2, <2>4
<1>7. IsPrefix(prefix, subject)
  BY <1>1, <1>4, <1>6 DEF IsPrefix
<1>8. QED
  BY <1>1, <1>2, <1>3, <1>4, <1>5, <1>7

Regrouped(s, t, u, v) == ((s \o t) \o u) \o v = s \o ((t \o u) \o v)

LEMMA Regroup ==
    ASSUME NEW set, NEW s \in Seq(set), NEW t \in Seq(set), NEW u \in Seq(set), NEW v \in Seq(set)
    PROVE  Regrouped(s, t, u, v)
<1>1. (s \o t) \o u = s \o (t \o u)
  BY ConcatAssociative
<1>2. t \o u \in Seq(set)
  BY ConcatProperties
<1>3. (s \o (t \o u)) \o v = s \o ((t \o u) \o v)
  <2>1. PICK w \in Seq(set) : w = t \o u
    BY <1>2
  <2>2. (s \o w) \o v = s \o (w \o v)
    BY ConcatAssociative
  <2>3. QED
    BY <2>1, <2>2
<1>4. QED
  BY <1>1, <1>3 DEF Regrouped

LEMMA AcksNamed == AcksNameTheirConsumer
<1>1. ASSUME NEW consumer \in {Text("C"), Number(9)}, NEW n \in 0 .. 3,
             NEW before \in {2, 4}, NEW after \in 3 .. 6
      PROVE  ParseAck(AckPrefix \o Filler(before - 1) \o <<consumer, Number(n)>> \o Filler(after)) =
                 (IF <<before, after>> \in {<<2, 4>>, <<4, 5>>}
                  THEN Some([consumer |-> consumer, delivered |-> n]) ELSE None)
  <2>1. PICK set : set = {Text("$JS"), Text("ACK"), Text("x"), consumer, Number(n)}
    OBVIOUS
  <2>2. PICK b \in {1, 3} : b = before - 1
    OBVIOUS
  <2>3. PICK first \in Seq(set), named \in Seq(set), last \in Seq(set) :
            first = Filler(b) /\ named = <<consumer, Number(n)>> /\ last = Filler(after)
    <3>1. Filler(b) \in Seq(set) /\ Filler(after) \in Seq(set)
      BY <2>1, FillerIs
    <3>2. <<consumer, Number(n)>> \in Seq(set)
      BY <2>1
    <3>3. QED
      BY <3>1, <3>2
  <2>4. /\ Len(first) = b /\ Len(last) = after /\ Len(named) = 2
        /\ named[1] = consumer /\ named[2] = Number(n)
    BY <2>1, <2>3, FillerIs
  <2>5. PICK start, rest : start = first \o named /\ rest = start \o last
    OBVIOUS
  <2>6. /\ start \in Seq(set) /\ Len(start) = Len(first) + Len(named)
        /\ \A i \in 1 .. Len(first) + Len(named) :
               start[i] = IF i <= Len(first) THEN first[i] ELSE named[i - Len(first)]
    BY <2>5, ConcatProperties
  <2>7. Len(start) = b + 2 /\ start[b + 1] = consumer /\ start[b + 2] = Number(n)
    BY <2>4, <2>6
  <2>8. /\ rest \in Seq(set) /\ Len(rest) = Len(start) + Len(last)
        /\ \A i \in 1 .. Len(start) + Len(last) :
               rest[i] = IF i <= Len(start) THEN start[i] ELSE last[i - Len(start)]
    BY <2>5, <2>6, ConcatProperties
  <2>9. Len(rest) = b + 2 + after /\ rest[b + 1] = consumer /\ rest[b + 2] = Number(n)
    BY <2>4, <2>7, <2>8
  <2>10. PICK subject : subject = AckPrefix \o rest
    OBVIOUS
  <2>11. /\ IsPrefix(AckPrefix, subject) /\ Len(subject) = Len(rest) + 2
         /\ \A i \in 1 .. Len(rest) : subject[i + 2] = rest[i]
    BY <2>1, <2>8, <2>10, AckSubject
  <2>12. subject = AckPrefix \o Filler(before - 1) \o <<consumer, Number(n)>> \o Filler(after)
    <3>1. PICK prefix : prefix = AckPrefix
      OBVIOUS
    <3>2. prefix \in Seq(set)
      <4>1. PICK js \in set, ackWord \in set : js = Text("$JS") /\ ackWord = Text("ACK")
        BY <2>1
      <4>2. <<js, ackWord>> \in Seq(set)
        OBVIOUS
      <4>3. QED
        BY <3>1, <4>1, <4>2 DEF AckPrefix
    <3>3. Regrouped(prefix, first, named, last)
      BY <3>2, Regroup
    <3>5. QED
      BY <2>2, <2>3, <2>5, <2>10, <3>1, <3>3 DEF Regrouped
  <2>13. PICK at : at = CASE Len(subject) = 9 -> 4 [] Len(subject) = 12 -> 6 [] OTHER -> 0
    OBVIOUS
  <2>14. ParseAck(subject) =
             IF at # 0 /\ IsPrefix(AckPrefix, subject) /\ IsNumber(subject[at + 1])
             THEN Some([consumer |-> subject[at], delivered |-> subject[at + 1].number])
             ELSE None
    BY <2>13 DEF ParseAck
  <2>15. Len(subject) = b + 4 + after
    BY <2>9, <2>11
  <2>16. CASE <<before, after>> \in {<<2, 4>>, <<4, 5>>}
    <3>1. at = b + 3
      BY <2>2, <2>13, <2>15, <2>16
    <3>2. subject[(b + 1) + 2] = consumer /\ subject[(b + 2) + 2] = Number(n)
      BY <2>9, <2>11
    <3>3. (b + 1) + 2 = at /\ (b + 2) + 2 = at + 1 /\ at # 0
      BY <3>1
    <3>4. IsNumber(subject[at + 1]) /\ subject[at + 1].number = n
      BY <3>2, <3>3 DEF IsNumber, Number
    <3>5. QED
      BY <2>11, <2>12, <2>14, <2>16, <3>2, <3>3, <3>4
  <2>17. CASE <<before, after>> \notin {<<2, 4>>, <<4, 5>>}
    <3>1. at = 0
      <4>1. PICK a \in {3, 4, 5, 6} : a = after
        OBVIOUS
      <4>2. ~(b = 1 /\ a = 4) /\ ~(b = 3 /\ a = 5)
        BY <2>2, <2>17, <4>1
      <4>3. Len(subject) # 9 /\ Len(subject) # 12
        BY <2>15, <4>1, <4>2
      <4>4. QED
        BY <2>13, <4>3
    <3>2. QED
      BY <2>12, <2>14, <2>17, <3>1
  <2>18. QED
    BY <2>16, <2>17
<1>2. ASSUME NEW n \in 0 .. 12
      PROVE  ParseAck(AckPrefix \o Filler(n)) = None
  <2>1. PICK set : set = {Text("$JS"), Text("ACK"), Text("x")}
    OBVIOUS
  <2>2. Filler(n) \in Seq(set) /\ Len(Filler(n)) = n /\ \A i \in 1 .. n : Filler(n)[i] = Text("x")
    BY <2>1, FillerIs
  <2>3. PICK subject : subject = AckPrefix \o Filler(n)
    OBVIOUS
  <2>4. Len(subject) = n + 2 /\ \A i \in 1 .. n : subject[i + 2] = Text("x")
    BY <2>1, <2>2, <2>3, AckSubject
  <2>10. PICK len : len = Len(subject) /\ len = n + 2
    BY <2>4
  <2>5. ~IsNumber(Text("x"))
    BY DEF IsNumber, Text
  <2>6. Len(subject) = 9 => subject[4 + 1] = Text("x")
    <3>1. len = 9 => n = 7
      BY <2>10
    <3>2. n = 7 => 3 \in 1 .. n /\ 3 + 2 = 4 + 1
      OBVIOUS
    <3>3. QED
      BY <2>4, <2>10, <3>1, <3>2
  <2>7. Len(subject) = 12 => subject[6 + 1] = Text("x")
    <3>1. len = 12 => n = 10
      BY <2>10
    <3>2. n = 10 => 5 \in 1 .. n /\ 5 + 2 = 6 + 1
      OBVIOUS
    <3>3. QED
      BY <2>4, <2>10, <3>1, <3>2
  <2>8. ParseAck(subject) = None
    BY <2>5, <2>6, <2>7 DEF ParseAck
  <2>9. QED
    BY <2>3, <2>8
<1>3. ASSUME NEW token \in AckTokens
      PROVE  (AckEvent(token) = "acked") <=> (token \in {"", "+ACK"})
  BY DEF AckTokens, AckEvent
<1>4. QED
  BY <1>1, <1>2, <1>3 DEF AcksNameTheirConsumer

-----------------------------------------------------------------------------
\* The checkers of limits, of payloads that come back and of dead letters fire
\* exactly where they say (NatsChecks' ChecksAreExact), whatever they are shown,
\* however long, as long as times do not go back; a filter of any words matches
\* what the protocol says; and so whatever is looked at once of this adapter
\* (ChecksMeanWhatTheySay) holds for payloads and limits of any size.
THEOREM ChecksAlwaysExact ==
    /\ \A events : (\E n \in Nat : DOMAIN events = 1 .. n) /\ InTime(events) => ChecksAreExact(events)
    /\ \A words : \A filter, subject \in Seq(words) : filter # <<>> => FilterIsExact(filter, subject)
    /\ Spec => []ChecksMeanWhatTheySay
<1>1. \A events : (\E n \in Nat : DOMAIN events = 1 .. n) /\ InTime(events) => ChecksAreExact(events)
  BY CheckersExact
<1>2. \A words : \A filter, subject \in Seq(words) : filter # <<>> => FilterIsExact(filter, subject)
  BY FilterExact
<1>3. ChecksMeanWhatTheySay
  BY EveryFrameIsRead, NothingIsCutShort, AcksNamed, FiltersExact, SightingsJudged, TopologyEnforced
     DEF ChecksMeanWhatTheySay
<1>4. []ChecksMeanWhatTheySay
  BY <1>3, PTL
<1>5. QED
  BY <1>1, <1>2, <1>4
=============================================================================
