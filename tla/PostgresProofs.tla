--------------------------- MODULE PostgresProofs ---------------------------
(***************************************************************************)
(* Theorems about a Postgres connection behind the adapter, for any        *)
(* scenario, any number of groups and holds of any length.                 *)
(*                                                                         *)
(* The invariant says what the checker knows of the server's transaction,  *)
(* where each group the client sent is, which of two groups goes upstream  *)
(* first, and, while holds are one fork long, where each answer goes.      *)
(*                                                                         *)
(* The rest is about what the messages say: after any number of them, a    *)
(* session holds exactly the names that are open, with the SQL last said   *)
(* of each, so that a group is reported to run what the server runs.       *)
(***************************************************************************)
EXTENDS MCPostgresProxy, FiniteSetTheorems, SequenceTheorems, WellFoundedInduction, TLAPS

Early == {"accepted", "refused", "starting", "authenticating", "relaying"}
Stages == Early \cup {"reading", "forwarding", "awaiting", "answering", "ended"}
Sending == {"forwarding", "awaiting"}
Verdicts == {"allow", "delay", "reorder", "hold", "close"}
Decided == [decision : Verdicts, until : Nat]
Entries == [order : Nat, until : Nat]
Answers == [order : Nat, complete : BOOLEAN]

\* Every variable holds what the code's types allow.
Typed ==
    /\ session \in {"idle", "active", "failed", "over"}
    /\ wire \in Requests \cup {"none", "nowhere", "answer", "error"}
    /\ pc \in Stages /\ outcome \in {"none", "ok", "error", "undoable"}
    /\ deferred \subseteq Entries /\ batch \in Seq(Nat) /\ last \in BOOLEAN
    /\ answers \in Seq(Answers) /\ alive \in BOOLEAN /\ got \in Seq(Nat)
    /\ asked \in Seq(Decided) /\ written \in Seq(Nat) /\ ran \in Seq(Nat)
    /\ causes \subseteq {"died", "cut", "terminated"}
    /\ errored \in BOOLEAN /\ reported \in BOOLEAN /\ voided \in BOOLEAN /\ lost \in BOOLEAN

Among(list) == {list[i] : i \in 1 .. Len(list)}
Once(list) == \A i, j \in 1 .. Len(list) : i # j => list[i] # list[j]

\* What serve_connection and exchange keep at each stage.
Shape ==
    /\ Len(asked) <= MaxGroups
    /\ pc \in Early => Len(asked) = 0 /\ deferred = {} /\ Len(written) = 0
    /\ pc \in Early \cup {"reading"} => Len(batch) = 0 /\ Len(answers) = 0 /\ ~last
    /\ pc \in Sending <=> pc # "ended" /\ Len(batch) # 0
    /\ pc = "awaiting" <=> pc # "ended" /\ wire # "none"
    /\ wire \in Requests => Len(batch) # 0
    /\ wire = "nowhere" \/ ~alive => session = "over"
    /\ last /\ pc # "ended" => deferred = {}
    /\ pc # "ended" => outcome = "none"
    /\ session = "over" => causes # {}

-----------------------------------------------------------------------------
\* What the checker knows of the server's transaction.

TransactionIsKnown ==
    /\ session = "failed" /\ pc # "ended" => errored \/ wire \in {"error", "begin", "rollback"}
    /\ session = "active" => ~errored /\ wire # "error"
    /\ wire = "begin" => ~errored

-----------------------------------------------------------------------------
\* Where the groups are.

Held == Orders(deferred)
AtServer == pc = "awaiting" /\ wire \in Requests

\* A group is deferred, to be sent, or written, and once each; the one whose
\* answer is awaited is first in the batch still.
Apart ==
    /\ Once(written) /\ Once(ran)
    /\ Among(written) \subseteq 1 .. Len(asked)
    /\ Among(ran) \subseteq Among(written)
    /\ wire \in Requests => Head(batch) \notin Among(ran) /\ Head(batch) \in Among(written)
    /\ Once(batch) /\ Among(batch) \subseteq 1 .. Len(asked)
    /\ \A group \in Held : group \in 1 .. Len(asked)
                             /\ group \notin Among(batch) \cup Among(written)
    /\ \A e, f \in deferred : e.order = f.order => e = f
    /\ pc # "ended" =>
           \A group \in Among(batch) :
               group \in Among(written) <=> pc = "awaiting" /\ group = Head(batch)

\* An answer is that of a group that was written, and was not read before.
Numbers(list) == [i \in 1 .. Len(list) |-> list[i].order]
AnswersApart ==
    /\ Once(Numbers(answers)) /\ Among(Numbers(answers)) \subseteq Among(written)
    /\ Among(got) \subseteq Among(written)
    /\ \A group \in Among(Numbers(answers)) : pc # "ended" => group \notin Among(batch)

\* Unless the schedule or the server ended the session, no group is missing
\* and the server ran what it was sent.
AllPlaced ==
    causes = {} /\ pc # "ended" =>
        /\ \A group \in 1 .. Len(asked) : group \in Held \cup Among(batch) \cup Among(written)
        /\ \A group \in Among(written) : group \in Among(ran) \/ (AtServer /\ group = Head(batch))
AllRan ==
    causes = {} /\ outcome = "ok" =>
        wire = "none" /\ \A group \in 1 .. Len(asked) : group \in Among(ran)

-----------------------------------------------------------------------------
\* The order of the groups.

Goes(choice) == choice.decision \in {"allow", "delay"}

\* A group that was deferred is still so at the fork of a later one.
Waits(choices, group, later) ==
    /\ ~Goes(choices[group])
    /\ \A q \in group + 1 .. later - 1 : Goes(choices[q]) => q < choices[group].until

\* The first of two groups may be written before the second.
InOrder(choices, first, second) ==
    /\ first # second
    /\ first > second /\ Goes(choices[first]) => Waits(choices, second, first)
    /\ first < second /\ Goes(choices[second]) => ~Waits(choices, first, second)

WrittenInOrder ==
    \A i, j \in 1 .. Len(written) : i < j => InOrder(asked, written[i], written[j])

\* A deferred group waits for its fork, or for the next that is not deferred.
DeferredWait ==
    pc # "ended" =>
        \A e \in deferred :
            /\ e.order \in 1 .. Len(asked) /\ Waits(asked, e.order, Len(asked) + 1)
            /\ \/ e.until = asked[e.order].until
               \/ e.until = 0 /\ asked[e.order].until = e.order + 1

\* What is being sent goes after what was sent before it, and, unless nothing
\* more is read, before what will be.
BatchInOrder ==
    pc # "ended" =>
        /\ \A i, j \in 1 .. Len(batch) : i < j => InOrder(asked, batch[i], batch[j])
        /\ \A first \in Among(written), second \in Among(batch) :
               InOrder(asked, first, second) \/ (pc = "awaiting" /\ second = Head(batch))
        /\ ~last => \A group \in Among(written) \cup Among(batch) :
                        ~Waits(asked, group, Len(asked) + 1)

OrderInv == WrittenInOrder /\ DeferredWait /\ BatchInOrder

-----------------------------------------------------------------------------
\* Where the answers go, while holds are one fork long.

Placed ==
    alive /\ AsASeedHolds =>
        /\ \A i \in 1 .. Len(got) : got[i] = i
        /\ \A i \in 1 .. Len(answers) : answers[i].complete
        /\ pc # "ended" =>
               /\ Len(got) + Len(answers) + Len(batch) <= Len(asked)
               /\ Held = Len(got) + Len(answers) + Len(batch) + 1 .. Len(asked)
               /\ pc \in Sending \cup {"answering"} => deferred = {}
               /\ \A i \in 1 .. Len(batch) : batch[i] = Len(asked) - Len(answers) + 1 - i
               /\ pc \in Sending =>
                      \A i \in 1 .. Len(answers) : answers[i].order = Len(asked) + 1 - i
               /\ pc = "answering" => \A i \in 1 .. Len(answers) : answers[i].order = Len(got) + i

PostgresInv ==
    /\ Typed /\ Shape /\ TransactionIsKnown /\ CommitReportsAreRight
    /\ Apart /\ AnswersApart /\ AllPlaced /\ AllRan /\ OrderInv /\ Placed

-----------------------------------------------------------------------------
\* What the operators on sequences do to their members.

LEMMA NumbersTyped ==
    ASSUME NEW s \in Seq(Nat)
    PROVE  /\ Len(s) \in Nat /\ \A i \in 1 .. Len(s) : s[i] \in Nat
           /\ Among(s) \subseteq Nat
           /\ s = <<>> <=> Len(s) = 0
           /\ Len(s) = 0 => Among(s) = {} /\ Once(s)
<1>1. Len(s) \in Nat /\ \A i \in 1 .. Len(s) : s[i] \in Nat
  BY LenProperties, ElementOfSeq
<1>2. s = <<>> <=> Len(s) = 0
  BY EmptySeq
<1>3. QED
  BY <1>1, <1>2 DEF Among, Once

LEMMA Empty ==
    /\ <<>> \in Seq(Nat) /\ <<>> \in Seq(Answers) /\ <<>> \in Seq(Decided)
    /\ Len(<<>>) = 0 /\ Among(<<>>) = {} /\ Once(<<>>)
<1>1. <<>> \in Seq(Nat) /\ Len(<<>>) = 0
  BY EmptySeq
<1>2. QED
  BY <1>1, EmptySeq, NumbersTyped

LEMMA NumbersAppended ==
    ASSUME NEW s \in Seq(Nat), NEW e \in Nat
    PROVE  /\ Append(s, e) \in Seq(Nat)
           /\ Among(Append(s, e)) = Among(s) \cup {e}
           /\ Once(s) /\ e \notin Among(s) => Once(Append(s, e))
<1>1. PICK t : t = Append(s, e)
  OBVIOUS
<1>1a. PICK k \in Nat : k = Len(s)
  BY LenProperties
<1>2. /\ t \in Seq(Nat) /\ Len(t) = k + 1 /\ t[k + 1] = e
      /\ \A i \in 1 .. k : t[i] = s[i]
  BY <1>1, <1>1a, AppendProperties
<1>3. /\ \A i \in 1 .. k + 1 : i = k + 1 \/ i \in 1 .. k
      /\ \A i \in 1 .. k : i \in 1 .. k + 1
      /\ k + 1 \in 1 .. k + 1
  OBVIOUS
<1>4. Among(t) = Among(s) \cup {e}
  <2>1. \A x \in Among(t) : x \in Among(s) \cup {e}
    BY <1>1, <1>1a, <1>2, <1>3 DEF Among
  <2>2. \A x \in Among(s) : x \in Among(t)
    BY <1>1, <1>1a, <1>2, <1>3 DEF Among
  <2>3. e \in Among(t)
    BY <1>2, <1>3 DEF Among
  <2>4. QED
    BY <2>1, <2>2, <2>3
<1>5. ASSUME Once(s), e \notin Among(s)
      PROVE  Once(t)
  BY <1>1, <1>1a, <1>2, <1>3, <1>5 DEF Among, Once
<1>6. QED
  BY <1>1, <1>1a, <1>2, <1>4, <1>5

LEMMA NumbersTail ==
    ASSUME NEW s \in Seq(Nat), s # <<>>
    PROVE  /\ Tail(s) \in Seq(Nat) /\ Head(s) \in Nat
           /\ Among(s) = {Head(s)} \cup Among(Tail(s))
           /\ Once(s) => Once(Tail(s)) /\ Head(s) \notin Among(Tail(s))
<1>1. PICK t : t = Tail(s)
  OBVIOUS
<1>1a. PICK k \in Nat : k = Len(s) /\ k > 0
  BY LenProperties, EmptySeq
<1>2. /\ t \in Seq(Nat) /\ Len(t) = k - 1 /\ Head(s) = s[1]
      /\ \A i \in 1 .. k - 1 : t[i] = s[i + 1]
  BY <1>1, <1>1a, EmptySeq, HeadTailProperties
<1>3. \A i \in 1 .. k : i = 1 \/ (i - 1 \in 1 .. k - 1 /\ t[i - 1] = s[i])
  <2>1. SUFFICES ASSUME NEW i \in 1 .. k, i # 1
                 PROVE  i - 1 \in 1 .. k - 1 /\ t[i - 1] = s[i]
    OBVIOUS
  <2>2. i - 1 \in 1 .. k - 1 /\ (i - 1) + 1 = i
    BY <1>1, <1>1a, <2>1
  <2>3. QED
    BY <1>2, <2>2
<1>4. Among(s) = {Head(s)} \cup Among(t)
  <2>1. ASSUME NEW x \in Among(s)
        PROVE  x \in {Head(s)} \cup Among(t)
    <3>1. PICK i \in 1 .. k : x = s[i]
      BY <1>1a, <2>1 DEF Among
    <3>2. i = 1 \/ (i - 1 \in 1 .. k - 1 /\ t[i - 1] = x)
      BY <1>3, <3>1
    <3>3. QED
      BY <1>2, <3>1, <3>2 DEF Among
  <2>2. \A x \in Among(t) : x \in Among(s)
    BY <1>1, <1>1a, <1>2 DEF Among
  <2>3. Head(s) \in Among(s)
    BY <1>1, <1>1a, <1>2 DEF Among
  <2>4. QED
    BY <2>1, <2>2, <2>3
<1>5. Once(s) => Once(t) /\ Head(s) \notin Among(t)
  BY <1>1, <1>1a, <1>2 DEF Once, Among
<1>6. Head(s) \in Nat
  BY <1>1, <1>1a, <1>2, ElementOfSeq
<1>7. QED
  BY <1>1, <1>1a, <1>2, <1>4, <1>5, <1>6

LEMMA NumbersJoined ==
    ASSUME NEW s \in Seq(Nat), NEW t \in Seq(Nat)
    PROVE  /\ s \o t \in Seq(Nat) /\ Among(s \o t) = Among(s) \cup Among(t)
           /\ Once(s) /\ Once(t) /\ (\A x \in Among(s) : x \notin Among(t)) => Once(s \o t)
<1>1. PICK u : u = s \o t
  OBVIOUS
<1>1a. PICK k \in Nat, l \in Nat : k = Len(s) /\ l = Len(t)
  BY LenProperties
<1>2. /\ u \in Seq(Nat) /\ Len(u) = k + l
      /\ \A i \in 1 .. k + l : u[i] = IF i <= k THEN s[i] ELSE t[i - k]
  BY <1>1, <1>1a, ConcatProperties
<1>3. /\ \A i \in 1 .. k : i \in 1 .. k + l /\ u[i] = s[i]
      /\ \A i \in 1 .. k + l : i \in 1 .. k \/ (i - k \in 1 .. l /\ u[i] = t[i - k])
  BY <1>2
<1>4. \A i \in 1 .. l : k + i \in 1 .. k + l /\ u[k + i] = t[i]
  <2>1. SUFFICES ASSUME NEW i \in 1 .. l
                 PROVE  k + i \in 1 .. k + l /\ u[k + i] = t[i]
    OBVIOUS
  <2>2. k + i \in 1 .. k + l /\ ~(k + i <= k) /\ (k + i) - k = i
    OBVIOUS
  <2>3. QED
    BY <1>2, <2>2
<1>5. Among(u) = Among(s) \cup Among(t)
  <2>1. \A x \in Among(u) : x \in Among(s) \cup Among(t)
    BY <1>1, <1>1a, <1>2, <1>3 DEF Among
  <2>2. \A x \in Among(s) : x \in Among(u)
    BY <1>1, <1>1a, <1>2, <1>3 DEF Among
  <2>3. ASSUME NEW x \in Among(t)
        PROVE  x \in Among(u)
    <3>1. PICK i \in 1 .. l : x = t[i]
      BY <1>1a, <2>3 DEF Among
    <3>2. k + i \in 1 .. k + l /\ u[k + i] = x
      BY <1>4, <3>1
    <3>3. QED
      BY <1>2, <3>2 DEF Among
  <2>4. QED
    BY <2>1, <2>2, <2>3
<1>6. ASSUME Once(s), Once(t), \A x \in Among(s) : x \notin Among(t)
      PROVE  Once(u)
  <2>1. SUFFICES ASSUME NEW i \in 1 .. k + l, NEW j \in 1 .. k + l, i # j
                 PROVE  u[i] # u[j]
    BY <1>2 DEF Once
  <2>2. CASE i \in 1 .. k /\ j \in 1 .. k
    BY <1>1, <1>1a, <1>3, <1>6, <2>1, <2>2 DEF Once
  <2>3. CASE i - k \in 1 .. l /\ j - k \in 1 .. l /\ u[i] = t[i - k] /\ u[j] = t[j - k]
    <3>1. i - k # j - k
      BY <2>1
    <3>2. QED
      BY <1>1, <1>1a, <1>6, <2>3, <3>1 DEF Once
  <2>4. CASE i \in 1 .. k /\ j - k \in 1 .. l /\ u[j] = t[j - k]
    <3>1. u[i] \in Among(s)
      BY <1>1, <1>1a, <1>3, <2>4 DEF Among
    <3>2. u[j] \in Among(t)
      BY <1>1, <1>1a, <2>4 DEF Among
    <3>3. QED
      BY <1>6, <3>1, <3>2
  <2>5. CASE j \in 1 .. k /\ i - k \in 1 .. l /\ u[i] = t[i - k]
    <3>1. u[j] \in Among(s)
      BY <1>1, <1>1a, <1>3, <2>5 DEF Among
    <3>2. u[i] \in Among(t)
      BY <1>1, <1>1a, <2>5 DEF Among
    <3>3. QED
      BY <1>6, <3>1, <3>2
  <2>6. QED
    BY <1>3, <2>1, <2>2, <2>3, <2>4, <2>5
<1>7. QED
  BY <1>1, <1>1a, <1>2, <1>5, <1>6

LEMMA One ==
    ASSUME NEW e \in Nat
    PROVE  <<e>> \in Seq(Nat) /\ Among(<<e>>) = {e} /\ Once(<<e>>)
<1>1. PICK t : t = <<e>>
  OBVIOUS
<1>2. t \in Seq(Nat) /\ Len(t) = 1 /\ t[1] = e
  BY <1>1
<1>3. QED
  BY <1>1, <1>2 DEF Among, Once

\* A set of numbers that is not empty has a least.
LEMMA LeastExists ==
    ASSUME NEW set \in SUBSET Nat, set # {}
    PROVE  \E m \in set : \A n \in set : m <= n
<1>1. PICK m \in set : \A n \in set : ~ (<<n, m>> \in OpToRel(<, Nat))
  BY WFMin, NatLessThanWellFounded, Zenon
<1>2. \A n \in set : m <= n
  <2>1. \A n \in set : ~(n < m)
    BY <1>1, Zenon DEF OpToRel
  <2>2. QED
    BY <2>1
<1>3. QED
  BY <1>2

\* Numbers of an interval that grow, as many as it has, are all of it.
LEMMA GrowingFillsInterval ==
    ASSUME NEW n \in Nat, NEW low \in Nat, NEW s \in [1 .. n -> (low + 1) .. (low + n)],
           \A i, j \in 1 .. n : i < j => s[i] < s[j]
    PROVE  \A i \in 1 .. n : s[i] = low + i
<1>1. \A i \in 1 .. n : s[i] \in Nat /\ s[i] >= low + 1 /\ s[i] <= low + n
  OBVIOUS
<1>2. ASSUME NEW e \in 1 .. n, s[e] < low + e
      PROVE  FALSE
  <2> DEFINE Small == {i \in 1 .. n : s[i] < low + i}
  <2>1. PICK i \in Small : \A j \in Small : i <= j
    <3>1. e \in Small /\ Small \in SUBSET Nat
      BY <1>2
    <3>2. QED
      BY <3>1, LeastExists, Zenon
  <2>2. i \in 1 .. n /\ s[i] < low + i
    BY <2>1
  <2>3. i - 1 \in 1 .. n
    BY <1>1, <2>2
  <2>4. s[i - 1] >= low + (i - 1)
    <3>1. i - 1 \notin Small
      BY <2>1, <2>2, <2>3
    <3>2. QED
      BY <1>1, <2>3, <3>1
  <2>5. s[i - 1] < s[i]
    BY <2>2, <2>3
  <2>6. QED
    BY <1>1, <2>2, <2>3, <2>4, <2>5
<1>3. ASSUME NEW e \in 1 .. n, s[e] > low + e
      PROVE  FALSE
  <2> DEFINE Large == {k \in 1 .. n : s[n + 1 - k] > low + (n + 1 - k)}
  <2>1. PICK k \in Large : \A j \in Large : k <= j
    <3>1. n + 1 - e \in 1 .. n /\ n + 1 - (n + 1 - e) = e
      OBVIOUS
    <3>2. n + 1 - e \in Large /\ Large \in SUBSET Nat
      BY <1>3, <3>1
    <3>3. QED
      BY <3>2, LeastExists, Zenon
  <2>2. PICK i \in 1 .. n : i = n + 1 - k
    BY <2>1
  <2>3. k \in 1 .. n /\ s[i] > low + i
    BY <2>1, <2>2
  <2>4. i + 1 \in 1 .. n /\ k - 1 \in 1 .. n
    BY <1>1, <2>2, <2>3
  <2>5. s[i + 1] <= low + (i + 1)
    <3>1. k - 1 \notin Large
      <4>1. SUFFICES ASSUME k - 1 \in Large PROVE FALSE
        OBVIOUS
      <4>2. k <= k - 1
        BY <2>1, <4>1, Zenon
      <4>3. QED
        BY <2>3, <4>2
    <3>2. n + 1 - (k - 1) = i + 1
      BY <2>2, <2>3
    <3>3. QED
      BY <1>1, <2>4, <3>1, <3>2
  <2>6. s[i] < s[i + 1]
    BY <2>4
  <2>7. QED
    BY <1>1, <2>3, <2>4, <2>5, <2>6
<1>4. ASSUME NEW i \in 1 .. n
      PROVE  s[i] = low + i
  <2>1. ~(s[i] < low + i) /\ ~(s[i] > low + i)
    BY <1>2, <1>3
  <2>2. QED
    BY <1>1, <2>1
<1>5. QED
  BY <1>4


-----------------------------------------------------------------------------
\* Sets of numbers, from the highest to the lowest and back.

LEMMA FallingExists ==
    ASSUME NEW n \in Nat
    PROVE  \A set \in SUBSET (1 .. n) :
               \E list \in [1 .. Cardinality(set) -> set] :
                   \A i, j \in 1 .. Cardinality(set) : i < j => list[i] > list[j]
<1> DEFINE Listed(set) == \E list \in [1 .. Cardinality(set) -> set] :
                              \A i, j \in 1 .. Cardinality(set) : i < j => list[i] > list[j]
           Bad == {m \in Nat : \E set \in SUBSET (1 .. m) : ~Listed(set)}
<1>1. SUFFICES Bad = {}
  OBVIOUS
<1>2. SUFFICES ASSUME Bad # {}
               PROVE  FALSE
  OBVIOUS
<1>3. PICK m \in Bad : \A k \in Bad : m <= k
  <2>1. Bad \in SUBSET Nat
    OBVIOUS
  <2> HIDE DEF Bad
  <2>2. QED
    BY <1>2, <2>1, LeastExists
<1>4. PICK set \in SUBSET (1 .. m) : ~Listed(set)
  BY <1>3
<1>5. m \in Nat
  BY <1>3
<1>6. IsFiniteSet(set)
  <2>1. IsFiniteSet(1 .. m)
    BY <1>5, FS_Interval
  <2>2. QED
    BY <2>1, FS_Subset
<1>7. PICK c \in Nat : c = Cardinality(set)
  BY <1>6, FS_CardinalityType
<1>8. CASE m \in set
  <2>1. PICK rest : rest = set \ {m}
    OBVIOUS
  <2>2. Cardinality(rest) = c - 1 /\ c # 0
    BY <1>6, <1>7, <1>8, <2>1, FS_RemoveElement, FS_EmptySet
  <2>3. m - 1 \in Nat /\ rest \in SUBSET (1 .. m - 1)
    BY <1>5, <1>8, <2>1
  <2>4. m - 1 \notin Bad
    <3>1. ~(m <= m - 1)
      BY <1>5
    <3> HIDE DEF Bad
    <3>2. QED
      BY <1>3, <3>1
  <2>5. Listed(rest)
    BY <2>3, <2>4
  <2>6. PICK list \in [1 .. c - 1 -> rest] : \A i, j \in 1 .. c - 1 : i < j => list[i] > list[j]
    BY <2>2, <2>5
  <2>7. PICK longer : longer = [i \in 1 .. c |-> IF i = 1 THEN m ELSE list[i - 1]]
    OBVIOUS
  <2>8. \A i \in 1 .. c : i = 1 \/ i - 1 \in 1 .. c - 1
    BY <1>7
  <2>9. longer \in [1 .. c -> set]
    BY <1>8, <2>1, <2>6, <2>7, <2>8
  <2>10. ASSUME NEW i \in 1 .. c, NEW j \in 1 .. c, i < j
         PROVE  longer[i] > longer[j]
    <3>1. j - 1 \in 1 .. c - 1 /\ longer[j] = list[j - 1]
      BY <2>7, <2>8, <2>10
    <3>2. list[j - 1] \in 1 .. m - 1
      BY <2>3, <2>6, <3>1
    <3>3. CASE i = 1
      BY <1>5, <2>7, <3>1, <3>2, <3>3
    <3>4. CASE i # 1
      <4>1. i - 1 \in 1 .. c - 1 /\ longer[i] = list[i - 1] /\ i - 1 < j - 1
        BY <2>7, <2>8, <2>10, <3>4
      <4>2. QED
        BY <2>6, <3>1, <4>1
    <3>5. QED
      BY <3>3, <3>4
  <2>11. Listed(set)
    BY <1>7, <2>9, <2>10
  <2>12. QED
    BY <1>4, <2>11
<1>9. CASE m \notin set /\ m # 0
  <2>1. m - 1 \in Nat /\ set \in SUBSET (1 .. m - 1)
    BY <1>5, <1>9
  <2>2. m - 1 \in Bad
    BY <1>4, <2>1
  <2>3. ~(m <= m - 1)
    BY <1>5
  <2> HIDE DEF Bad
  <2>4. QED
    BY <1>3, <2>2, <2>3
<1>10. CASE m = 0
  <2>1. set = {}
    BY <1>4, <1>10
  <2>2. c = 0
    BY <1>7, <2>1, FS_EmptySet
  <2>3. PICK list : list = [i \in 1 .. 0 |-> 0]
    OBVIOUS
  <2>4. list \in [1 .. c -> set] /\ \A i, j \in 1 .. c : i < j => list[i] > list[j]
    BY <2>1, <2>2, <2>3
  <2>5. QED
    BY <1>4, <1>7, <2>4
<1>11. QED
  BY <1>8, <1>9, <1>10

\* A strict order leaves no repetition, and a list as long as its set has all
\* of it.
LEMMA StrictIsAll ==
    ASSUME NEW set, IsFiniteSet(set), NEW list \in [1 .. Cardinality(set) -> set],
           \A i, j \in 1 .. Cardinality(set) : i # j => list[i] # list[j]
    PROVE  \A x \in set : \E i \in 1 .. Cardinality(set) : list[i] = x
<1>1. Cardinality(set) \in Nat
  BY FS_CardinalityType
<1>2. list \in Injection(1 .. Cardinality(set), set)
  BY DEF Injection, IsInjective
<1>3. IsFiniteSet(1 .. Cardinality(set)) /\ Cardinality(1 .. Cardinality(set)) = Cardinality(set)
  BY <1>1, FS_Interval
<1>4. list \in Surjection(1 .. Cardinality(set), set)
  BY <1>2, <1>3, FS_Injection
<1>5. QED
  BY <1>4 DEF Surjection

LEMMA NewestFirstIs ==
    ASSUME NEW n \in Nat, NEW set \in SUBSET (1 .. n)
    PROVE  /\ NewestFirst(set) \in Seq(Nat) /\ Among(NewestFirst(set)) = set
           /\ Once(NewestFirst(set)) /\ Len(NewestFirst(set)) = Cardinality(set)
           /\ \A i, j \in 1 .. Len(NewestFirst(set)) :
                  i < j => NewestFirst(set)[i] > NewestFirst(set)[j]
<1>1. PICK list : list = NewestFirst(set)
  OBVIOUS
<1>2. IsFiniteSet(set)
  <2>1. IsFiniteSet(1 .. n)
    BY FS_Interval
  <2>2. QED
    BY <2>1, FS_Subset
<1>3. PICK c \in Nat : c = Cardinality(set)
  BY <1>2, FS_CardinalityType
<1>4. \E l \in [1 .. c -> set] : \A i, j \in 1 .. c : i < j => l[i] > l[j]
  BY <1>3, FallingExists
<1>5. \E l \in [1 .. c -> set] : \A i, j \in DOMAIN l : i < j => l[i] > l[j]
  BY <1>4
<1>6. list \in [1 .. c -> set] /\ \A i, j \in DOMAIN list : i < j => list[i] > list[j]
  BY <1>1, <1>3, <1>5 DEF NewestFirst
<1>7. /\ \A i \in 1 .. c : list[i] \in Nat /\ list[i] \in set
      /\ \A i, j \in 1 .. c : i < j => list[i] > list[j]
  <2>1. DOMAIN list = 1 .. c /\ \A i \in 1 .. c : list[i] \in set
    BY <1>6
  <2>2. \A x \in set : x \in Nat
    OBVIOUS
  <2>3. \A i \in 1 .. c : list[i] \in Nat
    BY <2>1, <2>2
  <2>4. \A i, j \in 1 .. c : i < j => list[i] > list[j]
    BY <1>6, <2>1
  <2>5. QED
    BY <2>1, <2>3, <2>4
<1>8. list \in Seq(Nat) /\ Len(list) = c
  BY <1>6, <1>7
<1>9. \A i, j \in 1 .. c : i # j => list[i] # list[j]
  BY <1>7
<1>10. \A x \in set : \E i \in 1 .. c : list[i] = x
  BY <1>2, <1>3, <1>6, <1>9, StrictIsAll
<1>11. Among(list) = set
  BY <1>7, <1>8, <1>10 DEF Among
<1>12. Once(list)
  BY <1>8, <1>9 DEF Once
<1>13. QED
  BY <1>1, <1>3, <1>7, <1>8, <1>11, <1>12

\* The numbers of an interval, newest first.
LEMMA NewestOfInterval ==
    ASSUME NEW low \in Nat, NEW top \in Nat, low <= top
    PROVE  /\ Len(NewestFirst(low + 1 .. top)) = top - low
           /\ \A i \in 1 .. top - low : NewestFirst(low + 1 .. top)[i] = top + 1 - i
<1>1. PICK set : set = low + 1 .. top
  OBVIOUS
<1>2. PICK c \in Nat : c = top - low
  OBVIOUS
<1>3. Cardinality(set) = c
  <2>1. Cardinality(low + 1 .. top) = IF low + 1 > top THEN 0 ELSE top - (low + 1) + 1
    BY FS_Interval
  <2>2. QED
    BY <1>1, <1>2, <2>1
<1>4. set \in SUBSET (1 .. top)
  BY <1>1
<1>5. PICK list : list = NewestFirst(set)
  OBVIOUS
<1>6. /\ list \in Seq(Nat) /\ Len(list) = c /\ Among(list) = set
      /\ \A i, j \in 1 .. c : i < j => list[i] > list[j]
  BY <1>3, <1>4, <1>5, NewestFirstIs
<1>7. \A i \in 1 .. c : list[i] \in low + 1 .. low + c
  BY <1>1, <1>2, <1>6 DEF Among
<1>8. PICK back : back = [i \in 1 .. c |-> list[c + 1 - i]]
  OBVIOUS
<1>9. \A i \in 1 .. c : c + 1 - i \in 1 .. c /\ back[i] = list[c + 1 - i]
  BY <1>8
<1>10. back \in [1 .. c -> (low + 1) .. (low + c)]
  BY <1>7, <1>8, <1>9
<1>11. ASSUME NEW i \in 1 .. c, NEW j \in 1 .. c, i < j
       PROVE  back[i] < back[j]
  <2>1. c + 1 - i \in 1 .. c /\ c + 1 - j \in 1 .. c /\ c + 1 - j < c + 1 - i
    BY <1>11
  <2>2. list[c + 1 - j] > list[c + 1 - i]
    BY <1>6, <2>1
  <2>3. list[c + 1 - j] \in Nat /\ list[c + 1 - i] \in Nat
    BY <1>7, <2>1
  <2>4. QED
    BY <1>9, <2>2, <2>3
<1>12. \A i \in 1 .. c : back[i] = low + i
  BY <1>10, <1>11, GrowingFillsInterval
<1>13. ASSUME NEW i \in 1 .. c
       PROVE  list[i] = top + 1 - i
  <2>1. c + 1 - i \in 1 .. c /\ c + 1 - (c + 1 - i) = i
    OBVIOUS
  <2>2. back[c + 1 - i] = list[i] /\ back[c + 1 - i] = low + (c + 1 - i)
    BY <1>9, <1>12, <2>1
  <2>3. QED
    BY <1>2, <2>2
<1>14. QED
  BY <1>1, <1>2, <1>5, <1>6, <1>13

-----------------------------------------------------------------------------
\* The steps, told by what they do to the groups and the answers.

Talks ==
    /\ UNCHANGED <<session, wire, outcome, deferred, batch, last, answers, alive, got,
                   errored, reported, asked, written, ran, causes, voided, lost>>
    /\ \/ pc' = pc
       \/ pc \in Early /\ pc' \in Early \cup {"reading"}
       \/ pc = "answering" /\ answers = <<>> /\ ~last /\ pc' = "reading"
Ends ==
    /\ UNCHANGED <<wire, deferred, batch, last, answers, alive, got, reported,
                   asked, written, ran, voided, lost>>
    /\ pc # "ended" /\ pc' = "ended" /\ ~errored' /\ errored' \in BOOLEAN
    /\ outcome' \in {"ok", "error", "undoable"}
    /\ \/ session' = session /\ causes' \in {causes, causes \cup {"cut"}}
       \/ session' = "over" /\ causes' = causes \cup {"terminated"}
    /\ outcome' = "ok" =>
           \/ pc \in Early \/ (pc = "reading" /\ deferred = {}) \/ "cut" \in causes'
           \/ pc = "answering" /\ answers = <<>> /\ (last \/ ~alive)
Cuts ==
    /\ UNCHANGED <<session, wire, deferred, batch, last, answers, alive, got, reported,
                   written, ran, voided, lost>>
    /\ pc = "reading" /\ pc' = "ended" /\ ~errored' /\ errored' \in BOOLEAN
    /\ outcome' = "ok" /\ causes' = causes \cup {"cut"}
    /\ Len(asked) < MaxGroups /\ \E choice \in Decided : asked' = Append(asked, choice)
Defers(choice, entry) ==
    /\ UNCHANGED <<session, wire, pc, outcome, batch, last, answers, alive, got,
                   errored, reported, written, ran, causes, voided, lost>>
    /\ pc = "reading" /\ Len(asked) < MaxGroups
    /\ asked' = Append(asked, choice) /\ deferred' = deferred \cup {entry}
    /\ ~Goes(choice) /\ choice.until > Len(asked) + 1
    /\ entry.order = Len(asked) + 1
    /\ \/ entry.until = choice.until
       \/ entry.until = 0 /\ choice.until = Len(asked) + 2
Releases(choice) ==
    /\ UNCHANGED <<session, wire, outcome, last, answers, alive, got,
                   errored, reported, written, ran, causes, voided, lost>>
    /\ pc = "reading" /\ pc' = "forwarding" /\ Len(asked) < MaxGroups
    /\ asked' = Append(asked, choice) /\ Goes(choice)
    /\ batch' = <<Len(asked) + 1>> \o Released(Len(asked) + 1)
    /\ deferred' = Kept(Len(asked) + 1)
Empties ==
    /\ UNCHANGED <<wire, outcome, answers, alive, got, errored, reported,
                   asked, written, ran, voided, lost>>
    /\ pc = "reading" /\ pc' = "forwarding" /\ deferred # {} /\ deferred' = {}
    /\ batch' = NewestFirst(Orders(deferred)) /\ last'
    /\ last' \in BOOLEAN
    /\ \/ UNCHANGED <<session, causes>>
       \/ session' = "over" /\ causes' = causes \cup {"terminated"}
Passes ==
    /\ UNCHANGED <<session, wire, pc, outcome, deferred, batch, last, alive,
                   errored, reported, asked, written, ran, causes, voided, lost>>
    /\ pc = "answering" /\ answers # <<>> /\ answers' = Tail(answers)
    /\ got' = IF Head(answers).complete THEN Append(got, Head(answers).order) ELSE got

Reads == Cuts \/ (\E choice \in Decided : Releases(choice))
            \/ (\E choice \in Decided, entry \in Entries : Defers(choice, entry))

LEMMA StopCases ==
    ASSUME pc = "reading", Stop, UNCHANGED <<wire, exchanged, asked, written, ran, voided, lost>>,
           \/ UNCHANGED <<session, causes>>
           \/ session' = "over" /\ causes' = causes \cup {"terminated"}
    PROVE  Ends \/ Empties
<1>1. CASE deferred = {} /\ End("ok") /\ UNCHANGED loop
  BY <1>1 DEF End, loop, exchanged, Ends
<1>2. CASE ~(deferred = {} /\ End("ok") /\ UNCHANGED loop)
  BY <1>2 DEF Stop, checker, exchanged, Empties
<1>3. QED
  BY <1>1, <1>2

LEMMA ReadCases ==
    ASSUME Len(asked) \in Nat, Read
    PROVE  Reads
<1>1. PICK n \in Nat : n = Len(asked)
  OBVIOUS
<1>2. PICK verdict \in Table!Answers(Permitted, "statement"), ahead \in 1 .. MaxHold :
          /\ verdict # "hold" => ahead = 1
          /\ asked' = Append(asked, [decision |-> verdict, until |-> n + 1 + ahead])
          /\ \/ verdict = "reorder" /\ Defer(n + 1, 0)
             \/ verdict = "hold" /\ Defer(n + 1, n + 1 + ahead)
             \/ verdict = "close" /\ End("ok") /\ causes' = causes \cup {"cut"} /\ UNCHANGED loop
             \/ /\ verdict \in {"allow", "delay"}
                /\ batch' = <<n + 1>> \o Released(n + 1)
                /\ deferred' = Kept(n + 1)
                /\ pc' = "forwarding"
                /\ UNCHANGED <<last, outcome, checker, causes>>
  BY <1>1 DEF Read
<1>3. /\ pc = "reading" /\ n + 1 <= MaxGroups
      /\ UNCHANGED <<session, wire, answers, alive, got, written, ran, voided, lost>>
  BY <1>1 DEF Read, server, exchanged
<1>4. MaxGroups \in Nat /\ MaxHold \in Nat /\ n < MaxGroups /\ ahead \in Nat /\ ahead > 0
  BY <1>3, BoundsAssumption
<1>5. PICK choice : choice = [decision |-> verdict, until |-> n + 1 + ahead]
  OBVIOUS
<1>6. asked' = Append(asked, choice)
  BY <1>2, <1>5
<1>7. choice.decision = verdict /\ choice.until = n + 1 + ahead
  BY <1>5
<1>8. verdict \in Verdicts => choice \in Decided
  BY <1>4, <1>5 DEF Decided
<1>9. CASE verdict = "close" /\ End("ok") /\ causes' = causes \cup {"cut"} /\ UNCHANGED loop
  <2>1. choice \in Decided
    BY <1>8, <1>9 DEF Verdicts
  <2>2. QED
    BY <1>1, <1>3, <1>4, <1>6, <1>9, <2>1 DEF End, loop, Cuts, Reads
<1>10. CASE /\ verdict \in {"allow", "delay"}
            /\ batch' = <<n + 1>> \o Released(n + 1)
            /\ deferred' = Kept(n + 1)
            /\ pc' = "forwarding"
            /\ UNCHANGED <<last, outcome, checker, causes>>
  <2>1. choice \in Decided /\ Goes(choice)
    BY <1>7, <1>8, <1>10 DEF Verdicts, Goes
  <2>2. Releases(choice)
    BY <1>1, <1>3, <1>4, <1>6, <1>10, <2>1 DEF checker, Releases
  <2>3. QED
    BY <2>1, <2>2 DEF Reads
<1>11. ASSUME NEW until \in Nat, verdict \in {"reorder", "hold"}, Defer(n + 1, until),
              until = n + 1 + ahead \/ (until = 0 /\ ahead = 1)
       PROVE  Reads
  <2>1. choice \in Decided /\ ~Goes(choice)
    BY <1>7, <1>8, <1>11 DEF Verdicts, Goes
  <2>2. PICK entry : entry = [order |-> n + 1, until |-> until]
    OBVIOUS
  <2>3. entry \in Entries /\ entry.order = n + 1 /\ entry.until = until
    BY <1>11, <2>2 DEF Entries
  <2>4. deferred' = deferred \cup {entry} /\ UNCHANGED <<batch, last, pc, outcome, checker, causes>>
    BY <1>11, <2>2 DEF Defer
  <2>5. UNCHANGED <<errored, reported>>
    BY <2>4 DEF checker
  <2>6. choice.until > n + 1
    BY <1>4, <1>7
  <2>7. entry.until = choice.until \/ (entry.until = 0 /\ choice.until = n + 2)
    BY <1>4, <1>7, <1>11, <2>3
  <2>8. Defers(choice, entry)
    BY <1>1, <1>3, <1>4, <1>6, <2>1, <2>3, <2>4, <2>5, <2>6, <2>7 DEF Defers
  <2>9. QED
    BY <2>1, <2>3, <2>8 DEF Reads
<1>12. n + 1 + ahead \in Nat /\ 0 \in Nat
  BY <1>4
<1>13. QED
  BY <1>2, <1>9, <1>10, <1>11, <1>12

LEMMA StepCases ==
    ASSUME Len(asked) \in Nat, Next
    PROVE  Talks \/ Ends \/ Reads \/ Empties \/ Quit \/ Execute \/ Write \/ ReadAnswer \/ Passes
<1> USE DEF login, server, loop, exchanged, checker, history
<1>1. CASE Speak
  BY <1>1 DEF Speak, Talks
<1>2. CASE Refuse \/ Connect \/ Startup \/ RelayAnswer
  BY <1>2 DEF Refuse, Connect, Startup, RelayAnswer, Talks, Early
<1>3. CASE Relay
  BY <1>3 DEF Relay, Talks, Early
<1>4. CASE ConnectFails \/ NoStartup \/ LoginFails
  BY <1>4 DEF ConnectFails, NoStartup, LoginFails, End, Ends, Early
<1>5. CASE ReadFails \/ WriteFails \/ AnswerRefused \/ RespondFails
  BY <1>5 DEF ReadFails, WriteFails, AnswerRefused, RespondFails, End, Ends
<1>6. CASE StopReading
  <2>1. /\ pc = "reading" /\ Stop
        /\ UNCHANGED <<session, wire, exchanged, asked, written, ran, causes, voided, lost>>
    BY <1>6 DEF StopReading
  <2>2. QED
    BY <2>1, StopCases
<1>7. CASE Terminate
  <2>1. /\ pc = "reading" /\ Stop
        /\ session' = "over" /\ causes' = causes \cup {"terminated"}
        /\ UNCHANGED <<wire, exchanged, asked, written, ran, voided, lost>>
    BY <1>7 DEF Terminate
  <2>2. QED
    BY <2>1, StopCases
<1>8. CASE Respond
  <2>1. PICK verdict \in Table!Answers(Permitted, "response") :
           \/ /\ verdict \in {"allow", "delay", "corrupt"}
              /\ got' = IF Head(answers).complete THEN Append(got, Head(answers).order) ELSE got
              /\ answers' = Tail(answers)
              /\ UNCHANGED <<pc, outcome, checker, causes>>
           \/ verdict = "close" /\ End("ok") /\ causes' = causes \cup {"cut"}
              /\ UNCHANGED <<got, answers>>
           \/ verdict \in {"reorder", "hold"} /\ End("undoable")
              /\ UNCHANGED <<got, answers, causes>>
    BY <1>8 DEF Respond
  <2>2. /\ pc = "answering" /\ answers # <<>>
        /\ UNCHANGED <<session, wire, deferred, batch, last, alive, asked, written, ran,
                       voided, lost>>
    BY <1>8 DEF Respond
  <2>3. CASE UNCHANGED <<pc, outcome, checker, causes>>
    BY <2>1, <2>2, <2>3 DEF Passes, End
  <2>4. CASE ~UNCHANGED <<pc, outcome, checker, causes>>
    BY <2>1, <2>2, <2>4 DEF End, Ends
  <2>5. QED
    BY <2>3, <2>4
<1>9. CASE Return
  BY <1>9 DEF Return, End, Ends, Talks
<1>10. CASE Read
  BY <1>10, ReadCases
<1>11. QED
  BY <1>1, <1>2, <1>3, <1>4, <1>5, <1>6, <1>7, <1>8, <1>9, <1>10 DEF Next, Adapter

-----------------------------------------------------------------------------
\* What the operators on sequences do to answers.

LEMMA AnswersTyped ==
    ASSUME NEW s \in Seq(Answers)
    PROVE  /\ Len(s) \in Nat /\ DOMAIN s = 1 .. Len(s) /\ \A i \in 1 .. Len(s) : s[i] \in Answers
           /\ Numbers(s) \in Seq(Nat) /\ Len(Numbers(s)) = Len(s)
           /\ \A i \in 1 .. Len(s) : Numbers(s)[i] = s[i].order
           /\ s = <<>> <=> Len(s) = 0
           /\ Len(s) = 0 => Among(Numbers(s)) = {} /\ Once(Numbers(s))
<1>1. PICK k \in Nat : k = Len(s)
  BY LenProperties
<1>2. DOMAIN s = 1 .. k /\ \A i \in 1 .. k : s[i] \in Answers
  BY <1>1, LenProperties, ElementOfSeq
<1>3. PICK t : t = Numbers(s)
  OBVIOUS
<1>4. t = [i \in 1 .. k |-> s[i].order] /\ \A i \in 1 .. k : s[i].order \in Nat
  BY <1>1, <1>2, <1>3 DEF Numbers, Answers
<1>5. t \in [1 .. k -> Nat] /\ \A i \in 1 .. k : t[i] = s[i].order
  BY <1>4
<1>6. t \in Seq(Nat) /\ Len(t) = k
  BY <1>5
<1>7. s = <<>> <=> k = 0
  BY <1>1, EmptySeq
<1>8. k = 0 => Among(t) = {} /\ Once(t)
  BY <1>6, NumbersTyped
<1>9. QED
  BY <1>1, <1>2, <1>3, <1>5, <1>6, <1>7, <1>8

LEMMA AnswersAppended ==
    ASSUME NEW s \in Seq(Answers), NEW a \in Answers, NEW t, t = Append(s, a)
    PROVE  /\ t \in Seq(Answers) /\ Len(t) = Len(s) + 1 /\ t[Len(s) + 1] = a
           /\ \A i \in 1 .. Len(s) : t[i] = s[i]
           /\ Numbers(t) = Append(Numbers(s), a.order)
           /\ Among(Numbers(t)) = Among(Numbers(s)) \cup {a.order}
           /\ Once(Numbers(s)) /\ a.order \notin Among(Numbers(s)) => Once(Numbers(t))
<1>1. PICK k \in Nat : k = Len(s)
  BY LenProperties
<1>2. /\ t \in Seq(Answers) /\ Len(t) = k + 1 /\ t[k + 1] = a
      /\ \A i \in 1 .. k : t[i] = s[i]
  BY <1>1, AppendProperties
<1>3. PICK n \in Nat : n = a.order
  BY DEF Answers
<1>4. PICK u \in Seq(Nat) : u = Numbers(s)
  BY AnswersTyped
<1>5. Len(u) = k /\ \A i \in 1 .. k : u[i] = s[i].order
  BY <1>1, <1>4, AnswersTyped
<1>6. PICK v : v = Append(u, n)
  OBVIOUS
<1>7. /\ v \in Seq(Nat) /\ Len(v) = k + 1 /\ v[k + 1] = n
      /\ \A i \in 1 .. k : v[i] = u[i]
  BY <1>5, <1>6, AppendProperties
<1>8. PICK w : w = Numbers(t)
  OBVIOUS
<1>9. w \in Seq(Nat) /\ Len(w) = k + 1 /\ \A i \in 1 .. k + 1 : w[i] = t[i].order
  BY <1>2, <1>8, AnswersTyped
<1>10. \A i \in 1 .. k + 1 : i = k + 1 \/ i \in 1 .. k
  OBVIOUS
<1>11. \A i \in 1 .. k + 1 : w[i] = v[i]
  BY <1>2, <1>3, <1>5, <1>7, <1>9, <1>10
<1>12. w = v
  BY <1>7, <1>9, <1>11, SeqEqual
<1>13. /\ Among(v) = Among(u) \cup {n}
       /\ Once(u) /\ n \notin Among(u) => Once(v)
  BY <1>6, NumbersAppended
<1>14. QED
  BY <1>1, <1>2, <1>3, <1>4, <1>6, <1>8, <1>12, <1>13

LEMMA AnswersTail ==
    ASSUME NEW s \in Seq(Answers), s # <<>>, NEW t, t = Tail(s)
    PROVE  /\ t \in Seq(Answers) /\ Len(t) = Len(s) - 1 /\ Len(s) # 0
           /\ Head(s) \in Answers /\ Head(s) = s[1]
           /\ \A i \in 1 .. Len(s) - 1 : t[i] = s[i + 1]
           /\ Among(Numbers(s)) = {Head(s).order} \cup Among(Numbers(t))
           /\ Once(Numbers(s)) => Once(Numbers(t)) /\ Head(s).order \notin Among(Numbers(t))
<1>1. PICK k \in Nat : k = Len(s)
  BY LenProperties
<1>2. k # 0
  BY <1>1, EmptySeq
<1>3. /\ t \in Seq(Answers) /\ Len(t) = k - 1 /\ Head(s) = s[1]
      /\ \A i \in 1 .. k - 1 : t[i] = s[i + 1]
  BY <1>1, <1>2, EmptySeq, HeadTailProperties
<1>4. Head(s) \in Answers
  BY <1>1, <1>2, <1>3, ElementOfSeq
<1>5. PICK u \in Seq(Nat) : u = Numbers(s)
  BY AnswersTyped
<1>6. Len(u) = k /\ \A i \in 1 .. k : u[i] = s[i].order
  BY <1>1, <1>5, AnswersTyped
<1>7. u # <<>>
  BY <1>2, <1>6, EmptySeq
<1>8. PICK v : v = Tail(u)
  OBVIOUS
<1>9. /\ v \in Seq(Nat) /\ Len(v) = k - 1 /\ Head(u) = u[1]
      /\ \A i \in 1 .. k - 1 : v[i] = u[i + 1]
  BY <1>6, <1>7, <1>8, HeadTailProperties
<1>10. PICK w : w = Numbers(t)
  OBVIOUS
<1>11. w \in Seq(Nat) /\ Len(w) = k - 1 /\ \A i \in 1 .. k - 1 : w[i] = t[i].order
  BY <1>3, <1>10, AnswersTyped
<1>12. \A i \in 1 .. k - 1 : w[i] = v[i]
  <2>1. SUFFICES ASSUME NEW i \in 1 .. k - 1
                 PROVE  w[i] = v[i]
    OBVIOUS
  <2>2. i + 1 \in 1 .. k
    OBVIOUS
  <2>3. QED
    BY <1>3, <1>6, <1>9, <1>11, <2>2
<1>13. w = v
  BY <1>9, <1>11, <1>12, SeqEqual
<1>14. Head(u) = Head(s).order
  BY <1>2, <1>3, <1>6, <1>9
<1>15. /\ Among(u) = {Head(u)} \cup Among(v)
       /\ Once(u) => Once(v) /\ Head(u) \notin Among(v)
  BY <1>7, <1>8, NumbersTail
<1>16. QED
  BY <1>1, <1>2, <1>3, <1>4, <1>5, <1>10, <1>13, <1>14, <1>15

\* Answers of distinct groups can be sorted by them.
LEMMA SortedExists ==
    ASSUME NEW s \in Seq(Answers), NEW n \in Nat, NEW k \in Nat, k = Len(s),
           Among(Numbers(s)) \subseteq 1 .. n, Once(Numbers(s))
    PROVE  \E t \in [DOMAIN s -> ToSet(s)] :
               \A i, j \in DOMAIN s : i < j => t[i].order < t[j].order
<1>1. /\ DOMAIN s = 1 .. k /\ \A i \in 1 .. k : s[i] \in Answers
      /\ Len(Numbers(s)) = k /\ \A i \in 1 .. k : Numbers(s)[i] = s[i].order
  BY AnswersTyped
<1>2. PICK set : set = Among(Numbers(s))
  OBVIOUS
<1>3. /\ \A i \in 1 .. k : s[i].order \in set
      /\ \A x \in set : \E i \in 1 .. k : x = s[i].order
      /\ \A i, j \in 1 .. k : i # j => s[i].order # s[j].order
  BY <1>1, <1>2 DEF Among, Once
<1>4. PICK f : f = [i \in 1 .. k |-> s[i].order]
  OBVIOUS
<1>5. \A i \in 1 .. k : f[i] = s[i].order
  BY <1>4
<1>6. f \in [1 .. k -> set]
  BY <1>3, <1>4
<1>7. f \in Bijection(1 .. k, set)
  <2>1. f \in Injection(1 .. k, set)
    BY <1>3, <1>5, <1>6 DEF Injection, IsInjective
  <2>2. f \in Surjection(1 .. k, set)
    BY <1>3, <1>5, <1>6 DEF Surjection
  <2>3. QED
    BY <2>1, <2>2 DEF Bijection
<1>8. IsFiniteSet(1 .. k) /\ Cardinality(1 .. k) = k
  <2>1. k \in Int /\ 1 \in Int
    OBVIOUS
  <2>2. IsFiniteSet(1 .. k) /\ Cardinality(1 .. k) = IF 1 > k THEN 0 ELSE k - 1 + 1
    BY <2>1, FS_Interval
  <2>3. QED
    BY <2>2
<1>9. Cardinality(set) = k
  <2>1. ExistsBijection(1 .. k, set)
    BY <1>7 DEF ExistsBijection
  <2>2. QED
    BY <1>8, <2>1, FS_Bijection
<1>10. PICK list \in [1 .. k -> set] : \A i, j \in 1 .. k : i < j => list[i] > list[j]
  BY <1>2, <1>9, FallingExists
<1>11. \A i \in 1 .. k : k + 1 - i \in 1 .. k
  OBVIOUS
<1>12. PICK where : where = [i \in 1 .. k |->
                                CHOOSE j \in 1 .. k : s[j].order = list[k + 1 - i]]
  OBVIOUS
<1>13. \A i \in 1 .. k : where[i] \in 1 .. k /\ s[where[i]].order = list[k + 1 - i]
  <2>1. ASSUME NEW i \in 1 .. k
        PROVE  where[i] \in 1 .. k /\ s[where[i]].order = list[k + 1 - i]
    <3>1. list[k + 1 - i] \in set
      BY <1>10, <1>11
    <3>2. \E j \in 1 .. k : s[j].order = list[k + 1 - i]
      BY <1>3, <3>1
    <3>3. where[i] = CHOOSE j \in 1 .. k : s[j].order = list[k + 1 - i]
      BY <1>12
    <3>4. QED
      BY <3>2, <3>3
  <2>2. QED
    BY <2>1
<1>14. PICK t : t = [i \in 1 .. k |-> s[where[i]]]
  OBVIOUS
<1>15. \A i \in 1 .. k : t[i] = s[where[i]] /\ t[i].order = list[k + 1 - i]
  BY <1>13, <1>14
<1>16. t \in [DOMAIN s -> ToSet(s)]
  <2>1. \A i \in 1 .. k : s[where[i]] \in ToSet(s)
    BY <1>1, <1>13 DEF ToSet
  <2>2. QED
    BY <1>1, <1>14, <2>1
<1>17. ASSUME NEW i \in 1 .. k, NEW j \in 1 .. k, i < j
       PROVE  t[i].order < t[j].order
  <2>1. k + 1 - i \in 1 .. k /\ k + 1 - j \in 1 .. k /\ k + 1 - j < k + 1 - i
    BY <1>17
  <2>2. list[k + 1 - j] > list[k + 1 - i]
    BY <1>10, <2>1
  <2>3. list[k + 1 - i] \in set /\ list[k + 1 - j] \in set
    BY <1>10, <2>1
  <2>4. list[k + 1 - i] \in Nat /\ list[k + 1 - j] \in Nat
    BY <1>2, <2>3
  <2>5. QED
    BY <1>15, <2>2, <2>4
<1>18. QED
  BY <1>1, <1>16, <1>17

LEMMA SortedAnswers ==
    ASSUME NEW s \in Seq(Answers), NEW n \in Nat, NEW t, t = InTheOrderAsked(s),
           Among(Numbers(s)) \subseteq 1 .. n, Once(Numbers(s))
    PROVE  /\ t \in Seq(Answers) /\ Len(t) = Len(s) /\ Once(Numbers(t))
           /\ \A i \in 1 .. Len(s) : \E j \in 1 .. Len(s) : t[i] = s[j]
           /\ \A i, j \in 1 .. Len(s) : i < j => t[i].order < t[j].order
           /\ Among(Numbers(t)) \subseteq Among(Numbers(s))
<1>1. PICK k \in Nat : k = Len(s)
  BY LenProperties
<1>2. /\ DOMAIN s = 1 .. k /\ \A i \in 1 .. k : s[i] \in Answers
      /\ Len(Numbers(s)) = k /\ \A i \in 1 .. k : Numbers(s)[i] = s[i].order
  BY <1>1, AnswersTyped
<1>3. \E list \in [DOMAIN s -> ToSet(s)] :
          \A i, j \in DOMAIN s : i < j => list[i].order < list[j].order
  BY <1>1, SortedExists
<1>4. /\ t \in [DOMAIN s -> ToSet(s)]
      /\ \A i, j \in DOMAIN s : i < j => t[i].order < t[j].order
  BY <1>3 DEF InTheOrderAsked
<1>5. /\ \A i \in 1 .. k : \E j \in 1 .. k : t[i] = s[j]
      /\ \A i, j \in 1 .. k : i < j => t[i].order < t[j].order
  <2>1. DOMAIN s = 1 .. k /\ ToSet(s) = {s[j] : j \in 1 .. k}
    BY <1>2 DEF ToSet
  <2>2. \A i \in 1 .. k : t[i] \in ToSet(s)
    BY <1>4, <2>1
  <2>3. \A i \in 1 .. k : \E j \in 1 .. k : t[i] = s[j]
    BY <2>1, <2>2
  <2>4. QED
    BY <1>4, <2>1, <2>3
<1>6. t \in [1 .. k -> Answers]
  BY <1>2, <1>4 DEF ToSet
<1>7. t \in Seq(Answers) /\ Len(t) = k
  BY <1>6
<1>8. Len(Numbers(t)) = k /\ \A i \in 1 .. k : Numbers(t)[i] = t[i].order /\ t[i].order \in Nat
  BY <1>7, AnswersTyped DEF Answers
<1>9. \A i, j \in 1 .. k : i # j => Numbers(t)[i] # Numbers(t)[j]
  <2>1. SUFFICES ASSUME NEW i \in 1 .. k, NEW j \in 1 .. k, i # j
                 PROVE  Numbers(t)[i] # Numbers(t)[j]
    OBVIOUS
  <2>2. i < j \/ j < i
    BY <2>1
  <2>3. t[i].order < t[j].order \/ t[j].order < t[i].order
    BY <1>5, <2>2
  <2>4. QED
    BY <1>8, <2>3
<1>10. Once(Numbers(t))
  BY <1>8, <1>9 DEF Once
<1>11. \A i \in 1 .. k : Numbers(t)[i] \in Among(Numbers(s))
  <2>1. SUFFICES ASSUME NEW i \in 1 .. k
                 PROVE  Numbers(t)[i] \in Among(Numbers(s))
    OBVIOUS
  <2>2. PICK j \in 1 .. k : t[i] = s[j]
    BY <1>5
  <2>3. Numbers(t)[i] = Numbers(s)[j]
    BY <1>2, <1>8, <2>2
  <2>4. QED
    BY <1>2, <2>3 DEF Among
<1>12. Among(Numbers(t)) \subseteq Among(Numbers(s))
  BY <1>8, <1>11 DEF Among
<1>13. QED
  BY <1>1, <1>5, <1>7, <1>10, <1>12

-----------------------------------------------------------------------------
\* Every variable keeps its type, and every stage its shape.

LEMMA ReleaseMeans ==
    ASSUME Typed, Apart, NEW m \in Nat
    PROVE  /\ Released(m) \in Seq(Nat) /\ Once(Released(m))
           /\ \A i, j \in 1 .. Len(Released(m)) : i < j => Released(m)[i] > Released(m)[j]
           /\ Kept(m) \subseteq deferred /\ \A e \in Kept(m) : ~(e.until <= m)
           /\ \A x \in Among(Released(m)) :
                  x \notin Orders(Kept(m)) /\ \E e \in deferred : e.order = x /\ e.until <= m
           /\ \A e \in deferred : e \in Kept(m) \/ e.order \in Among(Released(m))
<1>1. PICK n \in Nat : n = Len(asked)
  BY LenProperties DEF Typed
<1>2. PICK ready : ready = {e \in deferred : e.until <= m}
  OBVIOUS
<1>3. ready = {e \in deferred : Ready(e, m)}
  BY <1>2 DEF Ready
<1>4. Kept(m) = deferred \ ready
  BY <1>3 DEF Kept
<1>5. PICK set : set = Orders(ready)
  OBVIOUS
<1>6. \A e \in deferred : e.order \in 1 .. n
  BY <1>1 DEF Apart, Held, Orders
<1>7. set \in SUBSET (1 .. n)
  BY <1>2, <1>5, <1>6 DEF Orders
<1>8. PICK list : list = Released(m)
  OBVIOUS
<1>9. list = NewestFirst(set)
  BY <1>3, <1>5, <1>8 DEF Released
<1>10. /\ list \in Seq(Nat) /\ Among(list) = set /\ Once(list)
       /\ \A i, j \in 1 .. Len(list) : i < j => list[i] > list[j]
  BY <1>7, <1>9, NewestFirstIs
<1>11. \A e \in Kept(m) : e \in deferred /\ ~(e.until <= m)
  BY <1>2, <1>4
<1>12. \A x \in set : \E e \in deferred : e.order = x /\ e.until <= m
  BY <1>2, <1>5 DEF Orders
<1>13. \A e, f \in deferred : e.order = f.order => e = f
  BY DEF Apart
<1>14. \A x \in set : x \notin Orders(Kept(m))
  BY <1>11, <1>12, <1>13 DEF Orders
<1>15. \A e \in deferred : e \in Kept(m) \/ e.order \in set
  BY <1>2, <1>4, <1>5 DEF Orders
<1>16. QED
  BY <1>8, <1>10, <1>11, <1>12, <1>14, <1>15

LEMMA AllReleased ==
    ASSUME Typed, Apart
    PROVE  /\ NewestFirst(Held) \in Seq(Nat) /\ Once(NewestFirst(Held))
           /\ \A i, j \in 1 .. Len(NewestFirst(Held)) :
                  i < j => NewestFirst(Held)[i] > NewestFirst(Held)[j]
           /\ Among(NewestFirst(Held)) = Held
<1>1. PICK n \in Nat : n = Len(asked)
  BY LenProperties DEF Typed
<1>2. Held \in SUBSET (1 .. n)
  BY <1>1 DEF Apart
<1>3. PICK set : set = Held
  OBVIOUS
<1>4. QED
  BY <1>2, <1>3, NewestFirstIs

LEMMA HeadOfBatch ==
    ASSUME Typed, Len(batch) # 0
    PROVE  /\ Tail(batch) \in Seq(Nat) /\ Head(batch) \in Nat /\ batch # <<>>
           /\ Among(batch) = {Head(batch)} \cup Among(Tail(batch))
           /\ Once(batch) => Once(Tail(batch)) /\ Head(batch) \notin Among(Tail(batch))
<1>1. batch \in Seq(Nat) /\ batch # <<>>
  BY EmptySeq DEF Typed
<1>2. QED
  BY <1>1, NumbersTail

\* What exchange has when an answer is read.
Gathered(complete) == Append(answers, [order |-> Head(batch), complete |-> complete])

LEMMA GatheredIs ==
    ASSUME Typed, Shape, Apart, AnswersApart, pc = "awaiting", NEW complete \in BOOLEAN,
           NEW all, all = Gathered(complete)
    PROVE  /\ all \in Seq(Answers) /\ Once(Numbers(all)) /\ Len(all) = Len(answers) + 1
           /\ Among(Numbers(all)) = Among(Numbers(answers)) \cup {Head(batch)}
           /\ \E n \in Nat : Among(Numbers(all)) \subseteq 1 .. n
           /\ \A i \in 1 .. Len(answers) : all[i] = answers[i]
           /\ all[Len(answers) + 1].order = Head(batch)
           /\ all[Len(answers) + 1].complete = complete
<1>1. PICK n \in Nat : n = Len(asked)
  BY LenProperties DEF Typed
<1>2. Len(batch) # 0
  BY DEF Shape, Sending
<1>3. PICK h \in Nat : h = Head(batch)
  BY <1>2, HeadOfBatch
<1>4. PICK new : new = [order |-> h, complete |-> complete]
  OBVIOUS
<1>5. new \in Answers /\ new.order = h /\ new.complete = complete
  BY <1>4 DEF Answers
<1>6. h \in Among(batch)
  BY <1>2, <1>3, HeadOfBatch
<1>7. h \notin Among(Numbers(answers)) /\ Once(Numbers(answers))
  BY <1>6 DEF AnswersApart
<1>8. answers \in Seq(Answers) /\ all = Append(answers, new)
  BY <1>3, <1>4 DEF Typed, Gathered
<1>9. /\ all \in Seq(Answers) /\ Len(all) = Len(answers) + 1 /\ all[Len(answers) + 1] = new
      /\ \A i \in 1 .. Len(answers) : all[i] = answers[i]
      /\ Among(Numbers(all)) = Among(Numbers(answers)) \cup {new.order}
      /\ Once(Numbers(answers)) /\ new.order \notin Among(Numbers(answers)) => Once(Numbers(all))
  <2>1. PICK old \in Seq(Answers) : old = answers
    BY <1>8
  <2>2. all = Append(old, new) /\ new \in Answers
    BY <1>5, <1>8, <2>1
  <2>3. all \in Seq(Answers) /\ Len(all) = Len(old) + 1 /\ all[Len(old) + 1] = new
    BY <2>2, AnswersAppended
  <2>4. \A i \in 1 .. Len(old) : all[i] = old[i]
    BY <2>2, AnswersAppended
  <2>5. Among(Numbers(all)) = Among(Numbers(old)) \cup {new.order}
    <3>1. PICK u \in Seq(Nat) : u = Numbers(old)
      BY AnswersTyped
    <3>2. Numbers(all) = Append(Numbers(old), new.order)
      BY <2>1, <2>2, AnswersAppended, Zenon
    <3>3. Among(Append(u, h)) = Among(u) \cup {h}
      BY NumbersAppended
    <3>4. QED
      BY <1>5, <3>1, <3>2, <3>3, Zenon
  <2>6. Once(Numbers(old)) /\ new.order \notin Among(Numbers(old)) => Once(Numbers(all))
    BY <2>2, AnswersAppended
  <2>7. QED
    BY <2>1, <2>3, <2>4, <2>5, <2>6
<1>10. Among(Numbers(answers)) \subseteq 1 .. n /\ h \in 1 .. n
  BY <1>1, <1>6 DEF AnswersApart, Apart
<1>11. Among(Numbers(all)) \subseteq 1 .. n
  BY <1>5, <1>9, <1>10
<1>12. QED
  BY <1>3, <1>5, <1>7, <1>9, <1>11

\* Reading an answer, told by what is left to send.
LEMMA AnswerRead ==
    ASSUME Typed, Shape, ReadAnswer
    PROVE  \E complete \in BOOLEAN :
               /\ pc = "awaiting" /\ Len(batch) # 0
               /\ batch' = IF complete THEN Tail(batch) ELSE <<>>
               /\ pc' = IF Len(batch') = 0 THEN "answering" ELSE "forwarding"
               /\ answers' = IF Len(batch') = 0 THEN InTheOrderAsked(Gathered(complete))
                             ELSE Gathered(complete)
               /\ (alive' <=> (alive /\ complete)) /\ alive' \in BOOLEAN
               /\ (errored => errored') /\ errored' \in BOOLEAN
               /\ complete /\ wire = "error" => errored'
               /\ errored' => errored \/ wire = "error" \/ ~complete
               /\ complete => wire \in {"answer", "error"}
               /\ ~complete => session = "over"
               /\ wire' = "none"
               /\ UNCHANGED <<session, deferred, last, outcome, got, reported>>
               /\ UNCHANGED <<asked, written, ran, causes, voided, lost>>
<1>1. pc = "awaiting" /\ Len(batch) # 0
  BY DEF ReadAnswer, Shape, Sending
<1>2. UNCHANGED <<session, deferred, last, outcome, got, reported>>
  BY DEF ReadAnswer
<1>3. UNCHANGED <<asked, written, ran, causes, voided, lost>>
  BY DEF ReadAnswer, history
<1>4. PICK complete \in BOOLEAN, errors \in BOOLEAN :
          /\ Take(complete, errors)
          /\ complete => wire \in {"answer", "error"} /\ (errors <=> wire = "error")
          /\ ~complete => session = "over"
  BY DEF ReadAnswer
<1>5. wire' = "none" /\ batch' = IF complete THEN Tail(batch) ELSE <<>>
  BY <1>4, Zenon DEF Take
<1>6. errored' = (errored \/ errors) /\ alive' = (alive /\ complete)
  BY <1>4, Zenon DEF Take
<1>7. errored \in BOOLEAN /\ alive \in BOOLEAN
  BY DEF Typed
<1>8. errored' \in BOOLEAN /\ (errored' <=> errored \/ errors)
  BY <1>6, <1>7, Zenon
<1>9. alive' \in BOOLEAN /\ (alive' <=> (alive /\ complete))
  BY <1>6, <1>7, Zenon
<1>10. batch' \in Seq(Nat)
  BY <1>1, <1>5, HeadOfBatch, Empty
<1>11. batch' = <<>> <=> Len(batch') = 0
  BY <1>10, NumbersTyped
<1>12. /\ pc' = IF batch' = <<>> THEN "answering" ELSE "forwarding"
       /\ answers' = IF batch' = <<>> THEN InTheOrderAsked(Gathered(complete))
                     ELSE Gathered(complete)
  BY <1>4, <1>5 DEF Take, Gathered
<1>13. /\ complete /\ wire = "error" => errored'
       /\ errored' => errored \/ wire = "error" \/ ~complete
       /\ errored => errored'
  BY <1>4, <1>8
<1>14. QED
  BY <1>1, <1>2, <1>3, <1>4, <1>5, <1>8, <1>9, <1>11, <1>12, <1>13

\* Writing a group and observing it.
LEMMA Written ==
    ASSUME Typed, Write
    PROVE  \E request \in Requests :
               /\ pc = "forwarding" /\ pc' = "awaiting"
               /\ wire' = IF session = "over" THEN "nowhere" ELSE request
               /\ written' = Append(written, Head(batch))
               /\ (errored' <=> errored /\ request \notin {"begin", "rollback"})
               /\ (reported' <=> reported \/ (errored /\ request = "commit"))
               /\ (voided' <=> voided \/ (request = "commit" /\ session # "active"))
               /\ (lost' <=> lost \/ (request = "commit" /\ session = "failed"))
               /\ {errored', reported', voided', lost'} \subseteq BOOLEAN
               /\ UNCHANGED <<session, deferred, batch, last, outcome, answers, alive, got>>
               /\ UNCHANGED <<asked, ran, causes>>
<1>1. PICK request \in Requests :
          /\ wire' = IF session = "over" THEN "nowhere" ELSE request
          /\ Events(request)
          /\ voided' = (voided \/ (request = "commit" /\ session # "active"))
          /\ lost' = (lost \/ (request = "commit" /\ session = "failed"))
  BY DEF Write
<1>2. pc = "forwarding" /\ pc' = "awaiting" /\ written' = Append(written, Head(batch))
  BY DEF Write
<1>3. /\ UNCHANGED <<session, deferred, batch, last, outcome, answers, alive, got>>
      /\ UNCHANGED <<asked, ran, causes>>
  BY DEF Write, loop, exchanged
<1>4. errored \in BOOLEAN /\ reported \in BOOLEAN /\ voided \in BOOLEAN /\ lost \in BOOLEAN
  BY DEF Typed
<1>5. (errored' <=> errored /\ request \notin {"begin", "rollback"}) /\ errored' \in BOOLEAN
  BY <1>1, <1>4, Zenon DEF Events
<1>6. (reported' <=> reported \/ (errored /\ request = "commit")) /\ reported' \in BOOLEAN
  BY <1>1, <1>4, Zenon DEF Events
<1>7. (voided' <=> voided \/ (request = "commit" /\ session # "active")) /\ voided' \in BOOLEAN
  BY <1>1, <1>4, Zenon
<1>8. (lost' <=> lost \/ (request = "commit" /\ session = "failed")) /\ lost' \in BOOLEAN
  BY <1>1, <1>4, Zenon
<1>9. QED
  BY <1>1, <1>2, <1>3, <1>5, <1>6, <1>7, <1>8

\* Running a request.
LEMMA Executed ==
    ASSUME Typed, Execute
    PROVE  \E effect \in Effects(wire) :
               /\ wire \in Requests /\ session # "over"
               /\ session' = effect[1] /\ wire' = IF effect[2] THEN "error" ELSE "answer"
               /\ session' \in {"idle", "active", "failed"} /\ effect[2] \in BOOLEAN
               /\ ran' = Append(ran, Head(batch))
               /\ UNCHANGED <<pc, deferred, batch, last, outcome, answers, alive, got>>
               /\ UNCHANGED <<errored, reported, asked, written, causes, voided, lost>>
<1>1. PICK effect \in Effects(wire) :
          session' = effect[1] /\ wire' = IF effect[2] THEN "error" ELSE "answer"
  BY DEF Execute
<1>2. wire \in Requests /\ session # "over" /\ ran' = Append(ran, Head(batch))
  BY DEF Execute
<1>3. /\ UNCHANGED <<pc, deferred, batch, last, outcome, answers, alive, got>>
      /\ UNCHANGED <<errored, reported, asked, written, causes, voided, lost>>
  BY DEF Execute, loop, exchanged, checker
<1>4. session \in {"idle", "active", "failed"}
  BY <1>2 DEF Typed
<1>5. effect[1] \in {"idle", "active", "failed"} /\ effect[2] \in BOOLEAN
  <2>1. CASE wire = "rollback"
    <3>1. effect = <<"idle", FALSE>>
      BY <1>1, <2>1 DEF Effects
    <3>2. QED
      BY <3>1
  <2>2. CASE wire = "commit"
    <3>1. PICK errs \in BOOLEAN : effect = <<"idle", errs>>
      BY <1>1, <2>2 DEF Effects
    <3>2. QED
      BY <3>1
  <2>3. CASE wire \in {"begin", "other"} /\ session = "failed"
    <3>1. effect = <<"failed", TRUE>>
      BY <1>1, <2>3 DEF Effects
    <3>2. QED
      BY <3>1
  <2>4. CASE wire = "begin" /\ session # "failed"
    <3>1. effect = <<"active", FALSE>>
      BY <1>1, <2>4 DEF Effects
    <3>2. QED
      BY <3>1
  <2>5. CASE wire = "other" /\ session # "failed"
    <3>1. PICK next \in {session, "failed"}, errs \in BOOLEAN : effect = <<next, errs>>
      BY <1>1, <2>5 DEF Effects
    <3>2. next \in {"idle", "active", "failed"}
      BY <1>4, <3>1
    <3>3. QED
      BY <3>1, <3>2
  <2>6. QED
    BY <1>2, <2>1, <2>2, <2>3, <2>4, <2>5 DEF Requests
<1>6. QED
  BY <1>1, <1>2, <1>3, <1>5

LEMMA AskedGrows ==
    ASSUME asked \in Seq(Decided), NEW choice \in Decided, asked' = Append(asked, choice)
    PROVE  /\ asked' \in Seq(Decided) /\ Len(asked) \in Nat /\ Len(asked') = Len(asked) + 1
           /\ \A i \in 1 .. Len(asked) : asked'[i] = asked[i]
           /\ asked'[Len(asked) + 1] = choice
<1>1. PICK n \in Nat : n = Len(asked)
  BY LenProperties
<1>2. PICK more : more = Append(asked, choice)
  OBVIOUS
<1>3. /\ more \in Seq(Decided) /\ Len(more) = n + 1 /\ more[n + 1] = choice
      /\ \A i \in 1 .. n : more[i] = asked[i]
  BY <1>1, <1>2, AppendProperties
<1>4. QED
  BY <1>1, <1>2, <1>3

LEMMA NumberAdded ==
    ASSUME NEW s \in Seq(Nat), NEW e \in Nat
    PROVE  Append(s, e) \in Seq(Nat)
BY AppendProperties

LEMMA TypedStarts ==
    ASSUME Init
    PROVE  Typed
<1>1. /\ session = "idle" /\ wire = "none" /\ pc = "accepted" /\ outcome = "none"
      /\ deferred = {} /\ batch = <<>> /\ last = FALSE /\ answers = <<>> /\ alive = TRUE
      /\ got = <<>> /\ asked = <<>> /\ written = <<>> /\ ran = <<>> /\ causes = {}
  BY DEF Init
<1>2. errored = FALSE /\ reported = FALSE /\ voided = FALSE /\ lost = FALSE
  BY DEF Init
<1>3. pc \in Stages
  BY <1>1 DEF Stages, Early
<1>4. batch \in Seq(Nat) /\ got \in Seq(Nat) /\ written \in Seq(Nat) /\ ran \in Seq(Nat)
  BY <1>1, Empty
<1>5. asked \in Seq(Decided) /\ answers \in Seq(Answers)
  BY <1>1, Empty
<1>6. QED
  BY <1>1, <1>2, <1>3, <1>4, <1>5 DEF Typed

Wired == Requests \cup {"none", "nowhere", "answer", "error"}

LEMMA TypedAtRead ==
    ASSUME Typed, Apart, Reads
    PROVE  Typed'
<1>1. PICK n \in Nat : n = Len(asked)
  BY LenProperties DEF Typed
<1>2. CASE Cuts
  <2>1. asked' \in Seq(Decided)
    BY <1>2, AskedGrows DEF Typed, Cuts
  <2>2. causes' \subseteq {"died", "cut", "terminated"} /\ pc' \in Stages
    BY <1>2 DEF Typed, Cuts, Stages
  <2>3. QED
    BY <1>2, <2>1, <2>2 DEF Typed, Cuts
<1>3. ASSUME NEW choice \in Decided, Releases(choice)
      PROVE  Typed'
  <2>1. asked' \in Seq(Decided)
    BY <1>3, AskedGrows DEF Typed, Releases
  <2>2. PICK back \in Seq(Nat) : back = Released(n + 1)
    BY ReleaseMeans
  <2>3. deferred' \subseteq Entries
    BY <1>1, <1>3, ReleaseMeans DEF Typed, Releases
  <2>4. batch' = <<n + 1>> \o back
    BY <1>1, <1>3, <2>2 DEF Releases
  <2>5. <<n + 1>> \in Seq(Nat)
    BY One
  <2>6. batch' \in Seq(Nat)
    BY <2>4, <2>5, NumbersJoined
  <2>7. pc' \in Stages
    BY <1>3 DEF Releases, Stages
  <2>8. QED
    BY <1>3, <2>1, <2>3, <2>6, <2>7 DEF Typed, Releases
<1>4. ASSUME NEW choice \in Decided, NEW entry \in Entries, Defers(choice, entry)
      PROVE  Typed'
  <2>1. asked' \in Seq(Decided)
    BY <1>4, AskedGrows DEF Typed, Defers
  <2>2. deferred' \subseteq Entries
    BY <1>4 DEF Typed, Defers
  <2>3. QED
    BY <1>4, <2>1, <2>2 DEF Typed, Defers
<1>5. QED
  BY <1>2, <1>3, <1>4 DEF Reads

LEMMA TypedAtAnswer ==
    ASSUME Typed, Shape, Apart, AnswersApart, ReadAnswer
    PROVE  Typed'
<1>1. PICK complete \in BOOLEAN :
          /\ pc = "awaiting" /\ Len(batch) # 0
          /\ batch' = IF complete THEN Tail(batch) ELSE <<>>
          /\ pc' = IF Len(batch') = 0 THEN "answering" ELSE "forwarding"
          /\ answers' = IF Len(batch') = 0 THEN InTheOrderAsked(Gathered(complete))
                        ELSE Gathered(complete)
          /\ alive' \in BOOLEAN /\ errored' \in BOOLEAN /\ wire' = "none"
          /\ UNCHANGED <<session, deferred, last, outcome, got, reported>>
          /\ UNCHANGED <<asked, written, ran, causes, voided, lost>>
  BY AnswerRead
<1>2. batch' \in Seq(Nat)
  BY <1>1, HeadOfBatch, Empty
<1>3. PICK all : all = Gathered(complete)
  OBVIOUS
<1>4. /\ all \in Seq(Answers) /\ Once(Numbers(all))
      /\ \E n \in Nat : Among(Numbers(all)) \subseteq 1 .. n
  BY <1>1, <1>3, GatheredIs
<1>5. InTheOrderAsked(all) \in Seq(Answers)
  BY <1>4, SortedAnswers
<1>6. answers' \in Seq(Answers)
  BY <1>1, <1>3, <1>4, <1>5
<1>7. pc' \in Stages
  BY <1>1 DEF Stages
<1>8. QED
  BY <1>1, <1>2, <1>6, <1>7 DEF Typed

LEMMA TypedKept ==
    ASSUME Typed, Shape, Apart, AnswersApart, Next
    PROVE  Typed'
<1>1. PICK n \in Nat : n = Len(asked)
  BY LenProperties DEF Typed
<1>2. CASE Talks
  <2>1. pc' \in Stages
    BY <1>2 DEF Typed, Talks, Stages, Early
  <2>2. QED
    BY <1>2, <2>1 DEF Typed, Talks
<1>3. CASE Ends
  <2>1. pc' \in Stages /\ causes' \subseteq {"died", "cut", "terminated"}
    BY <1>3 DEF Typed, Ends, Stages
  <2>2. session' \in {"idle", "active", "failed", "over"}
    BY <1>3 DEF Typed, Ends
  <2>3. QED
    BY <1>3, <2>1, <2>2 DEF Typed, Ends
<1>4. CASE Empties
  <2>1. batch' \in Seq(Nat)
    BY <1>4, AllReleased DEF Empties, Held
  <2>2. pc' \in Stages /\ causes' \subseteq {"died", "cut", "terminated"}
    BY <1>4 DEF Typed, Empties, Stages
  <2>3. session' \in {"idle", "active", "failed", "over"}
    BY <1>4 DEF Typed, Empties
  <2>4. QED
    BY <1>4, <2>1, <2>2, <2>3 DEF Typed, Empties
<1>5. CASE Quit
  <2>1. UNCHANGED <<wire, pc, deferred, batch, last, outcome, answers, alive, got>>
    BY <1>5 DEF Quit, loop, exchanged
  <2>2. UNCHANGED <<errored, reported, asked, written, ran, voided, lost>>
    BY <1>5 DEF Quit, checker
  <2>3. session' = "over" /\ causes' = causes \cup {"died"}
    BY <1>5 DEF Quit
  <2>4. QED
    BY <2>1, <2>2, <2>3 DEF Typed
<1>6. CASE Execute
  <2>1. PICK effect \in Effects(wire) :
            /\ wire \in Requests
            /\ wire' = IF effect[2] THEN "error" ELSE "answer"
            /\ session' \in {"idle", "active", "failed"}
            /\ ran' = Append(ran, Head(batch))
            /\ UNCHANGED <<pc, deferred, batch, last, outcome, answers, alive, got>>
            /\ UNCHANGED <<errored, reported, asked, written, causes, voided, lost>>
    BY <1>6, Executed
  <2>2. Len(batch) # 0
    BY <2>1 DEF Shape
  <2>3. Head(batch) \in Nat
    BY <2>2, HeadOfBatch
  <2>4. ran' \in Seq(Nat)
    BY <2>1, <2>3, NumberAdded DEF Typed
  <2>5. QED
    BY <2>1, <2>4 DEF Typed
<1>7. CASE Write
  <2>1. PICK request \in Requests :
            /\ pc = "forwarding" /\ pc' = "awaiting"
            /\ wire' = IF session = "over" THEN "nowhere" ELSE request
            /\ written' = Append(written, Head(batch))
            /\ {errored', reported', voided', lost'} \subseteq BOOLEAN
            /\ UNCHANGED <<session, deferred, batch, last, outcome, answers, alive, got>>
            /\ UNCHANGED <<asked, ran, causes>>
    BY <1>7, Written
  <2>2. Len(batch) # 0
    BY <2>1 DEF Shape, Sending
  <2>3. Head(batch) \in Nat
    BY <2>2, HeadOfBatch
  <2>4. written' \in Seq(Nat)
    BY <2>1, <2>3, NumberAdded DEF Typed
  <2>5. pc' \in Stages /\ wire' \in Wired
    BY <2>1 DEF Stages, Wired
  <2>6. errored' \in BOOLEAN /\ reported' \in BOOLEAN /\ voided' \in BOOLEAN /\ lost' \in BOOLEAN
    BY <2>1
  <2>7. QED
    BY <2>1, <2>4, <2>5, <2>6 DEF Typed, Wired
<1>8. CASE Passes
  <2>1. PICK old \in Seq(Answers) : old = answers /\ old # <<>>
    BY <1>8 DEF Typed, Passes
  <2>2. Head(old) \in Answers /\ Tail(old) \in Seq(Answers)
    BY <2>1, AnswersTail
  <2>3. PICK h \in Nat : h = Head(old).order
    BY <2>2 DEF Answers
  <2>4. got' \in {got, Append(got, h)}
    BY <1>8, <2>1, <2>3 DEF Passes
  <2>5. got' \in Seq(Nat)
    BY <2>4, NumberAdded DEF Typed
  <2>6. answers' \in Seq(Answers)
    BY <1>8, <2>1, <2>2 DEF Passes
  <2>7. QED
    BY <1>8, <2>5, <2>6 DEF Typed, Passes
<1>9. QED
  BY <1>1, <1>2, <1>3, <1>4, <1>5, <1>6, <1>7, <1>8, StepCases, TypedAtRead, TypedAtAnswer

\* What is sent next is not empty where the loop starts an exchange.
LEMMA SomethingToSend ==
    ASSUME Typed, Apart
    PROVE  /\ \A choice \in Decided : Releases(choice) => Len(batch') # 0
           /\ Empties => Len(batch') # 0
<1>1. PICK n \in Nat : n = Len(asked)
  BY LenProperties DEF Typed
<1>2. ASSUME NEW choice \in Decided, Releases(choice)
      PROVE  Len(batch') # 0
  <2>1. PICK back \in Seq(Nat) : back = Released(n + 1)
    BY ReleaseMeans
  <2>2. PICK new : new = <<n + 1>> \o back
    OBVIOUS
  <2>3. <<n + 1>> \in Seq(Nat) /\ n + 1 \in Among(<<n + 1>>)
    BY One
  <2>4. new \in Seq(Nat) /\ n + 1 \in Among(new)
    BY <2>2, <2>3, NumbersJoined
  <2>5. Len(new) # 0
    BY <2>4, NumbersTyped
  <2>6. batch' = new
    BY <1>1, <1>2, <2>1, <2>2 DEF Releases
  <2>7. QED
    BY <2>5, <2>6
<1>3. ASSUME Empties
      PROVE  Len(batch') # 0
  <2>1. PICK list : list = NewestFirst(Held)
    OBVIOUS
  <2>2. list \in Seq(Nat) /\ Among(list) = Held
    BY <2>1, AllReleased
  <2>3. Held # {}
    BY <1>3 DEF Empties, Held, Orders
  <2>4. Len(list) # 0
    BY <2>2, <2>3, NumbersTyped
  <2>5. batch' = list
    BY <1>3, <2>1 DEF Empties, Held
  <2>6. QED
    BY <2>4, <2>5
<1>4. QED
  BY <1>2, <1>3

LEMMA ShapeKept ==
    ASSUME Typed, Shape, Apart, AnswersApart, Next
    PROVE  Shape'
<1> USE DEF Sending
<1>1. PICK n \in Nat : n = Len(asked)
  BY LenProperties DEF Typed
<1>2. MaxGroups \in Nat
  BY BoundsAssumption
<1>3. CASE Talks
  <2>1. UNCHANGED <<session, wire, outcome, deferred, batch, last, answers, alive, asked,
                    written, causes>>
    BY <1>3 DEF Talks
  <2>2. CASE pc' = pc
    BY <2>1, <2>2 DEF Shape
  <2>3. CASE pc \in Early /\ pc' \in Early \cup {"reading"}
    BY <2>1, <2>3 DEF Shape, Early
  <2>4. CASE pc = "answering" /\ answers = <<>> /\ ~last /\ pc' = "reading"
    <3>1. Len(answers) = 0
      BY <2>4, AnswersTyped DEF Typed
    <3>2. QED
      BY <2>1, <2>4, <3>1 DEF Shape, Early
  <2>5. QED
    BY <1>3, <2>2, <2>3, <2>4 DEF Talks
<1>4. CASE Ends
  <2>1. UNCHANGED <<wire, deferred, batch, last, answers, alive, asked, written>>
    BY <1>4 DEF Ends
  <2>2. pc' = "ended" /\ (session = "over" => session' = "over")
    BY <1>4 DEF Ends
  <2>3. session' = "over" => causes' # {}
    BY <1>4 DEF Ends, Shape
  <2>4. QED
    BY <2>1, <2>2, <2>3 DEF Shape, Early
<1>5. CASE Cuts
  <2>1. UNCHANGED <<session, wire, deferred, batch, last, answers, alive, written>>
    BY <1>5 DEF Cuts
  <2>2. pc' = "ended" /\ causes' # {} /\ Len(asked) < MaxGroups
    BY <1>5 DEF Cuts
  <2>3. Len(asked') = n + 1
    BY <1>1, <1>5, AskedGrows DEF Typed, Cuts
  <2>4. QED
    BY <1>1, <1>2, <2>1, <2>2, <2>3 DEF Shape, Early
<1>6. ASSUME NEW choice \in Decided, Releases(choice)
      PROVE  Shape'
  <2>1. UNCHANGED <<session, wire, outcome, last, answers, alive, causes>>
    BY <1>6 DEF Releases
  <2>2. pc = "reading" /\ pc' = "forwarding" /\ Len(asked) < MaxGroups
    BY <1>6 DEF Releases
  <2>3. Len(asked') = n + 1
    BY <1>1, <1>6, AskedGrows DEF Typed, Releases
  <2>4. Len(batch') # 0
    BY <1>6, SomethingToSend
  <2>5. QED
    BY <1>1, <1>2, <2>1, <2>2, <2>3, <2>4 DEF Shape, Early
<1>7. ASSUME NEW choice \in Decided, NEW entry \in Entries, Defers(choice, entry)
      PROVE  Shape'
  <2>1. UNCHANGED <<session, wire, outcome, batch, last, answers, alive, causes, pc>>
    BY <1>7 DEF Defers
  <2>2. pc = "reading" /\ Len(asked) < MaxGroups
    BY <1>7 DEF Defers
  <2>3. Len(asked') = n + 1
    BY <1>1, <1>7, AskedGrows DEF Typed, Defers
  <2>4. QED
    BY <1>1, <1>2, <2>1, <2>2, <2>3 DEF Shape, Early
<1>8. CASE Empties
  <2>1. UNCHANGED <<wire, outcome, answers, alive, asked>>
    BY <1>8 DEF Empties
  <2>2. /\ pc = "reading" /\ pc' = "forwarding" /\ deferred' = {}
        /\ session = "over" => session' = "over"
    BY <1>8 DEF Empties
  <2>3. session' = "over" => causes' # {}
    BY <1>8 DEF Empties, Shape
  <2>4. Len(batch') # 0
    BY <1>8, SomethingToSend
  <2>5. QED
    BY <2>1, <2>2, <2>3, <2>4 DEF Shape, Early
<1>9. CASE Quit
  <2>1. UNCHANGED <<wire, pc, deferred, batch, last, outcome, answers, alive, asked, written>>
    BY <1>9 DEF Quit, loop, exchanged
  <2>2. session' = "over" /\ causes' # {}
    BY <1>9 DEF Quit
  <2>3. QED
    BY <2>1, <2>2 DEF Shape
<1>10. CASE Execute
  <2>1. PICK effect \in Effects(wire) :
            /\ wire \in Requests /\ session # "over" /\ session' \in {"idle", "active", "failed"}
            /\ wire' = IF effect[2] THEN "error" ELSE "answer"
            /\ UNCHANGED <<pc, deferred, batch, last, outcome, answers, alive, asked,
                           written, causes>>
    BY <1>10, Executed
  <2>2. wire # "none" /\ wire' \in {"error", "answer"} /\ session' # "over"
    BY <2>1 DEF Requests
  <2>3. UNCHANGED <<pc, deferred, batch, last, outcome, answers, alive, asked, written, causes>>
    BY <2>1
  <2>4. wire' \notin Requests \cup {"none", "nowhere"}
    BY <2>2 DEF Requests
  <2>5. QED
    BY <2>1, <2>2, <2>3, <2>4 DEF Shape
<1>11. CASE Write
  <2>1. PICK request \in Requests :
            /\ pc = "forwarding" /\ pc' = "awaiting"
            /\ wire' = IF session = "over" THEN "nowhere" ELSE request
            /\ UNCHANGED <<session, deferred, batch, last, outcome, answers, alive, asked, causes>>
    BY <1>11, Written
  <2>2. wire' # "none" /\ (wire' = "nowhere" => session = "over")
    BY <2>1 DEF Requests
  <2>3. UNCHANGED <<session, deferred, batch, last, outcome, answers, alive, asked, causes>>
    BY <2>1
  <2>4. QED
    BY <2>1, <2>2, <2>3 DEF Shape, Early
<1>12. CASE ReadAnswer
  <2>1. PICK complete \in BOOLEAN :
          /\ pc = "awaiting"
          /\ pc' = IF Len(batch') = 0 THEN "answering" ELSE "forwarding"
          /\ (alive' <=> (alive /\ complete)) /\ alive' \in BOOLEAN
          /\ ~complete => session = "over"
          /\ wire' = "none"
          /\ UNCHANGED <<session, deferred, last, outcome, asked, causes>>
    BY <1>12, AnswerRead
  <2>2. ~alive' => session = "over"
    BY <2>1 DEF Shape, Typed
  <2>3. wire' \notin Requests
    BY <2>1 DEF Requests
  <2>4. QED
    BY <2>1, <2>2, <2>3 DEF Shape, Early
<1>13. CASE Passes
  <2>1. UNCHANGED <<session, wire, pc, outcome, deferred, batch, last, alive, asked, written,
                    causes>> /\ pc = "answering"
    BY <1>13 DEF Passes
  <2>2. QED
    BY <2>1 DEF Shape, Early
<1>14. QED
  BY <1>1, <1>3, <1>4, <1>5, <1>6, <1>7, <1>8, <1>9, <1>10, <1>11, <1>12, <1>13, StepCases
     DEF Reads

-----------------------------------------------------------------------------
\* The checker follows the server's transaction.

LEMMA VerdictAside ==
    ASSUME TransactionIsKnown, CommitReportsAreRight,
           UNCHANGED <<wire, reported, voided, lost>>, session' \in {session, "over"},
           (pc' # "ended" => pc # "ended" /\ errored' = errored),
           pc' = "ended" => ~errored' \/ (errored' = errored)
    PROVE  TransactionIsKnown' /\ CommitReportsAreRight'
<1>1. errored' => errored
  BY Zenon
<1>2. wire' = wire
  OBVIOUS
<1>3. CommitReportsAreRight'
  BY DEF CommitReportsAreRight
<1>4. session' = "failed" => session = "failed"
  OBVIOUS
<1>5. session' = "active" => session = "active"
  OBVIOUS
<1>6. pc' # "ended" => pc # "ended" /\ (errored => errored')
  OBVIOUS
<1>7. TransactionIsKnown'
  BY <1>1, <1>2, <1>4, <1>5, <1>6 DEF TransactionIsKnown
<1>8. QED
  BY <1>3, <1>7

LEMMA VerdictAtExecute ==
    ASSUME Typed, TransactionIsKnown, CommitReportsAreRight, Execute
    PROVE  TransactionIsKnown' /\ CommitReportsAreRight'
<1>1. PICK effect \in Effects(wire) :
          /\ wire \in Requests /\ session # "over"
          /\ session' = effect[1] /\ wire' = IF effect[2] THEN "error" ELSE "answer"
          /\ UNCHANGED <<pc, errored, reported, voided, lost>>
  BY Executed
<1>2. CommitReportsAreRight'
  BY <1>1 DEF CommitReportsAreRight
<1>3. wire' \in {"error", "answer"}
  BY <1>1
<1>4. /\ session' = "failed" => wire' = "error"
      /\ session' = "active" => ~errored /\ wire' = "answer"
  <2>1. CASE wire = "rollback"
    <3>1. effect = <<"idle", FALSE>>
      BY <2>1 DEF Effects
    <3>2. session' = "idle"
      BY <1>1, <3>1
    <3>3. QED
      BY <3>2
  <2>2. CASE wire = "commit"
    <3>1. PICK errs \in BOOLEAN : effect = <<"idle", errs>>
      BY <2>2 DEF Effects
    <3>2. session' = "idle"
      BY <1>1, <3>1
    <3>3. QED
      BY <3>2
  <2>3. CASE wire \in {"begin", "other"} /\ session = "failed"
    <3>1. effect = <<"failed", TRUE>>
      BY <2>3 DEF Effects
    <3>2. session' = "failed" /\ wire' = "error"
      BY <1>1, <3>1
    <3>3. QED
      BY <3>2
  <2>4. CASE wire = "begin" /\ session # "failed"
    <3>1. effect = <<"active", FALSE>>
      BY <2>4 DEF Effects
    <3>2. session' = "active" /\ wire' = "answer" /\ ~errored
      BY <1>1, <2>4, <3>1 DEF TransactionIsKnown
    <3>3. QED
      BY <3>2
  <2>5. CASE wire = "other" /\ session # "failed"
    <3>1. \/ effect = <<session, FALSE>>
          \/ effect = <<IF session = "active" THEN "failed" ELSE session, TRUE>>
      BY <2>5 DEF Effects
    <3>2. CASE effect = <<session, FALSE>>
      <4>1. session' = session /\ wire' = "answer"
        BY <1>1, <3>2
      <4>2. QED
        BY <2>5, <4>1 DEF TransactionIsKnown
    <3>3. CASE effect = <<IF session = "active" THEN "failed" ELSE session, TRUE>>
      <4>1. session' = (IF session = "active" THEN "failed" ELSE session) /\ wire' = "error"
        BY <1>1, <3>3
      <4>2. session' # "active"
        BY <4>1
      <4>3. QED
        BY <4>1, <4>2
    <3>4. QED
      BY <3>1, <3>2, <3>3
  <2>6. QED
    BY <1>1, <2>1, <2>2, <2>3, <2>4, <2>5 DEF Requests
<1>5. errored' = errored
  BY <1>1
<1>6. QED
  BY <1>2, <1>3, <1>4, <1>5 DEF TransactionIsKnown

LEMMA VerdictAtWrite ==
    ASSUME Typed, Shape, TransactionIsKnown, CommitReportsAreRight, Write
    PROVE  TransactionIsKnown' /\ CommitReportsAreRight'
<1>1. PICK request \in Requests :
          /\ pc = "forwarding" /\ pc' = "awaiting"
          /\ wire' = IF session = "over" THEN "nowhere" ELSE request
          /\ (errored' <=> errored /\ request \notin {"begin", "rollback"})
          /\ (reported' <=> reported \/ (errored /\ request = "commit"))
          /\ (voided' <=> voided \/ (request = "commit" /\ session # "active"))
          /\ (lost' <=> lost \/ (request = "commit" /\ session = "failed"))
          /\ session' = session
  BY Written
<1>2. wire = "none"
  BY <1>1 DEF Shape
<1>3. session = "failed" => errored
  BY <1>1, <1>2 DEF TransactionIsKnown
<1>4. session = "active" => ~errored
  BY DEF TransactionIsKnown
<1>5. (lost => reported) /\ (reported => voided)
  BY DEF CommitReportsAreRight
<1>6. (lost' => reported') /\ (reported' => voided')
  BY <1>1, <1>3, <1>4, <1>5
<1>7. session' = "failed" => errored' \/ wire' \in {"begin", "rollback"}
  BY <1>1, <1>3
<1>8. session' = "active" => ~errored' /\ wire' # "error"
  BY <1>1, <1>4 DEF Requests
<1>9. wire' = "begin" => ~errored'
  BY <1>1
<1>10. QED
  BY <1>6, <1>7, <1>8, <1>9 DEF TransactionIsKnown, CommitReportsAreRight

LEMMA VerdictAtAnswer ==
    ASSUME Typed, Shape, TransactionIsKnown, CommitReportsAreRight, ReadAnswer
    PROVE  TransactionIsKnown' /\ CommitReportsAreRight'
<1>1. PICK complete \in BOOLEAN :
          /\ pc = "awaiting"
          /\ errored => errored'
          /\ complete /\ wire = "error" => errored'
          /\ errored' => errored \/ wire = "error" \/ ~complete
          /\ complete => wire \in {"answer", "error"}
          /\ ~complete => session = "over"
          /\ wire' = "none"
          /\ UNCHANGED <<session, reported, voided, lost>>
  BY AnswerRead
<1>2. CommitReportsAreRight'
  BY <1>1 DEF CommitReportsAreRight
<1>3. session = "failed" => errored'
  BY <1>1 DEF TransactionIsKnown
<1>4. session = "active" => ~errored'
  BY <1>1 DEF TransactionIsKnown
<1>5. QED
  BY <1>1, <1>2, <1>3, <1>4 DEF TransactionIsKnown

LEMMA VerdictKept ==
    ASSUME Typed, Shape, TransactionIsKnown, CommitReportsAreRight, Next
    PROVE  TransactionIsKnown' /\ CommitReportsAreRight'
<1>1. Len(asked) \in Nat
  BY LenProperties DEF Typed
<1>2. CASE Talks
  <2>1. /\ UNCHANGED <<session, wire, errored, reported, voided, lost>>
        /\ pc' # "ended" => pc # "ended"
    BY <1>2 DEF Talks, Early
  <2>2. QED
    BY <2>1, VerdictAside
<1>3. CASE Ends
  <2>1. /\ UNCHANGED <<wire, reported, voided, lost>> /\ session' \in {session, "over"}
        /\ pc' = "ended" /\ ~errored'
    BY <1>3 DEF Ends
  <2>2. QED
    BY <2>1, VerdictAside
<1>4. CASE Cuts
  <2>1. /\ UNCHANGED <<wire, reported, voided, lost, session>>
        /\ pc' = "ended" /\ ~errored'
    BY <1>4 DEF Cuts
  <2>2. QED
    BY <2>1, VerdictAside
<1>5. ASSUME NEW choice \in Decided, Releases(choice)
      PROVE  TransactionIsKnown' /\ CommitReportsAreRight'
  <2>1. UNCHANGED <<session, wire, errored, reported, voided, lost>> /\ pc # "ended"
    BY <1>5 DEF Releases
  <2>2. QED
    BY <2>1, VerdictAside
<1>6. ASSUME NEW choice \in Decided, NEW entry \in Entries, Defers(choice, entry)
      PROVE  TransactionIsKnown' /\ CommitReportsAreRight'
  <2>1. UNCHANGED <<session, wire, errored, reported, voided, lost>> /\ pc # "ended"
    BY <1>6 DEF Defers
  <2>2. QED
    BY <2>1, VerdictAside
<1>7. CASE Empties
  <2>1. /\ UNCHANGED <<wire, errored, reported, voided, lost>> /\ pc # "ended"
        /\ session' \in {session, "over"}
    BY <1>7 DEF Empties
  <2>2. QED
    BY <2>1, VerdictAside
<1>8. CASE Quit
  <2>1. /\ UNCHANGED <<wire, pc, errored, reported, voided, lost>> /\ session' = "over"
    BY <1>8 DEF Quit, checker
  <2>2. QED
    BY <2>1, VerdictAside
<1>9. CASE Passes
  <2>1. UNCHANGED <<session, wire, pc, errored, reported, voided, lost>>
    BY <1>9 DEF Passes
  <2>2. QED
    BY <2>1, VerdictAside
<1>10. QED
  BY <1>1, <1>2, <1>3, <1>4, <1>5, <1>6, <1>7, <1>8, <1>9, StepCases, VerdictAtExecute,
     VerdictAtWrite, VerdictAtAnswer DEF Reads

-----------------------------------------------------------------------------
\* A group is in one place.

LEMMA ApartStays ==
    ASSUME Apart, Len(asked) \in Nat, Len(asked') \in Nat, Len(asked) <= Len(asked'),
           UNCHANGED <<batch, written, ran, deferred>>, wire' \in Requests => wire' = wire,
           pc' # "ended" => /\ pc # "ended"
                            /\ Among(batch) = {} \/ (pc' = "awaiting" <=> pc = "awaiting")
    PROVE  Apart'
<1>1. PICK n \in Nat, m \in Nat : n = Len(asked) /\ m = Len(asked') /\ n <= m
  OBVIOUS
<1>2. \A x \in 1 .. n : x \in 1 .. m
  BY <1>1
<1>3. UNCHANGED <<batch, written, ran, deferred>>
  OBVIOUS
<1>4. Once(written') /\ Once(ran') /\ Once(batch') /\ Among(ran') \subseteq Among(written')
  BY <1>3 DEF Apart
<1>5. Among(written') \subseteq 1 .. m /\ Among(batch') \subseteq 1 .. m
  BY <1>1, <1>2, <1>3 DEF Apart
<1>6. wire' \in Requests => Head(batch') \notin Among(ran') /\ Head(batch') \in Among(written')
  BY <1>3 DEF Apart
<1>7. Held' = Held
  BY <1>3 DEF Held
<1>8. \A group \in Held' : group \in 1 .. m /\ group \notin Among(batch') \cup Among(written')
  BY <1>1, <1>2, <1>3, <1>7 DEF Apart
<1>9. \A e, f \in deferred' : e.order = f.order => e = f
  BY <1>3 DEF Apart
<1>10. pc' # "ended" => \A group \in Among(batch') :
           group \in Among(written') <=> pc' = "awaiting" /\ group = Head(batch')
  BY <1>3 DEF Apart
<1>11. QED
  BY <1>1, <1>4, <1>5, <1>6, <1>8, <1>9, <1>10 DEF Apart

\* What the loop keeps while it reads.
LEMMA WhileReading ==
    ASSUME Typed, Shape, Apart, AnswersApart, pc = "reading"
    PROVE  /\ Among(batch) = {} /\ Once(batch) /\ Among(Numbers(answers)) = {}
           /\ Len(batch) = 0 /\ Len(answers) = 0 /\ wire = "none" /\ ~last /\ outcome = "none"
<1>1. Len(batch) = 0 /\ Len(answers) = 0 /\ wire = "none" /\ ~last /\ outcome = "none"
  BY DEF Shape
<1>2. QED
  BY <1>1, NumbersTyped, AnswersTyped DEF Typed

LEMMA ApartAtDefer ==
    ASSUME Typed, Shape, Apart, AnswersApart,
           NEW choice \in Decided, NEW entry \in Entries, Defers(choice, entry)
    PROVE  Apart'
<1>1. PICK n \in Nat : n = Len(asked)
  BY LenProperties DEF Typed
<1>2. Len(asked') = n + 1
  BY <1>1, AskedGrows DEF Typed, Defers
<1>3. UNCHANGED <<batch, written, ran, wire, pc>> /\ pc = "reading"
  BY DEF Defers
<1>4. deferred' = deferred \cup {entry} /\ entry.order = n + 1
  BY <1>1 DEF Defers
<1>5. Among(batch) = {} /\ wire = "none" /\ Once(batch)
  BY <1>3, WhileReading
<1>6. Among(batch') = {} /\ wire' \notin Requests /\ Once(batch')
  BY <1>3, <1>5 DEF Requests
<1>7. Once(written') /\ Once(ran') /\ Among(ran') \subseteq Among(written')
  BY <1>3 DEF Apart
<1>8. \A x \in 1 .. n : x \in 1 .. n + 1 /\ x # n + 1
  OBVIOUS
<1>9. Among(written) \subseteq 1 .. n /\ written' = written
  BY <1>1, <1>3 DEF Apart
<1>10. Held' = Held \cup {n + 1}
  BY <1>4 DEF Held, Orders
<1>11. \A x \in Held : x \in 1 .. n /\ x \notin Among(written)
  BY <1>1 DEF Apart
<1>12. \A x \in Held' : x \in 1 .. n + 1 /\ x \notin Among(batch') \cup Among(written')
  BY <1>6, <1>8, <1>9, <1>10, <1>11
<1>13. \A e \in deferred : e.order # n + 1
  BY <1>8, <1>11 DEF Held, Orders
<1>14. \A e, f \in deferred' : e.order = f.order => e = f
  <2>1. \A e, f \in deferred : e.order = f.order => e = f
    BY DEF Apart
  <2>2. QED
    BY <1>4, <1>13, <2>1
<1>15. Among(written') \subseteq 1 .. n + 1
  BY <1>8, <1>9
<1>16. QED
  BY <1>2, <1>6, <1>7, <1>12, <1>14, <1>15 DEF Apart

\* Where an exchange starts, with groups that were deferred or just read.
LEMMA ApartAtStart ==
    ASSUME Typed, Shape, Apart, AnswersApart, pc = "reading", pc' = "forwarding",
           UNCHANGED <<written, ran, wire>>, NEW n \in Nat, n = Len(asked'), Len(asked) \in Nat,
           Len(asked) <= n, Once(batch'), Among(batch') \subseteq Held \cup (Len(asked) + 1 .. n),
           \A x \in Among(batch') : x \notin Orders(deferred'), deferred' \subseteq deferred
    PROVE  Apart'
<1>1. PICK m \in Nat : m = Len(asked) /\ m <= n
  OBVIOUS
<1>2. wire' \notin Requests
  BY WhileReading DEF Requests
<1>3. Once(written') /\ Once(ran') /\ Among(ran') \subseteq Among(written')
  BY DEF Apart
<1>4. \A x \in 1 .. m : x \in 1 .. n /\ x \notin m + 1 .. n
  BY <1>1
<1>5. \A x \in Among(written) : x \in 1 .. m
  BY <1>1 DEF Apart
<1>6. \A x \in Held : x \in 1 .. m /\ x \notin Among(written)
  BY <1>1 DEF Apart
<1>7. \A x \in Among(batch') : x \in 1 .. n /\ x \notin Among(written')
  <2>1. \A x \in m + 1 .. n : x \in 1 .. n /\ x \notin 1 .. m
    BY <1>1
  <2>2. \A x \in Among(batch') : x \in Held \/ x \in m + 1 .. n
    BY <1>1
  <2>3. QED
    BY <1>4, <1>5, <1>6, <2>1, <2>2
<1>8. \A x \in Orders(deferred') : x \in Held
  BY DEF Orders, Held
<1>9. \A x \in Held' : x \in 1 .. n /\ x \notin Among(batch') \cup Among(written')
  <2>1. Held' = Orders(deferred')
    BY DEF Held
  <2>2. QED
    BY <1>4, <1>6, <1>8, <2>1
<1>10. \A e, f \in deferred' : e.order = f.order => e = f
  BY DEF Apart
<1>11. Among(written') \subseteq 1 .. n
  BY <1>4, <1>5
<1>12. QED
  BY <1>2, <1>3, <1>7, <1>9, <1>10, <1>11 DEF Apart

\* What goes upstream when a group is let through.
LEMMA ReleaseSends ==
    ASSUME Typed, Apart, NEW choice \in Decided, Releases(choice),
           NEW n \in Nat, n = Len(asked), NEW back, back = Released(n + 1)
    PROVE  /\ back \in Seq(Nat) /\ batch' = <<n + 1>> \o back /\ deferred' = Kept(n + 1)
           /\ batch' \in Seq(Nat) /\ Among(batch') = {n + 1} \cup Among(back) /\ Once(batch')
           /\ \A x \in Among(back) : x \in Held /\ x \in 1 .. n /\ x \notin Orders(deferred')
<1>1. /\ back \in Seq(Nat) /\ Once(back)
      /\ \A x \in Among(back) :
             x \notin Orders(Kept(n + 1)) /\ \E e \in deferred : e.order = x
  BY ReleaseMeans
<1>2. batch' = <<n + 1>> \o back /\ deferred' = Kept(n + 1)
  BY DEF Releases
<1>3. \A x \in Among(back) : x \in Held
  BY <1>1 DEF Held, Orders
<1>4. \A x \in Held : x \in 1 .. n
  BY DEF Apart
<1>5. PICK one : one = <<n + 1>>
  OBVIOUS
<1>6. one \in Seq(Nat) /\ Among(one) = {n + 1} /\ Once(one)
  BY <1>5, One
<1>7. \A x \in Among(one) : x \notin Among(back)
  BY <1>3, <1>4, <1>6
<1>8. PICK new : new = one \o back
  OBVIOUS
<1>9. new \in Seq(Nat) /\ Among(new) = Among(one) \cup Among(back) /\ Once(new)
  BY <1>1, <1>6, <1>7, <1>8, NumbersJoined
<1>10. batch' = new
  BY <1>2, <1>5, <1>8
<1>11. QED
  BY <1>1, <1>2, <1>3, <1>4, <1>6, <1>9, <1>10

LEMMA ApartAtRelease ==
    ASSUME Typed, Shape, Apart, AnswersApart, NEW choice \in Decided, Releases(choice)
    PROVE  Apart'
<1>1. PICK n \in Nat : n = Len(asked)
  BY LenProperties DEF Typed
<1>2. Len(asked') = n + 1
  BY <1>1, AskedGrows DEF Typed, Releases
<1>3. UNCHANGED <<written, ran, wire>> /\ pc = "reading" /\ pc' = "forwarding"
  BY DEF Releases
<1>4. PICK back : back = Released(n + 1)
  OBVIOUS
<1>5. /\ Among(batch') = {n + 1} \cup Among(back) /\ Once(batch') /\ deferred' = Kept(n + 1)
      /\ \A x \in Among(back) : x \in Held /\ x \in 1 .. n /\ x \notin Orders(deferred')
  BY <1>1, <1>4, ReleaseSends
<1>6. Kept(n + 1) \subseteq deferred
  BY DEF Kept
<1>7. n + 1 \notin Held
  BY <1>1 DEF Apart
<1>8. n + 1 \notin Orders(deferred')
  BY <1>5, <1>6, <1>7 DEF Orders, Held
<1>9. Among(batch') \subseteq Held \cup (n + 1 .. n + 1)
  BY <1>5
<1>10. \A x \in Among(batch') : x \notin Orders(deferred')
  BY <1>5, <1>8
<1>11. QED
  BY <1>1, <1>2, <1>3, <1>5, <1>6, <1>9, <1>10, ApartAtStart

LEMMA ApartAtEmpty ==
    ASSUME Typed, Shape, Apart, AnswersApart, Empties
    PROVE  Apart'
<1>1. PICK n \in Nat : n = Len(asked)
  BY LenProperties DEF Typed
<1>2. UNCHANGED <<written, ran, wire, asked>> /\ pc = "reading" /\ pc' = "forwarding"
  BY DEF Empties
<1>3. PICK list : list = NewestFirst(Held)
  OBVIOUS
<1>4. Once(list) /\ Among(list) = Held
  BY <1>3, AllReleased
<1>5. batch' = list /\ deferred' = {}
  BY <1>3 DEF Empties, Held
<1>6. Orders(deferred') = {}
  BY <1>5 DEF Orders
<1>7. Among(batch') \subseteq Held \cup (n + 1 .. n)
  BY <1>4, <1>5
<1>8. QED
  BY <1>1, <1>2, <1>4, <1>5, <1>6, <1>7, ApartAtStart

LEMMA ApartAtExecute ==
    ASSUME Typed, Shape, Apart, Execute
    PROVE  Apart'
<1>1. PICK effect \in Effects(wire) :
          /\ wire \in Requests
          /\ wire' = IF effect[2] THEN "error" ELSE "answer"
          /\ ran' = Append(ran, Head(batch))
          /\ UNCHANGED <<pc, batch, deferred, asked, written>>
  BY Executed
<1>2. wire' \notin Requests
  BY <1>1 DEF Requests
<1>3. Len(batch) # 0
  BY <1>1 DEF Shape
<1>4. PICK h \in Nat : h = Head(batch)
  BY <1>3, HeadOfBatch
<1>5. h \notin Among(ran) /\ h \in Among(written)
  BY <1>1, <1>4 DEF Apart
<1>6. PICK new : new = Append(ran, h)
  OBVIOUS
<1>7. ran \in Seq(Nat) /\ Once(ran) /\ Among(ran) \subseteq Among(written)
  BY DEF Typed, Apart
<1>8. Once(new) /\ Among(new) = Among(ran) \cup {h}
  BY <1>5, <1>6, <1>7, NumbersAppended
<1>9. ran' = new
  BY <1>1, <1>4, <1>6
<1>10. Once(ran') /\ Among(ran') \subseteq Among(written)
  BY <1>5, <1>7, <1>8, <1>9
<1>11. UNCHANGED <<pc, batch, deferred, asked, written>>
  BY <1>1
<1>12. Held' = Held
  BY <1>11 DEF Held
<1>13. QED
  BY <1>2, <1>10, <1>11, <1>12 DEF Apart

LEMMA ApartAtWrite ==
    ASSUME Typed, Shape, Apart, Write
    PROVE  Apart'
<1>1. /\ pc = "forwarding" /\ pc' = "awaiting" /\ written' = Append(written, Head(batch))
      /\ UNCHANGED <<batch, deferred, asked, ran>>
  BY Written
<1>2. Len(batch) # 0
  BY <1>1 DEF Shape, Sending
<1>3. PICK h \in Nat : h = Head(batch)
  BY <1>2, HeadOfBatch
<1>4. h \in Among(batch)
  BY <1>2, <1>3, HeadOfBatch
<1>5. h \notin Among(written) /\ h \in 1 .. Len(asked) /\ h \notin Held
  BY <1>1, <1>4 DEF Apart
<1>6. PICK new : new = Append(written, h)
  OBVIOUS
<1>7. written \in Seq(Nat) /\ Once(written)
  BY DEF Typed, Apart
<1>8. Once(new) /\ Among(new) = Among(written) \cup {h}
  BY <1>5, <1>6, <1>7, NumbersAppended
<1>9. Once(written') /\ Among(written') = Among(written) \cup {h}
  BY <1>1, <1>3, <1>6, <1>8
<1>10. Held' = Held
  BY <1>1 DEF Held
<1>11. Among(written') \subseteq 1 .. Len(asked)
  BY <1>5, <1>9 DEF Apart
<1>12. Among(ran') \subseteq Among(written')
  BY <1>1, <1>9 DEF Apart
<1>13. Head(batch') = h /\ h \notin Among(ran) /\ h \in Among(written')
  BY <1>1, <1>3, <1>5, <1>9 DEF Apart
<1>14. \A x \in Held' : x \in 1 .. Len(asked) /\ x \notin Among(batch) \cup Among(written')
  BY <1>5, <1>9, <1>10 DEF Apart
<1>15. \A x \in Among(batch) : x \in Among(written') <=> x = h
  BY <1>1, <1>9 DEF Apart
<1>16. Once(ran') /\ Once(batch') /\ Among(batch') \subseteq 1 .. Len(asked)
  BY <1>1 DEF Apart
<1>17. \A e, f \in deferred' : e.order = f.order => e = f
  BY <1>1 DEF Apart
<1>18. QED
  BY <1>1, <1>9, <1>11, <1>12, <1>13, <1>14, <1>15, <1>16, <1>17 DEF Apart

LEMMA ApartAtAnswer ==
    ASSUME Typed, Shape, Apart, ReadAnswer
    PROVE  Apart'
<1>1. PICK complete \in BOOLEAN :
          /\ pc = "awaiting" /\ Len(batch) # 0
          /\ batch' = IF complete THEN Tail(batch) ELSE <<>>
          /\ pc' = IF Len(batch') = 0 THEN "answering" ELSE "forwarding"
          /\ wire' = "none"
          /\ UNCHANGED <<deferred, asked, written, ran>>
  BY AnswerRead
<1>2. PICK h \in Nat : h = Head(batch)
  BY <1>1, HeadOfBatch
<1>3. PICK rest \in Seq(Nat) : rest = Tail(batch)
  BY <1>1, HeadOfBatch
<1>4. Among(batch) = {h} \cup Among(rest) /\ Once(rest) /\ h \notin Among(rest)
  BY <1>1, <1>2, <1>3, HeadOfBatch DEF Apart
<1>5. Among(batch') \subseteq Among(rest) /\ Once(batch')
  <2>1. CASE complete
    BY <1>1, <1>3, <1>4, <2>1
  <2>2. CASE ~complete
    BY <1>1, <2>2, Empty
  <2>3. QED
    BY <2>1, <2>2
<1>6. \A x \in Among(batch') : x \in Among(batch) /\ x \notin Among(written)
  BY <1>1, <1>2, <1>4, <1>5 DEF Apart
<1>7. wire' \notin Requests /\ pc' # "awaiting"
  BY <1>1 DEF Requests
<1>8. UNCHANGED <<deferred, asked, written, ran>>
  BY <1>1
<1>9. Held' = Held
  BY <1>8 DEF Held
<1>10. QED
  BY <1>5, <1>6, <1>7, <1>8, <1>9 DEF Apart

LEMMA ApartKept ==
    ASSUME Typed, Shape, Apart, AnswersApart, Next
    PROVE  Apart'
<1>1. PICK n \in Nat : n = Len(asked)
  BY LenProperties DEF Typed
<1>2. CASE Talks
  <2>1. UNCHANGED <<batch, written, ran, deferred, wire, asked>>
    BY <1>2 DEF Talks
  <2>2. CASE pc' = pc
    BY <1>1, <2>1, <2>2, ApartStays
  <2>3. CASE pc' # pc
    <3>1. pc # "ended" /\ pc \notin Sending
      BY <1>2, <2>3 DEF Talks, Early, Sending
    <3>2. Len(batch) = 0
      BY <3>1 DEF Shape
    <3>3. Among(batch) = {}
      BY <3>2, NumbersTyped DEF Typed
    <3>4. QED
      BY <1>1, <2>1, <3>1, <3>3, ApartStays
  <2>4. QED
    BY <2>2, <2>3
<1>3. CASE Ends
  <2>1. UNCHANGED <<batch, written, ran, deferred, wire, asked>> /\ pc' = "ended"
    BY <1>3 DEF Ends
  <2>2. QED
    BY <1>1, <2>1, ApartStays
<1>4. CASE Cuts
  <2>1. UNCHANGED <<batch, written, ran, deferred, wire>> /\ pc' = "ended"
    BY <1>4 DEF Cuts
  <2>2. Len(asked') = n + 1
    BY <1>1, <1>4, AskedGrows DEF Typed, Cuts
  <2>3. n + 1 \in Nat /\ n <= n + 1
    BY <1>1
  <2>4. QED
    BY <1>1, <2>1, <2>2, <2>3, ApartStays
<1>5. CASE Quit
  <2>1. UNCHANGED <<batch, written, ran, deferred, wire, asked, pc>>
    BY <1>5 DEF Quit, loop
  <2>2. QED
    BY <1>1, <2>1, ApartStays
<1>6. CASE Passes
  <2>1. UNCHANGED <<batch, written, ran, deferred, wire, asked, pc>>
    BY <1>6 DEF Passes
  <2>2. QED
    BY <1>1, <2>1, ApartStays
<1>7. QED
  BY <1>1, <1>2, <1>3, <1>4, <1>5, <1>6, StepCases, ApartAtDefer, ApartAtRelease, ApartAtEmpty,
     ApartAtExecute, ApartAtWrite, ApartAtAnswer DEF Reads

-----------------------------------------------------------------------------
\* An answer is that of a group that was sent, and is in one place.

LEMMA AnswersStay ==
    ASSUME AnswersApart, UNCHANGED <<answers, got>>, Among(written) \subseteq Among(written'),
           pc' # "ended" => /\ pc # "ended"
                            /\ Among(Numbers(answers)) = {} \/ batch' = batch
    PROVE  AnswersApart'
<1>1. answers' = answers /\ got' = got
  OBVIOUS
<1>2. Numbers(answers') = Numbers(answers)
  BY <1>1
<1>3. /\ Once(Numbers(answers')) /\ Among(Numbers(answers')) \subseteq Among(written')
      /\ Among(got') \subseteq Among(written')
  BY <1>1, <1>2 DEF AnswersApart
<1>4. ASSUME pc' # "ended", NEW group \in Among(Numbers(answers'))
      PROVE  group \notin Among(batch')
  BY <1>2, <1>4 DEF AnswersApart
<1>5. QED
  BY <1>3, <1>4 DEF AnswersApart

LEMMA AnswersAtRead ==
    ASSUME Typed, Shape, Apart, AnswersApart, ReadAnswer
    PROVE  AnswersApart'
<1>1. PICK complete \in BOOLEAN :
          /\ pc = "awaiting" /\ Len(batch) # 0
          /\ batch' = IF complete THEN Tail(batch) ELSE <<>>
          /\ answers' = IF Len(batch') = 0 THEN InTheOrderAsked(Gathered(complete))
                        ELSE Gathered(complete)
          /\ UNCHANGED <<got, written>>
  BY AnswerRead
<1>2. PICK h \in Nat : h = Head(batch)
  BY <1>1, HeadOfBatch
<1>3. PICK rest \in Seq(Nat) : rest = Tail(batch)
  BY <1>1, HeadOfBatch
<1>4. Among(batch) = {h} \cup Among(rest) /\ h \notin Among(rest)
  BY <1>1, <1>2, <1>3, HeadOfBatch DEF Apart
<1>5. Among(batch') \subseteq Among(rest)
  <2>1. CASE complete
    BY <1>1, <1>3, <2>1
  <2>2. CASE ~complete
    BY <1>1, <2>2, Empty
  <2>3. QED
    BY <2>1, <2>2
<1>6. PICK all : all = Gathered(complete)
  OBVIOUS
<1>7. /\ all \in Seq(Answers) /\ Once(Numbers(all))
      /\ Among(Numbers(all)) = Among(Numbers(answers)) \cup {h}
      /\ \E n \in Nat : Among(Numbers(all)) \subseteq 1 .. n
  BY <1>1, <1>2, <1>6, GatheredIs
<1>8. PICK sorted : sorted = InTheOrderAsked(all)
  OBVIOUS
<1>9. Once(Numbers(sorted)) /\ Among(Numbers(sorted)) \subseteq Among(Numbers(all))
  BY <1>7, <1>8, SortedAnswers
<1>10. answers' \in {all, sorted}
  BY <1>1, <1>6, <1>8
<1>11. Once(Numbers(answers')) /\ Among(Numbers(answers')) \subseteq Among(Numbers(all))
  <2>1. CASE answers' = all
    BY <1>7, <2>1
  <2>2. CASE answers' = sorted
    BY <1>9, <2>2
  <2>3. QED
    BY <1>10, <2>1, <2>2
<1>12. h \in Among(written)
  BY <1>1, <1>2, <1>4 DEF Apart
<1>13. Among(Numbers(all)) \subseteq Among(written)
  BY <1>7, <1>12 DEF AnswersApart
<1>14. \A x \in Among(Numbers(answers)) : x \notin Among(batch)
  BY <1>1 DEF AnswersApart
<1>15. \A x \in Among(Numbers(answers')) : x \notin Among(batch')
  BY <1>4, <1>5, <1>7, <1>11, <1>14
<1>16. Among(got') \subseteq Among(written') /\ Among(Numbers(answers')) \subseteq Among(written')
  BY <1>1, <1>11, <1>13 DEF AnswersApart
<1>17. QED
  BY <1>11, <1>15, <1>16 DEF AnswersApart

LEMMA AnswersAtPass ==
    ASSUME Typed, AnswersApart, Passes
    PROVE  AnswersApart'
<1>1. PICK old \in Seq(Answers) : old = answers /\ old # <<>>
  BY DEF Typed, Passes
<1>2. PICK rest : rest = Tail(old)
  OBVIOUS
<1>3. PICK first \in Answers : first = Head(old)
  BY <1>1, AnswersTail
<1>4. /\ Among(Numbers(old)) = {first.order} \cup Among(Numbers(rest))
      /\ Once(Numbers(old)) => Once(Numbers(rest))
  BY <1>1, <1>2, <1>3, AnswersTail
<1>5. PICK h \in Nat : h = first.order
  BY DEF Answers
<1>6. answers' = rest /\ got' \in {got, Append(got, h)}
  BY <1>1, <1>2, <1>3, <1>5 DEF Passes
<1>7. UNCHANGED <<written, batch, pc>>
  BY DEF Passes
<1>8. Once(Numbers(old)) /\ Among(Numbers(old)) \subseteq Among(written)
  BY <1>1 DEF AnswersApart
<1>9. got \in Seq(Nat) /\ Among(got) \subseteq Among(written)
  BY DEF Typed, AnswersApart
<1>10. Among(Append(got, h)) = Among(got) \cup {h}
  BY <1>9, NumbersAppended
<1>11. Among(got') \subseteq Among(written)
  <2>1. h \in Among(written)
    BY <1>4, <1>5, <1>8
  <2>2. CASE got' = got
    BY <1>9, <2>2
  <2>3. CASE got' = Append(got, h)
    BY <1>9, <1>10, <2>1, <2>3
  <2>4. QED
    BY <1>6, <2>2, <2>3
<1>12. Once(Numbers(answers')) /\ Among(Numbers(answers')) \subseteq Among(Numbers(old))
  BY <1>4, <1>6, <1>8
<1>13. pc # "ended" => \A x \in Among(Numbers(old)) : x \notin Among(batch)
  BY <1>1 DEF AnswersApart
<1>14. QED
  BY <1>7, <1>8, <1>11, <1>12, <1>13 DEF AnswersApart

LEMMA AnswersKept ==
    ASSUME Typed, Shape, Apart, AnswersApart, Next
    PROVE  AnswersApart'
<1>1. Len(asked) \in Nat
  BY LenProperties DEF Typed
<1>2. CASE Talks
  <2>1. UNCHANGED <<answers, got, batch, written>> /\ (pc' # "ended" => pc # "ended")
    BY <1>2 DEF Talks, Early
  <2>2. QED
    BY <2>1, AnswersStay
<1>3. CASE Ends \/ Cuts
  <2>1. UNCHANGED <<answers, got, written>> /\ pc' = "ended"
    BY <1>3 DEF Ends, Cuts
  <2>2. QED
    BY <2>1, AnswersStay
<1>4. CASE Quit \/ Execute
  <2>1. UNCHANGED <<answers, got, batch, written, pc>>
    BY <1>4 DEF Quit, Execute, loop, exchanged
  <2>2. QED
    BY <2>1, AnswersStay
<1>5. ASSUME NEW choice \in Decided, Releases(choice)
      PROVE  AnswersApart'
  <2>1. UNCHANGED <<answers, got, written>> /\ pc = "reading"
    BY <1>5 DEF Releases
  <2>2. Among(Numbers(answers)) = {}
    BY <2>1, WhileReading
  <2>3. QED
    BY <2>1, <2>2, AnswersStay
<1>6. ASSUME NEW choice \in Decided, NEW entry \in Entries, Defers(choice, entry)
      PROVE  AnswersApart'
  <2>1. UNCHANGED <<answers, got, batch, written, pc>>
    BY <1>6 DEF Defers
  <2>2. QED
    BY <2>1, AnswersStay
<1>7. CASE Empties
  <2>1. UNCHANGED <<answers, got, written>> /\ pc = "reading"
    BY <1>7 DEF Empties
  <2>2. Among(Numbers(answers)) = {}
    BY <2>1, WhileReading
  <2>3. QED
    BY <2>1, <2>2, AnswersStay
<1>8. CASE Write
  <2>1. /\ pc = "forwarding" /\ written' = Append(written, Head(batch))
        /\ UNCHANGED <<answers, got, batch>>
    BY <1>8, Written
  <2>2. Len(batch) # 0
    BY <2>1 DEF Shape, Sending
  <2>3. PICK h \in Nat : h = Head(batch)
    BY <2>2, HeadOfBatch
  <2>4. Among(Append(written, h)) = Among(written) \cup {h}
    BY NumbersAppended DEF Typed
  <2>5. Among(written) \subseteq Among(written')
    BY <2>1, <2>3, <2>4
  <2>6. QED
    BY <2>1, <2>5, AnswersStay
<1>9. QED
  BY <1>1, <1>2, <1>3, <1>4, <1>5, <1>6, <1>7, <1>8, StepCases, AnswersAtRead, AnswersAtPass
     DEF Reads

-----------------------------------------------------------------------------
\* Nothing is discarded.

LEMMA PlacesStay ==
    ASSUME AllPlaced, causes' = {} /\ pc' # "ended" => causes = {} /\ pc # "ended",
           UNCHANGED <<asked, deferred, batch, written, ran, wire>>,
           pc' # "ended" => (pc' = "awaiting" <=> pc = "awaiting")
    PROVE  AllPlaced'
<1>1. SUFFICES ASSUME causes' = {}, pc' # "ended"
               PROVE  /\ \A group \in 1 .. Len(asked') :
                             group \in Held' \cup Among(batch') \cup Among(written')
                      /\ \A group \in Among(written') :
                             group \in Among(ran') \/ (AtServer' /\ group = Head(batch'))
  BY Zenon DEF AllPlaced
<1>2. UNCHANGED <<asked, deferred, batch, written, ran, wire>>
  OBVIOUS
<1>3. Held' = Held /\ (AtServer' <=> AtServer)
  BY <1>1, <1>2 DEF Held, AtServer
<1>4. /\ \A group \in 1 .. Len(asked) : group \in Held \cup Among(batch) \cup Among(written)
      /\ \A group \in Among(written) :
             group \in Among(ran) \/ (AtServer /\ group = Head(batch))
  BY <1>1 DEF AllPlaced
<1>5. QED
  BY <1>2, <1>3, <1>4

\* While the loop reads, nothing is at the server.
LEMMA PlacedWhileReading ==
    ASSUME Typed, Shape, Apart, AnswersApart, AllPlaced, pc = "reading", causes = {}
    PROVE  /\ \A group \in 1 .. Len(asked) : group \in Held \/ group \in Among(written)
           /\ \A group \in Among(written) : group \in Among(ran)
<1>1. Among(batch) = {} /\ ~AtServer
  BY WhileReading DEF AtServer
<1>2. QED
  BY <1>1 DEF AllPlaced

LEMMA PlacesAtRead ==
    ASSUME Typed, Shape, Apart, AnswersApart, AllPlaced, Reads
    PROVE  AllPlaced'
<1>1. PICK n \in Nat : n = Len(asked)
  BY LenProperties DEF Typed
<1>2. \A x \in 1 .. n + 1 : x = n + 1 \/ x \in 1 .. n
  OBVIOUS
<1>3. CASE Cuts
  BY <1>3 DEF Cuts, AllPlaced
<1>4. ASSUME NEW choice \in Decided, Releases(choice)
      PROVE  AllPlaced'
  <2>1. Len(asked') = n + 1
    BY <1>1, <1>4, AskedGrows DEF Typed, Releases
  <2>2. UNCHANGED <<written, ran, causes>> /\ pc = "reading"
    BY <1>4 DEF Releases
  <2>3. PICK back : back = Released(n + 1)
    OBVIOUS
  <2>4. Among(batch') = {n + 1} \cup Among(back) /\ deferred' = Kept(n + 1)
    BY <1>1, <1>4, <2>3, ReleaseSends
  <2>5. \A e \in deferred : e \in deferred' \/ e.order \in Among(back)
    BY <2>3, <2>4, ReleaseMeans
  <2>6. \A x \in Held : x \in Held' \/ x \in Among(batch')
    BY <2>4, <2>5 DEF Held, Orders
  <2>7. ASSUME causes = {}
        PROVE  /\ \A x \in 1 .. n : x \in Held \/ x \in Among(written)
               /\ \A x \in Among(written) : x \in Among(ran)
    BY <1>1, <2>2, <2>7, PlacedWhileReading
  <2>8. ASSUME causes = {}, NEW x \in 1 .. n + 1
        PROVE  x \in Held' \cup Among(batch') \cup Among(written')
    BY <1>2, <2>2, <2>4, <2>6, <2>7, <2>8
  <2>9. causes = {} => \A x \in Among(written') : x \in Among(ran')
    BY <2>2, <2>7
  <2>10. QED
    BY <2>1, <2>2, <2>8, <2>9 DEF AllPlaced
<1>5. ASSUME NEW choice \in Decided, NEW entry \in Entries, Defers(choice, entry)
      PROVE  AllPlaced'
  <2>1. Len(asked') = n + 1
    BY <1>1, <1>5, AskedGrows DEF Typed, Defers
  <2>2. UNCHANGED <<batch, written, ran, causes, pc, wire>> /\ pc = "reading"
    BY <1>5 DEF Defers
  <2>3. deferred' = deferred \cup {entry} /\ entry.order = n + 1
    BY <1>1, <1>5 DEF Defers
  <2>4. \A x \in Held : x \in Held'
    BY <2>3 DEF Held, Orders
  <2>5. n + 1 \in Held'
    BY <2>3 DEF Held, Orders
  <2>6. ASSUME causes = {}
        PROVE  /\ \A x \in 1 .. n : x \in Held \/ x \in Among(written)
               /\ \A x \in Among(written) : x \in Among(ran)
    BY <1>1, <2>2, <2>6, PlacedWhileReading
  <2>7. ASSUME causes = {}, NEW x \in 1 .. n + 1
        PROVE  x \in Held' \cup Among(batch') \cup Among(written')
    BY <1>2, <2>2, <2>4, <2>5, <2>6, <2>7
  <2>8. causes = {} => \A x \in Among(written') : x \in Among(ran')
    BY <2>2, <2>6
  <2>9. QED
    BY <2>1, <2>2, <2>7, <2>8 DEF AllPlaced
<1>6. QED
  BY <1>3, <1>4, <1>5 DEF Reads

LEMMA PlacesAtEmpty ==
    ASSUME Typed, Shape, Apart, AnswersApart, AllPlaced, Empties
    PROVE  AllPlaced'
<1>1. UNCHANGED <<asked, written, ran>> /\ pc = "reading"
  BY DEF Empties
<1>2. causes' = {} => causes = {}
  BY DEF Empties
<1>3. PICK list : list = NewestFirst(Held)
  OBVIOUS
<1>4. Among(list) = Held
  BY <1>3, AllReleased
<1>5. batch' = list
  BY <1>3 DEF Empties, Held
<1>6. ASSUME causes' = {}
      PROVE  /\ \A x \in 1 .. Len(asked) : x \in Held \/ x \in Among(written)
             /\ \A x \in Among(written) : x \in Among(ran)
  BY <1>1, <1>2, <1>6, PlacedWhileReading
<1>7. causes' = {} => \A x \in 1 .. Len(asked') : x \in Among(batch') \/ x \in Among(written')
  BY <1>1, <1>4, <1>5, <1>6
<1>8. causes' = {} => \A x \in Among(written') : x \in Among(ran')
  BY <1>1, <1>6
<1>9. QED
  BY <1>7, <1>8 DEF AllPlaced

LEMMA PlacesAtExecute ==
    ASSUME Typed, Shape, AllPlaced, Execute
    PROVE  AllPlaced'
<1>1. PICK effect \in Effects(wire) :
          /\ wire \in Requests
          /\ ran' = Append(ran, Head(batch))
          /\ UNCHANGED <<pc, deferred, batch, asked, written, causes>>
  BY Executed
<1>2. Len(batch) # 0
  BY <1>1 DEF Shape
<1>3. PICK h \in Nat : h = Head(batch)
  BY <1>2, HeadOfBatch
<1>4. Among(Append(ran, h)) = Among(ran) \cup {h}
  BY NumbersAppended DEF Typed
<1>5. Among(ran') = Among(ran) \cup {h}
  BY <1>1, <1>3, <1>4
<1>6. Held' = Held
  BY <1>1 DEF Held
<1>7. UNCHANGED <<pc, batch, asked, written, causes>>
  BY <1>1
<1>8. QED
  BY <1>3, <1>5, <1>6, <1>7 DEF AllPlaced

LEMMA PlacesAtWrite ==
    ASSUME Typed, Shape, AllPlaced, Write
    PROVE  AllPlaced'
<1>1. PICK request \in Requests :
          /\ pc = "forwarding" /\ pc' = "awaiting"
          /\ wire' = IF session = "over" THEN "nowhere" ELSE request
          /\ written' = Append(written, Head(batch))
          /\ UNCHANGED <<deferred, batch, asked, ran, causes>>
  BY Written
<1>2. Len(batch) # 0
  BY <1>1 DEF Shape, Sending
<1>3. PICK h \in Nat : h = Head(batch)
  BY <1>2, HeadOfBatch
<1>4. Among(Append(written, h)) = Among(written) \cup {h}
  BY NumbersAppended DEF Typed
<1>5. Among(written') = Among(written) \cup {h}
  BY <1>1, <1>3, <1>4
<1>6. causes = {} => AtServer'
  BY <1>1 DEF Shape, AtServer
<1>7. ~AtServer
  BY <1>1 DEF AtServer
<1>8. Held' = Held /\ UNCHANGED <<batch, asked, ran, causes>> /\ pc # "ended"
  BY <1>1 DEF Held
<1>9. causes = {} => /\ \A x \in 1 .. Len(asked) : x \in Held \cup Among(batch) \cup Among(written)
                     /\ \A x \in Among(written) : x \in Among(ran)
  BY <1>7, <1>8 DEF AllPlaced
<1>10. QED
  BY <1>3, <1>5, <1>6, <1>8, <1>9 DEF AllPlaced

LEMMA PlacesAtAnswer ==
    ASSUME Typed, Shape, Apart, AllPlaced, ReadAnswer
    PROVE  AllPlaced'
<1>1. PICK complete \in BOOLEAN :
          /\ pc = "awaiting" /\ Len(batch) # 0
          /\ batch' = IF complete THEN Tail(batch) ELSE <<>>
          /\ complete => wire \in {"answer", "error"}
          /\ ~complete => session = "over"
          /\ UNCHANGED <<deferred, asked, written, ran, causes>>
  BY AnswerRead
<1>2. PICK h \in Nat : h = Head(batch)
  BY <1>1, HeadOfBatch
<1>3. PICK rest \in Seq(Nat) : rest = Tail(batch)
  BY <1>1, HeadOfBatch
<1>4. Among(batch) = {h} \cup Among(rest)
  BY <1>1, <1>2, <1>3, HeadOfBatch
<1>5. causes = {} => complete
  BY <1>1 DEF Shape
<1>6. causes = {} => Among(batch') = Among(rest)
  BY <1>1, <1>3, <1>5
<1>7. h \in Among(written)
  BY <1>1, <1>2, <1>4 DEF Apart
<1>8. causes = {} => ~AtServer
  BY <1>1, <1>5 DEF AtServer, Requests
<1>9. Held' = Held /\ UNCHANGED <<asked, written, ran, causes>> /\ pc # "ended"
  BY <1>1 DEF Held
<1>10. causes = {} =>
           /\ \A x \in 1 .. Len(asked) : x \in Held \cup Among(batch) \cup Among(written)
           /\ \A x \in Among(written) : x \in Among(ran)
  BY <1>8, <1>9 DEF AllPlaced
<1>11. QED
  BY <1>4, <1>6, <1>7, <1>9, <1>10 DEF AllPlaced

LEMMA PlacesKept ==
    ASSUME Typed, Shape, Apart, AnswersApart, AllPlaced, Next
    PROVE  AllPlaced'
<1>1. Len(asked) \in Nat
  BY LenProperties DEF Typed
<1>2. CASE Talks
  <2>1. /\ UNCHANGED <<asked, deferred, batch, written, ran, wire, causes>>
        /\ pc' # "ended" => pc # "ended" /\ (pc' = "awaiting" <=> pc = "awaiting")
    BY <1>2 DEF Talks, Early
  <2>2. QED
    BY <2>1, PlacesStay
<1>3. CASE Ends
  <2>1. pc' = "ended"
    BY <1>3 DEF Ends
  <2>2. QED
    BY <2>1 DEF AllPlaced
<1>4. CASE Quit
  <2>1. causes' # {}
    BY <1>4 DEF Quit
  <2>2. QED
    BY <2>1 DEF AllPlaced
<1>5. CASE Passes
  <2>1. UNCHANGED <<asked, deferred, batch, written, ran, wire, causes, pc>>
    BY <1>5 DEF Passes
  <2>2. QED
    BY <2>1, PlacesStay
<1>6. QED
  BY <1>1, <1>2, <1>3, <1>4, <1>5, StepCases, PlacesAtRead, PlacesAtEmpty, PlacesAtExecute,
     PlacesAtWrite, PlacesAtAnswer

\* Where the task ends well, everything is already run.
LEMMA AllRanAtEnd ==
    ASSUME Typed, Shape, Apart, AnswersApart, AllPlaced, Ends, causes' = {}, outcome' = "ok"
    PROVE  wire = "none" /\ \A group \in 1 .. Len(asked) : group \in Among(ran)
<1>1. causes = {} /\ session # "over" /\ pc # "ended"
  BY DEF Ends, Shape
<1>2. \/ pc \in Early \/ (pc = "reading" /\ deferred = {})
      \/ pc = "answering" /\ answers = <<>> /\ last
  BY <1>1 DEF Ends, Shape
<1>3. pc \notin Sending
  BY <1>2 DEF Sending, Early
<1>4. wire = "none" /\ ~AtServer /\ Len(batch) = 0
  BY <1>1, <1>3 DEF Shape, Sending, AtServer
<1>5. Among(batch) = {}
  BY <1>4, NumbersTyped DEF Typed
<1>6. deferred = {}
  BY <1>1, <1>2 DEF Shape
<1>7. Held = {}
  BY <1>6 DEF Held, Orders
<1>8. QED
  BY <1>1, <1>4, <1>5, <1>7 DEF AllPlaced

LEMMA AllRanKept ==
    ASSUME Typed, Shape, Apart, AnswersApart, AllPlaced, AllRan, Next
    PROVE  AllRan'
<1>1. Len(asked) \in Nat
  BY LenProperties DEF Typed
<1>2. CASE Ends
  <2>1. UNCHANGED <<wire, asked, ran>>
    BY <1>2 DEF Ends
  <2>2. QED
    BY <1>2, <2>1, AllRanAtEnd DEF AllRan
<1>3. CASE Cuts
  BY <1>3 DEF Cuts, AllRan
<1>4. CASE Quit
  <2>1. causes' # {}
    BY <1>4 DEF Quit
  <2>2. QED
    BY <2>1 DEF AllRan
<1>5. CASE Talks
  BY <1>5 DEF Talks, AllRan
<1>6. CASE Passes
  BY <1>6 DEF Passes, AllRan
<1>7. ASSUME NEW choice \in Decided, Releases(choice)
      PROVE  AllRan'
  <2>1. outcome' = "none"
    BY <1>7 DEF Releases, Shape
  <2>2. QED
    BY <2>1 DEF AllRan
<1>8. ASSUME NEW choice \in Decided, NEW entry \in Entries, Defers(choice, entry)
      PROVE  AllRan'
  <2>1. outcome' = "none"
    BY <1>8 DEF Defers, Shape
  <2>2. QED
    BY <2>1 DEF AllRan
<1>9. CASE Empties
  <2>1. outcome' = "none"
    BY <1>9 DEF Empties, Shape
  <2>2. QED
    BY <2>1 DEF AllRan
<1>10. CASE Write
  <2>1. outcome' = "none"
    BY <1>10, Written DEF Shape
  <2>2. QED
    BY <2>1 DEF AllRan
<1>11. CASE ReadAnswer
  <2>1. outcome' = "none"
    BY <1>11, AnswerRead DEF Shape
  <2>2. QED
    BY <2>1 DEF AllRan
<1>12. CASE Execute
  <2>1. wire \in Requests /\ UNCHANGED <<causes, outcome>>
    BY <1>12, Executed
  <2>2. wire # "none"
    BY <2>1 DEF Requests
  <2>3. QED
    BY <2>1, <2>2 DEF AllRan
<1>13. QED
  BY <1>1, <1>2, <1>3, <1>4, <1>5, <1>6, <1>7, <1>8, <1>9, <1>10, <1>11, <1>12, StepCases
     DEF Reads

-----------------------------------------------------------------------------
\* The order of the groups is kept.

\* What the fork of a later group decides does not matter.
LEMMA WaitsSame ==
    ASSUME NEW n \in Nat, NEW choices, NEW more, \A i \in 1 .. n : more[i] = choices[i],
           NEW group \in 1 .. n, NEW later \in 1 .. n + 1
    PROVE  Waits(choices, group, later) <=> Waits(more, group, later)
<1>1. \A q \in group + 1 .. later - 1 : q \in 1 .. n /\ more[q] = choices[q]
  OBVIOUS
<1>2. more[group] = choices[group]
  OBVIOUS
<1>3. QED
  BY <1>1, <1>2 DEF Waits

LEMMA OrderSame ==
    ASSUME NEW n \in Nat, NEW choices, NEW more, \A i \in 1 .. n : more[i] = choices[i],
           NEW first \in 1 .. n, NEW second \in 1 .. n, InOrder(choices, first, second)
    PROVE  InOrder(more, first, second)
<1>1. first \in 1 .. n + 1 /\ second \in 1 .. n + 1
  OBVIOUS
<1>2. /\ Waits(choices, second, first) <=> Waits(more, second, first)
      /\ Waits(choices, first, second) <=> Waits(more, first, second)
  BY <1>1, WaitsSame
<1>3. more[first] = choices[first] /\ more[second] = choices[second]
  OBVIOUS
<1>4. QED
  BY <1>2, <1>3 DEF InOrder

LEMMA WaitsLess ==
    ASSUME NEW choices, NEW group \in Nat, NEW m \in Nat, NEW l \in Nat, l <= m,
           Waits(choices, group, m)
    PROVE  Waits(choices, group, l)
<1>1. \A q \in group + 1 .. l - 1 : q \in group + 1 .. m - 1
  OBVIOUS
<1>2. QED
  BY <1>1 DEF Waits

\* A deferred group goes after what was sent, and before an older one.
LEMMA HeldWaits ==
    ASSUME DeferredWait, pc # "ended", NEW n \in Nat, n = Len(asked), NEW x \in Held
    PROVE  x \in 1 .. n /\ Waits(asked, x, n + 1)
BY DEF DeferredWait, Held, Orders

LEMMA HeldComesLast ==
    ASSUME DeferredWait, Apart, pc # "ended", NEW n \in Nat, n = Len(asked),
           NEW first \in Among(written), NEW second \in Held
    PROVE  InOrder(asked, first, second)
<1>1. first \in 1 .. n /\ first # second
  BY DEF Apart
<1>2. second \in 1 .. n /\ Waits(asked, second, n + 1)
  BY HeldWaits
<1>3. ~Goes(asked[second])
  BY <1>2 DEF Waits
<1>4. first \in Nat /\ second \in Nat /\ n + 1 \in Nat /\ first <= n + 1
  BY <1>1, <1>2
<1>5. Waits(asked, second, first)
  BY <1>2, <1>4, WaitsLess
<1>6. QED
  BY <1>1, <1>3, <1>5 DEF InOrder

LEMMA HeldFalls ==
    ASSUME DeferredWait, pc # "ended", NEW n \in Nat, n = Len(asked),
           NEW first \in Held, NEW second \in Held, first > second
    PROVE  InOrder(asked, first, second)
<1>1. first \in 1 .. n /\ second \in 1 .. n /\ first # second
  BY HeldWaits
<1>2. Waits(asked, first, n + 1)
  BY HeldWaits
<1>3. ~Goes(asked[first]) /\ ~(first < second)
  BY <1>1, <1>2 DEF Waits
<1>4. QED
  BY <1>1, <1>3 DEF InOrder

LEMMA WrittenKept ==
    ASSUME Typed, Apart, WrittenInOrder, NEW choice \in Decided, UNCHANGED written,
           asked' = Append(asked, choice)
    PROVE  WrittenInOrder'
<1>1. PICK n \in Nat : n = Len(asked)
  BY LenProperties DEF Typed
<1>2. \A i \in 1 .. n : asked'[i] = asked[i]
  BY <1>1, AskedGrows DEF Typed
<1>3. \A i \in 1 .. Len(written) : written[i] \in 1 .. n
  BY <1>1 DEF Apart, Among
<1>4. SUFFICES ASSUME NEW i \in 1 .. Len(written), NEW j \in 1 .. Len(written), i < j
               PROVE  InOrder(asked', written[i], written[j])
  BY DEF WrittenInOrder
<1>5. InOrder(asked, written[i], written[j])
  BY <1>4 DEF WrittenInOrder
<1>6. PICK a \in 1 .. n, b \in 1 .. n : a = written[i] /\ b = written[j]
  BY <1>3
<1>7. InOrder(asked', a, b)
  BY <1>2, <1>5, <1>6, OrderSame
<1>8. QED
  BY <1>6, <1>7

LEMMA OrderStays ==
    ASSUME OrderInv, UNCHANGED <<asked, deferred, batch, last, written>>,
           pc' # "ended" => pc' = pc \/ (pc # "ended" /\ pc # "awaiting")
    PROVE  OrderInv'
<1>1. UNCHANGED <<asked, deferred, batch, last, written>>
  OBVIOUS
<1>2. WrittenInOrder'
  BY <1>1 DEF OrderInv, WrittenInOrder
<1>3. DeferredWait'
  BY <1>1 DEF OrderInv, DeferredWait
<1>4. BatchInOrder'
  BY <1>1 DEF OrderInv, BatchInOrder
<1>5. QED
  BY <1>2, <1>3, <1>4 DEF OrderInv

LEMMA OrderAtDefer ==
    ASSUME Typed, Shape, Apart, AnswersApart, OrderInv,
           NEW choice \in Decided, NEW entry \in Entries, Defers(choice, entry)
    PROVE  OrderInv'
<1>1. PICK n \in Nat : n = Len(asked)
  BY LenProperties DEF Typed
<1>2. /\ Len(asked') = n + 1 /\ asked'[n + 1] = choice
      /\ \A i \in 1 .. n : asked'[i] = asked[i]
  BY <1>1, AskedGrows DEF Typed, Defers
<1>3. UNCHANGED <<written, batch, last, pc>> /\ pc = "reading"
  BY DEF Defers
<1>4. /\ deferred' = deferred \cup {entry} /\ entry.order = n + 1 /\ ~Goes(choice)
      /\ \/ entry.until = choice.until
         \/ entry.until = 0 /\ choice.until = n + 1 + 1
  BY <1>1 DEF Defers
<1>5. Among(batch) = {} /\ Len(batch) = 0 /\ ~last
  BY <1>3, WhileReading
<1>6. WrittenInOrder'
  BY <1>3, WrittenKept DEF Defers, OrderInv
<1>7. n \in Nat /\ n + 1 \in Nat /\ n + 1 + 1 \in Nat /\ n + 1 <= n + 1 + 1
  BY <1>1
<1>8. ASSUME NEW g \in 1 .. n, Waits(asked, g, n + 1)
      PROVE  Waits(asked', g, n + 1 + 1)
  <2>1. ~Goes(asked'[g]) /\ asked'[g] = asked[g]
    BY <1>2, <1>8 DEF Waits
  <2>2. \A q \in g + 1 .. n + 1 : q = n + 1 \/ (q \in 1 .. n /\ q \in g + 1 .. (n + 1) - 1)
    OBVIOUS
  <2>3. \A q \in g + 1 .. n + 1 : Goes(asked'[q]) => q < asked'[g].until
    BY <1>2, <1>4, <1>8, <2>1, <2>2 DEF Waits
  <2>4. (n + 1 + 1) - 1 = n + 1
    OBVIOUS
  <2>5. QED
    BY <2>1, <2>3, <2>4 DEF Waits
<1>9. Waits(asked', n + 1, n + 1 + 1)
  <2>1. \A q \in (n + 1) + 1 .. (n + 1 + 1) - 1 : FALSE
    OBVIOUS
  <2>2. QED
    BY <1>2, <1>4, <2>1 DEF Waits
<1>10. ASSUME NEW e \in deferred'
       PROVE  /\ e.order \in 1 .. n + 1 /\ Waits(asked', e.order, n + 1 + 1)
              /\ \/ e.until = asked'[e.order].until
                 \/ e.until = 0 /\ asked'[e.order].until = e.order + 1
  <2>1. CASE e \in deferred
    <3>1. PICK g : g = e.order
      OBVIOUS
    <3>2. /\ g \in 1 .. n /\ Waits(asked, g, n + 1)
          /\ e.until = asked[g].until \/ (e.until = 0 /\ asked[g].until = g + 1)
      BY <1>1, <1>3, <2>1, <3>1 DEF OrderInv, DeferredWait
    <3>3. g \in 1 .. n + 1 /\ Waits(asked', g, n + 1 + 1) /\ asked'[g] = asked[g]
      BY <1>2, <1>8, <3>2
    <3>4. QED
      BY <3>1, <3>2, <3>3
  <2>2. CASE e = entry
    <3>1. n + 1 \in 1 .. n + 1
      OBVIOUS
    <3>2. QED
      BY <1>2, <1>4, <1>9, <2>2, <3>1
  <2>3. QED
    BY <1>4, <1>10, <2>1, <2>2
<1>11. DeferredWait'
  BY <1>2, <1>10 DEF DeferredWait
<1>12. ASSUME NEW g \in Among(written)
       PROVE  ~Waits(asked', g, n + 1 + 1)
  <2>1. ~Waits(asked, g, n + 1)
    BY <1>1, <1>3, <1>5 DEF OrderInv, BatchInOrder
  <2>2. g \in 1 .. n /\ n + 1 \in 1 .. n + 1
    BY <1>1 DEF Apart
  <2>3. ~Waits(asked', g, n + 1)
    BY <1>2, <2>1, <2>2, WaitsSame
  <2>4. QED
    BY <1>7, <2>2, <2>3, WaitsLess
<1>13. BatchInOrder'
  <2>1. Among(batch') = {} /\ Len(batch') = 0 /\ written' = written
    BY <1>3, <1>5
  <2>2. QED
    BY <1>2, <1>12, <2>1 DEF BatchInOrder
<1>14. QED
  BY <1>6, <1>11, <1>13 DEF OrderInv

LEMMA OrderAtRelease ==
    ASSUME Typed, Shape, Apart, AnswersApart, OrderInv, NEW choice \in Decided, Releases(choice)
    PROVE  OrderInv'
<1>1. PICK n \in Nat : n = Len(asked)
  BY LenProperties DEF Typed
<1>2. /\ Len(asked') = n + 1 /\ asked'[n + 1] = choice
      /\ \A i \in 1 .. n : asked'[i] = asked[i]
  BY <1>1, AskedGrows DEF Typed, Releases
<1>3. UNCHANGED <<written, last>> /\ pc = "reading" /\ pc' = "forwarding" /\ Goes(choice)
  BY DEF Releases
<1>4. ~last
  BY <1>3, WhileReading
<1>5. WrittenInOrder'
  BY <1>3, WrittenKept DEF Releases, OrderInv
<1>6. PICK back : back = Released(n + 1)
  OBVIOUS
<1>7. /\ back \in Seq(Nat) /\ batch' = <<n + 1>> \o back /\ deferred' = Kept(n + 1)
      /\ Among(batch') = {n + 1} \cup Among(back)
      /\ \A x \in Among(back) : x \in Held /\ x \in 1 .. n
  BY <1>1, <1>6, ReleaseSends
<1>8. /\ \A i, j \in 1 .. Len(back) : i < j => back[i] > back[j]
      /\ Kept(n + 1) \subseteq deferred /\ \A e \in Kept(n + 1) : ~(e.until <= n + 1)
      /\ \A x \in Among(back) : \E e \in deferred : e.order = x /\ e.until <= n + 1
  <2>1. n + 1 \in Nat
    OBVIOUS
  <2>2. \A i, j \in 1 .. Len(back) : i < j => back[i] > back[j]
    BY <1>6, <2>1, ReleaseMeans
  <2>3. Kept(n + 1) \subseteq deferred /\ \A e \in Kept(n + 1) : ~(e.until <= n + 1)
    BY <2>1, ReleaseMeans
  <2>4. \A x \in Among(back) : \E e \in deferred : e.order = x /\ e.until <= n + 1
    BY <1>6, <2>1, ReleaseMeans
  <2>5. QED
    BY <2>2, <2>3, <2>4
<1>9. n + 1 \in Nat /\ n + 1 + 1 \in Nat /\ n + 1 <= n + 1 + 1
  BY <1>1
<1>10. WrittenInOrder /\ DeferredWait /\ BatchInOrder
  BY DEF OrderInv
<1>11. \A x \in Held : x \in 1 .. n /\ Waits(asked, x, n + 1)
  BY <1>1, <1>3, <1>10, HeldWaits
<1>12. ASSUME NEW e \in deferred'
       PROVE  /\ e.order \in 1 .. n + 1 /\ Waits(asked', e.order, n + 1 + 1)
              /\ \/ e.until = asked'[e.order].until
                 \/ e.until = 0 /\ asked'[e.order].until = e.order + 1
  <2>1. e \in deferred /\ ~(e.until <= n + 1)
    BY <1>7, <1>8, <1>12
  <2>2. PICK g : g = e.order
    OBVIOUS
  <2>3. /\ g \in 1 .. n /\ Waits(asked, g, n + 1)
        /\ e.until = asked[g].until \/ (e.until = 0 /\ asked[g].until = g + 1)
    BY <1>1, <1>3, <1>10, <2>1, <2>2 DEF DeferredWait
  <2>4. e.until = asked[g].until
    BY <2>1, <2>3
  <2>5. e.until \in Nat
    BY <2>1 DEF Typed, Entries
  <2>6. n + 1 < asked[g].until
    BY <2>1, <2>4, <2>5
  <2>7. asked'[g] = asked[g] /\ ~Goes(asked[g])
    BY <1>2, <2>3 DEF Waits
  <2>8. \A q \in g + 1 .. n + 1 : q = n + 1 \/ (q \in 1 .. n /\ q \in g + 1 .. (n + 1) - 1)
    BY <2>3
  <2>9. \A q \in g + 1 .. n + 1 : Goes(asked'[q]) => q < asked'[g].until
    BY <1>2, <2>3, <2>6, <2>7, <2>8 DEF Waits
  <2>10. (n + 1 + 1) - 1 = n + 1
    OBVIOUS
  <2>11. Waits(asked', g, n + 1 + 1)
    BY <2>7, <2>9, <2>10 DEF Waits
  <2>12. g \in 1 .. n + 1
    BY <2>3
  <2>13. QED
    BY <2>2, <2>4, <2>7, <2>11, <2>12
<1>13. DeferredWait'
  BY <1>2, <1>12 DEF DeferredWait
<1>14. PICK l \in Nat : l = Len(back)
  BY <1>7, NumbersTyped
<1>15. /\ Len(batch') = 1 + l /\ batch'[1] = n + 1
       /\ \A i \in 2 .. 1 + l : i - 1 \in 1 .. l /\ batch'[i] = back[i - 1]
  <2>1. PICK new : new = <<n + 1>> \o back
    OBVIOUS
  <2>2. <<n + 1>> \in Seq(Nat) /\ Len(<<n + 1>>) = 1 /\ <<n + 1>>[1] = n + 1
    BY One
  <2>3. /\ Len(new) = 1 + l
        /\ \A i \in 1 .. 1 + l : new[i] = IF i <= 1 THEN <<n + 1>>[i] ELSE back[i - 1]
    BY <1>7, <1>14, <2>1, <2>2, ConcatProperties
  <2>4. new[1] = n + 1
    BY <2>2, <2>3
  <2>5. \A i \in 2 .. 1 + l : i - 1 \in 1 .. l /\ new[i] = back[i - 1]
    BY <2>3
  <2>6. QED
    BY <1>7, <2>1, <2>3, <2>4, <2>5
<1>16. \A i \in 1 .. l : back[i] \in Among(back)
  BY <1>14 DEF Among
<1>17. ASSUME NEW x \in Held
       PROVE  InOrder(asked', n + 1, x)
  <2>1. x \in 1 .. n /\ Waits(asked, x, n + 1) /\ n + 1 \in 1 .. n + 1
    BY <1>11
  <2>2. Waits(asked', x, n + 1)
    BY <1>2, <2>1, WaitsSame
  <2>3. n + 1 # x /\ ~(n + 1 < x)
    BY <2>1
  <2>4. QED
    BY <2>2, <2>3 DEF InOrder
<1>18. ASSUME NEW x \in Held, NEW y \in Held, x > y
       PROVE  InOrder(asked', x, y)
  <2>1. x \in 1 .. n /\ y \in 1 .. n
    BY <1>11
  <2>2. InOrder(asked, x, y)
    BY <1>1, <1>3, <1>10, <1>18, HeldFalls
  <2>3. QED
    BY <1>2, <2>1, <2>2, OrderSame
<1>19. ASSUME NEW i \in 1 .. 1 + l, NEW j \in 1 .. 1 + l, i < j
       PROVE  InOrder(asked', batch'[i], batch'[j])
  <2>1. j \in 2 .. 1 + l
    BY <1>19
  <2>2. PICK y : y = batch'[j]
    OBVIOUS
  <2>3. y = back[j - 1] /\ j - 1 \in 1 .. l /\ y \in Held
    BY <1>7, <1>15, <1>16, <2>1, <2>2
  <2>4. CASE i = 1
    BY <1>15, <1>17, <2>2, <2>3, <2>4
  <2>5. CASE i # 1
    <3>1. i \in 2 .. 1 + l
      BY <2>5
    <3>2. PICK x : x = batch'[i]
      OBVIOUS
    <3>3. x = back[i - 1] /\ i - 1 \in 1 .. l /\ x \in Held
      BY <1>7, <1>15, <1>16, <3>1, <3>2
    <3>4. i - 1 < j - 1
      BY <1>19
    <3>5. x > y
      BY <1>8, <1>14, <2>3, <3>3, <3>4
    <3>6. QED
      BY <1>18, <2>2, <2>3, <3>2, <3>3, <3>5
  <2>6. QED
    BY <2>4, <2>5
<1>20. ASSUME NEW g \in Among(written)
       PROVE  ~Waits(asked', g, n + 1) /\ ~Waits(asked', g, n + 1 + 1) /\ g \in 1 .. n
  <2>1. ~Waits(asked, g, n + 1)
    BY <1>1, <1>3, <1>4, <1>10 DEF BatchInOrder
  <2>2. g \in 1 .. n /\ n + 1 \in 1 .. n + 1 /\ g \in Nat
    BY <1>1 DEF Apart
  <2>3. ~Waits(asked', g, n + 1)
    BY <1>2, <2>1, <2>2, WaitsSame
  <2>4. QED
    BY <1>9, <2>2, <2>3, WaitsLess
<1>21. ASSUME NEW first \in Among(written), NEW second \in Among(batch')
       PROVE  InOrder(asked', first, second)
  <2>1. CASE second = n + 1
    <3>1. first # n + 1 /\ ~(first > n + 1)
      BY <1>20
    <3>2. QED
      BY <1>20, <2>1, <3>1 DEF InOrder
  <2>2. CASE second \in Among(back)
    <3>1. second \in Held /\ second \in 1 .. n /\ first \in 1 .. n
      BY <1>7, <1>20, <2>2
    <3>2. InOrder(asked, first, second)
      BY <1>1, <1>3, <1>10, <3>1, HeldComesLast
    <3>3. QED
      BY <1>2, <3>1, <3>2, OrderSame
  <2>3. QED
    BY <1>7, <2>1, <2>2
<1>22. ASSUME NEW g \in Among(batch')
       PROVE  ~Waits(asked', g, n + 1 + 1)
  <2>1. CASE g = n + 1
    BY <1>2, <1>3, <2>1 DEF Waits
  <2>2. CASE g \in Among(back)
    <3>1. PICK e \in deferred : e.order = g /\ e.until <= n + 1
      BY <1>8, <2>2
    <3>2. g \in 1 .. n /\ (e.until = asked[g].until \/ asked[g].until = g + 1)
      BY <1>1, <1>3, <1>10, <3>1 DEF DeferredWait
    <3>3. asked[g].until \in Nat /\ asked'[g] = asked[g]
      <4>1. asked \in Seq(Decided) /\ g \in 1 .. Len(asked)
        BY <1>1, <3>2 DEF Typed
      <4>2. asked[g] \in Decided
        BY <4>1, ElementOfSeq
      <4>3. asked[g].until \in Nat
        BY <4>2 DEF Decided
      <4>4. QED
        BY <1>2, <3>2, <4>3
    <3>4. ~(n + 1 < asked'[g].until)
      BY <3>1, <3>2, <3>3
    <3>5. n + 1 \in g + 1 .. (n + 1 + 1) - 1
      BY <3>2
    <3>6. Goes(asked'[n + 1])
      BY <1>2, <1>3
    <3>7. QED
      BY <3>4, <3>5, <3>6 DEF Waits
  <2>3. QED
    BY <1>7, <2>1, <2>2
<1>23. BatchInOrder'
  <2>1. \A i, j \in 1 .. Len(batch') : i < j => InOrder(asked', batch'[i], batch'[j])
    BY <1>15, <1>19
  <2>2. \A first \in Among(written'), second \in Among(batch') : InOrder(asked', first, second)
    BY <1>3, <1>21
  <2>3. \A g \in Among(written') \cup Among(batch') : ~Waits(asked', g, Len(asked') + 1)
    BY <1>2, <1>3, <1>20, <1>22
  <2>4. QED
    BY <2>1, <2>2, <2>3 DEF BatchInOrder
<1>24. QED
  BY <1>5, <1>13, <1>23 DEF OrderInv

LEMMA OrderAtEmpty ==
    ASSUME Typed, Shape, Apart, AnswersApart, OrderInv, Empties
    PROVE  OrderInv'
<1>1. PICK n \in Nat : n = Len(asked)
  BY LenProperties DEF Typed
<1>2. UNCHANGED <<written, asked>> /\ pc = "reading" /\ deferred' = {} /\ last'
  BY DEF Empties
<1>3. WrittenInOrder /\ DeferredWait
  BY DEF OrderInv
<1>4. WrittenInOrder'
  BY <1>2, <1>3 DEF WrittenInOrder
<1>5. DeferredWait'
  BY <1>2 DEF DeferredWait
<1>6. PICK list : list = NewestFirst(Held)
  OBVIOUS
<1>7. /\ list \in Seq(Nat) /\ Among(list) = Held
      /\ \A i, j \in 1 .. Len(list) : i < j => list[i] > list[j]
  BY <1>6, AllReleased
<1>8. batch' = list
  BY <1>6 DEF Empties, Held
<1>9. \A i \in 1 .. Len(list) : list[i] \in Held
  BY <1>7 DEF Among
<1>10. ASSUME NEW i \in 1 .. Len(list), NEW j \in 1 .. Len(list), i < j
       PROVE  InOrder(asked, list[i], list[j])
  <2>1. PICK x \in Held, y \in Held : x = list[i] /\ y = list[j]
    BY <1>9
  <2>2. x > y
    BY <1>7, <1>10, <2>1
  <2>3. InOrder(asked, x, y)
    BY <1>1, <1>2, <1>3, <2>2, HeldFalls
  <2>4. QED
    BY <2>1, <2>3
<1>11. \A first \in Among(written), second \in Held : InOrder(asked, first, second)
  BY <1>1, <1>2, <1>3, HeldComesLast
<1>12. BatchInOrder'
  BY <1>2, <1>7, <1>8, <1>10, <1>11 DEF BatchInOrder
<1>13. QED
  BY <1>4, <1>5, <1>12 DEF OrderInv

\* The next group is the first of what is sent, and the rest follows it.
LEMMA FirstOfBatch ==
    ASSUME Typed, BatchInOrder, pc # "ended", Len(batch) # 0,
           NEW h \in Nat, h = Head(batch), NEW rest \in Seq(Nat), rest = Tail(batch)
    PROVE  /\ \A x \in Among(rest) : InOrder(asked, h, x)
           /\ \A i, j \in 1 .. Len(rest) : i < j => InOrder(asked, rest[i], rest[j])
<1>1. PICK k \in Nat : k = Len(batch) /\ k > 0
  BY NumbersTyped DEF Typed
<1>2. /\ Len(rest) = k - 1 /\ h = batch[1]
      /\ \A i \in 1 .. k - 1 : rest[i] = batch[i + 1]
  <2>1. batch \in Seq(Nat) /\ batch # <<>>
    BY HeadOfBatch DEF Typed
  <2>2. QED
    BY <1>1, <2>1, HeadTailProperties
<1>3. \A i, j \in 1 .. k : i < j => InOrder(asked, batch[i], batch[j])
  BY <1>1 DEF BatchInOrder
<1>4. ASSUME NEW i \in 1 .. k - 1
      PROVE  InOrder(asked, h, rest[i])
  <2>1. i + 1 \in 1 .. k /\ 1 \in 1 .. k /\ 1 < i + 1
    BY <1>1
  <2>2. QED
    BY <1>2, <1>3, <2>1
<1>5. ASSUME NEW i \in 1 .. k - 1, NEW j \in 1 .. k - 1, i < j
      PROVE  InOrder(asked, rest[i], rest[j])
  <2>1. i + 1 \in 1 .. k /\ j + 1 \in 1 .. k /\ i + 1 < j + 1
    BY <1>1, <1>5
  <2>2. QED
    BY <1>2, <1>3, <2>1
<1>6. \A x \in Among(rest) : InOrder(asked, h, x)
  BY <1>2, <1>4 DEF Among
<1>7. QED
  BY <1>2, <1>5, <1>6

LEMMA OrderAtWrite ==
    ASSUME Typed, Shape, Apart, OrderInv, Write
    PROVE  OrderInv'
<1>1. /\ pc = "forwarding" /\ pc' = "awaiting" /\ written' = Append(written, Head(batch))
      /\ UNCHANGED <<batch, deferred, asked, last>>
  BY Written
<1>2. Len(batch) # 0
  BY <1>1 DEF Shape, Sending
<1>3. PICK h \in Nat : h = Head(batch)
  BY <1>2, HeadOfBatch
<1>4. PICK rest \in Seq(Nat) : rest = Tail(batch)
  BY <1>2, HeadOfBatch
<1>5. Among(batch) = {h} \cup Among(rest)
  BY <1>2, <1>3, <1>4, HeadOfBatch
<1>6. WrittenInOrder /\ DeferredWait /\ BatchInOrder
  BY DEF OrderInv
<1>7. PICK k \in Nat : k = Len(written)
  BY NumbersTyped DEF Typed
<1>8. PICK new : new = Append(written, h)
  OBVIOUS
<1>9. /\ Len(new) = k + 1 /\ new[k + 1] = h
      /\ \A i \in 1 .. k : new[i] = written[i]
  <2>1. written \in Seq(Nat)
    BY DEF Typed
  <2>2. QED
    BY <1>7, <1>8, <2>1, AppendProperties
<1>10. Among(new) = Among(written) \cup {h}
  BY <1>8, NumbersAppended DEF Typed
<1>11. written' = new
  BY <1>1, <1>3, <1>8
<1>12. \A x \in Among(written) : InOrder(asked, x, h)
  BY <1>1, <1>5, <1>6 DEF BatchInOrder
<1>13. WrittenInOrder'
  <2>1. SUFFICES ASSUME NEW i \in 1 .. k + 1, NEW j \in 1 .. k + 1, i < j
                 PROVE  InOrder(asked, new[i], new[j])
    BY <1>1, <1>9, <1>11 DEF WrittenInOrder
  <2>2. i \in 1 .. k /\ new[i] = written[i] /\ written[i] \in Among(written)
    BY <1>7, <1>9, <2>1 DEF Among
  <2>3. CASE j = k + 1
    BY <1>9, <1>12, <2>2, <2>3
  <2>4. CASE j \in 1 .. k
    BY <1>6, <1>7, <1>9, <2>1, <2>2, <2>4 DEF WrittenInOrder
  <2>5. QED
    BY <2>3, <2>4
<1>14. DeferredWait'
  BY <1>1, <1>6 DEF DeferredWait
<1>15. \A x \in Among(rest) : InOrder(asked, h, x)
  BY <1>1, <1>2, <1>3, <1>4, <1>6, FirstOfBatch
<1>16. ASSUME NEW first \in Among(new), NEW second \in Among(batch)
       PROVE  InOrder(asked, first, second) \/ second = h
  <2>1. CASE first = h
    BY <1>5, <1>15, <2>1
  <2>2. CASE first \in Among(written)
    BY <1>1, <1>6, <2>2 DEF BatchInOrder
  <2>3. QED
    BY <1>10, <2>1, <2>2
<1>17. ~last => \A g \in Among(new) \cup Among(batch) : ~Waits(asked, g, Len(asked) + 1)
  BY <1>1, <1>5, <1>6, <1>10 DEF BatchInOrder
<1>18. \A i, j \in 1 .. Len(batch) : i < j => InOrder(asked, batch[i], batch[j])
  BY <1>1, <1>6 DEF BatchInOrder
<1>19. UNCHANGED <<batch, asked, last>> /\ pc' = "awaiting"
  BY <1>1
<1>20. BatchInOrder'
  BY <1>3, <1>11, <1>16, <1>17, <1>18, <1>19 DEF BatchInOrder
<1>21. QED
  BY <1>13, <1>14, <1>20 DEF OrderInv

LEMMA OrderAtAnswer ==
    ASSUME Typed, Shape, Apart, OrderInv, ReadAnswer
    PROVE  OrderInv'
<1>1. PICK complete \in BOOLEAN :
          /\ pc = "awaiting" /\ Len(batch) # 0
          /\ batch' = IF complete THEN Tail(batch) ELSE <<>>
          /\ UNCHANGED <<deferred, last, asked, written>>
  BY AnswerRead
<1>2. PICK h \in Nat : h = Head(batch)
  BY <1>1, HeadOfBatch
<1>3. PICK rest \in Seq(Nat) : rest = Tail(batch)
  BY <1>1, HeadOfBatch
<1>4. Among(batch) = {h} \cup Among(rest) /\ h \notin Among(rest)
  BY <1>1, <1>2, <1>3, HeadOfBatch DEF Apart
<1>5. WrittenInOrder /\ DeferredWait /\ BatchInOrder
  BY DEF OrderInv
<1>6. UNCHANGED <<deferred, last, asked, written>> /\ pc = "awaiting"
  BY <1>1
<1>7. WrittenInOrder' /\ DeferredWait'
  BY <1>5, <1>6 DEF WrittenInOrder, DeferredWait
<1>8. \A i, j \in 1 .. Len(rest) : i < j => InOrder(asked, rest[i], rest[j])
  BY <1>1, <1>2, <1>3, <1>5, FirstOfBatch
<1>9. Among(batch') \subseteq Among(rest) /\ (batch' = rest \/ Len(batch') = 0)
  <2>1. CASE complete
    BY <1>1, <1>3, <2>1
  <2>2. CASE ~complete
    BY <1>1, <2>2, Empty
  <2>3. QED
    BY <2>1, <2>2
<1>10. \A i, j \in 1 .. Len(batch') : i < j => InOrder(asked, batch'[i], batch'[j])
  <2>1. CASE batch' = rest
    BY <1>8, <2>1
  <2>2. CASE Len(batch') = 0
    BY <2>2
  <2>3. QED
    BY <1>9, <2>1, <2>2
<1>11. \A first \in Among(written), second \in Among(batch') : InOrder(asked, first, second)
  BY <1>2, <1>4, <1>5, <1>6, <1>9 DEF BatchInOrder
<1>12. ~last => \A g \in Among(written) \cup Among(batch') : ~Waits(asked, g, Len(asked) + 1)
  BY <1>4, <1>5, <1>6, <1>9 DEF BatchInOrder
<1>13. BatchInOrder'
  BY <1>6, <1>10, <1>11, <1>12 DEF BatchInOrder
<1>14. QED
  BY <1>7, <1>13 DEF OrderInv

LEMMA OrderKept ==
    ASSUME Typed, Shape, Apart, AnswersApart, OrderInv, Next
    PROVE  OrderInv'
<1>1. Len(asked) \in Nat
  BY LenProperties DEF Typed
<1>2. CASE Talks
  <2>1. /\ UNCHANGED <<asked, deferred, batch, last, written>>
        /\ pc' # "ended" => pc' = pc \/ (pc # "ended" /\ pc # "awaiting")
    BY <1>2 DEF Talks, Early
  <2>2. QED
    BY <2>1, OrderStays
<1>3. CASE Ends
  <2>1. UNCHANGED <<asked, deferred, batch, last, written>> /\ pc' = "ended"
    BY <1>3 DEF Ends
  <2>2. QED
    BY <2>1, OrderStays
<1>4. CASE Cuts
  <2>1. pc' = "ended" /\ UNCHANGED written
    BY <1>4 DEF Cuts
  <2>2. WrittenInOrder'
    BY <1>4, <2>1, WrittenKept DEF Cuts, OrderInv
  <2>3. QED
    BY <2>1, <2>2 DEF OrderInv, DeferredWait, BatchInOrder
<1>5. CASE Quit \/ Execute
  <2>1. UNCHANGED <<asked, deferred, batch, last, written, pc>>
    BY <1>5 DEF Quit, Execute, loop
  <2>2. QED
    BY <2>1, OrderStays
<1>6. CASE Passes
  <2>1. UNCHANGED <<asked, deferred, batch, last, written, pc>>
    BY <1>6 DEF Passes
  <2>2. QED
    BY <2>1, OrderStays
<1>7. QED
  BY <1>1, <1>2, <1>3, <1>4, <1>5, <1>6, StepCases, OrderAtDefer, OrderAtRelease, OrderAtEmpty,
     OrderAtWrite, OrderAtAnswer DEF Reads

-----------------------------------------------------------------------------
\* Where the answers go is kept, while holds are one fork long.

LEMMA SeedHeld ==
    ASSUME asked \in Seq(Decided), AsASeedHolds',
           asked' = asked \/ \E choice \in Decided : asked' = Append(asked, choice)
    PROVE  AsASeedHolds
<1>1. CASE asked' = asked
  BY <1>1 DEF AsASeedHolds
<1>2. ASSUME NEW choice \in Decided, asked' = Append(asked, choice)
      PROVE  AsASeedHolds
  <2>1. PICK n \in Nat : n = Len(asked)
    BY LenProperties
  <2>2. Len(asked') = n + 1 /\ \A i \in 1 .. n : asked'[i] = asked[i]
    BY <1>2, <2>1, AskedGrows
  <2>3. asked' \in Seq(Decided)
    BY <1>2, AskedGrows
  <2>4. DOMAIN asked = 1 .. n /\ DOMAIN asked' = 1 .. n + 1
    BY <2>1, <2>2, <2>3, LenProperties
  <2>5. \A i \in 1 .. n : i \in 1 .. n + 1
    OBVIOUS
  <2>6. QED
    BY <2>2, <2>4, <2>5 DEF AsASeedHolds
<1>3. QED
  BY <1>1, <1>2

LEMMA PlacedStays ==
    ASSUME Placed, alive' => alive, AsASeedHolds' => AsASeedHolds,
           UNCHANGED <<got, answers, batch>>,
           pc' # "ended" =>
               /\ pc # "ended" /\ UNCHANGED <<asked, deferred>>
               /\ pc' \in Sending => pc \in Sending
               /\ pc' = "answering" => pc = "answering"
    PROVE  Placed'
<1>1. SUFFICES ASSUME alive', AsASeedHolds'
               PROVE  Placed'
  BY DEF Placed
<1>2. alive /\ AsASeedHolds
  BY <1>1
<1>3. UNCHANGED <<got, answers, batch>>
  OBVIOUS
<1>4. \A i \in 1 .. Len(got') : got'[i] = i
  BY <1>2, <1>3 DEF Placed
<1>5. \A i \in 1 .. Len(answers') : answers'[i].complete
  BY <1>2, <1>3 DEF Placed
<1>6. CASE pc' = "ended"
  BY <1>4, <1>5, <1>6 DEF Placed
<1>7. CASE pc' # "ended"
  <2>1. /\ pc # "ended" /\ UNCHANGED <<asked, deferred>>
        /\ pc' \in Sending => pc \in Sending
        /\ pc' = "answering" => pc = "answering"
    BY <1>7
  <2>2. Held' = Held
    BY <2>1 DEF Held
  <2>3. /\ Len(got') + Len(answers') + Len(batch') <= Len(asked')
        /\ Held' = Len(got') + Len(answers') + Len(batch') + 1 .. Len(asked')
    BY <1>2, <1>3, <2>1, <2>2 DEF Placed
  <2>4. pc' \in Sending \cup {"answering"} => deferred' = {}
    BY <1>2, <2>1 DEF Placed
  <2>5. \A i \in 1 .. Len(batch') : batch'[i] = Len(asked') - Len(answers') + 1 - i
    BY <1>2, <1>3, <2>1 DEF Placed
  <2>6. pc' \in Sending =>
            \A i \in 1 .. Len(answers') : answers'[i].order = Len(asked') + 1 - i
    BY <1>2, <1>3, <2>1 DEF Placed
  <2>7. pc' = "answering" =>
            \A i \in 1 .. Len(answers') : answers'[i].order = Len(got') + i
    BY <1>2, <1>3, <2>1 DEF Placed
  <2>8. QED
    BY <1>4, <1>5, <2>3, <2>4, <2>5, <2>6, <2>7 DEF Placed
<1>8. QED
  BY <1>6, <1>7

\* While the loop reads, what was read was answered up to what is deferred.
LEMMA AnsweredWhileReading ==
    ASSUME Typed, Shape, Apart, AnswersApart, Placed, alive, AsASeedHolds, pc = "reading",
           NEW n \in Nat, n = Len(asked), NEW g \in Nat, g = Len(got)
    PROVE  g <= n /\ Held = g + 1 .. n /\ \A i \in 1 .. g : got[i] = i
<1>1. Len(batch) = 0 /\ Len(answers) = 0
  BY WhileReading
<1>2. g + 0 + 0 = g /\ g + 0 + 0 + 1 = g + 1
  OBVIOUS
<1>3. Len(got) + Len(answers) + Len(batch) <= Len(asked)
  BY DEF Placed
<1>4. Held = Len(got) + Len(answers) + Len(batch) + 1 .. Len(asked)
  BY DEF Placed
<1>5. \A i \in 1 .. Len(got) : got[i] = i
  BY DEF Placed
<1>6. QED
  BY <1>1, <1>2, <1>3, <1>4, <1>5

LEMMA PlacedAtDefer ==
    ASSUME Typed, Shape, Apart, AnswersApart, Placed,
           NEW choice \in Decided, NEW entry \in Entries, Defers(choice, entry)
    PROVE  Placed'
<1>1. SUFFICES ASSUME alive', AsASeedHolds'
               PROVE  Placed'
  BY DEF Placed
<1>2. PICK n \in Nat, g \in Nat : n = Len(asked) /\ g = Len(got)
  BY LenProperties DEF Typed
<1>3. Len(asked') = n + 1
  BY <1>2, AskedGrows DEF Typed, Defers
<1>4. UNCHANGED <<got, answers, batch, pc, alive>> /\ pc = "reading"
  BY DEF Defers
<1>5. alive /\ AsASeedHolds
  BY <1>1, <1>4, SeedHeld DEF Defers, Typed
<1>6. g <= n /\ Held = g + 1 .. n /\ \A i \in 1 .. g : got[i] = i
  BY <1>2, <1>4, <1>5, AnsweredWhileReading
<1>7. Len(batch) = 0 /\ Len(answers) = 0
  BY <1>4, WhileReading
<1>8. Held' = Held \cup {n + 1}
  BY <1>2 DEF Defers, Held, Orders
<1>9. Held' = g + 1 .. n + 1
  <2>1. \A x \in Held' : x \in g + 1 .. n + 1
    BY <1>6, <1>8
  <2>2. \A x \in g + 1 .. n + 1 : x \in Held'
    BY <1>6, <1>8
  <2>3. QED
    BY <2>1, <2>2
<1>10. g + 0 + 0 <= n + 1 /\ g + 0 + 0 + 1 = g + 1
  BY <1>6
<1>11. /\ Len(got') + Len(answers') + Len(batch') <= Len(asked')
       /\ Held' = Len(got') + Len(answers') + Len(batch') + 1 .. Len(asked')
  BY <1>2, <1>3, <1>4, <1>7, <1>9, <1>10
<1>12. \A i \in 1 .. Len(got') : got'[i] = i
  BY <1>2, <1>4, <1>6
<1>13. pc' \notin Sending \cup {"answering"}
  BY <1>4 DEF Sending
<1>14. Len(batch') = 0 /\ Len(answers') = 0
  BY <1>4, <1>7
<1>15. QED
  BY <1>11, <1>12, <1>13, <1>14 DEF Placed

\* A seed's holds are over when the next group is let through.
LEMMA AllAreReady ==
    ASSUME Typed, Apart, DeferredWait, AsASeedHolds, pc # "ended",
           NEW n \in Nat, n = Len(asked)
    PROVE  Kept(n + 1) = {} /\ Released(n + 1) = NewestFirst(Held)
<1>1. DOMAIN asked = 1 .. n
  BY LenProperties DEF Typed
<1>2. ASSUME NEW e \in deferred
      PROVE  Ready(e, n + 1)
  <2>1. PICK g : g = e.order
    OBVIOUS
  <2>2. g \in 1 .. n /\ (e.until = asked[g].until \/ e.until = 0)
    BY <2>1 DEF DeferredWait
  <2>3. asked[g].until = g + 1
    BY <1>1, <2>2 DEF AsASeedHolds
  <2>4. e.until <= n + 1
    BY <2>2, <2>3
  <2>5. QED
    BY <2>4 DEF Ready
<1>3. {e \in deferred : Ready(e, n + 1)} = deferred
  BY <1>2
<1>4. Kept(n + 1) = {}
  BY <1>2 DEF Kept
<1>5. Released(n + 1) = NewestFirst(Held)
  BY <1>3 DEF Released, Held
<1>6. QED
  BY <1>4, <1>5

LEMMA PlacedAtRelease ==
    ASSUME Typed, Shape, Apart, AnswersApart, DeferredWait, Placed,
           NEW choice \in Decided, Releases(choice)
    PROVE  Placed'
<1>1. SUFFICES ASSUME alive', AsASeedHolds'
               PROVE  Placed'
  BY DEF Placed
<1>2. PICK n \in Nat, g \in Nat : n = Len(asked) /\ g = Len(got)
  BY LenProperties DEF Typed
<1>3. Len(asked') = n + 1
  BY <1>2, AskedGrows DEF Typed, Releases
<1>4. UNCHANGED <<got, answers, alive>> /\ pc = "reading" /\ pc' = "forwarding"
  BY DEF Releases
<1>5. alive /\ AsASeedHolds
  BY <1>1, <1>4, SeedHeld DEF Releases, Typed
<1>6. g <= n /\ Held = g + 1 .. n /\ \A i \in 1 .. g : got[i] = i
  BY <1>2, <1>4, <1>5, AnsweredWhileReading
<1>7. Len(answers) = 0
  BY <1>4, WhileReading
<1>8. PICK back : back = Released(n + 1)
  OBVIOUS
<1>9. back \in Seq(Nat) /\ batch' = <<n + 1>> \o back /\ deferred' = Kept(n + 1)
  BY <1>2, <1>8, ReleaseSends
<1>10. Kept(n + 1) = {} /\ back = NewestFirst(g + 1 .. n)
  BY <1>2, <1>4, <1>5, <1>6, <1>8, AllAreReady
<1>11. Len(back) = n - g /\ \A i \in 1 .. n - g : back[i] = n + 1 - i
  BY <1>6, <1>10, NewestOfInterval
<1>12. PICK l \in Nat : l = n - g
  BY <1>6
<1>13. /\ Len(batch') = 1 + l /\ batch'[1] = n + 1
       /\ \A i \in 2 .. 1 + l : batch'[i] = back[i - 1]
  <2>1. PICK new : new = <<n + 1>> \o back
    OBVIOUS
  <2>2. <<n + 1>> \in Seq(Nat) /\ Len(<<n + 1>>) = 1 /\ <<n + 1>>[1] = n + 1
    BY One
  <2>3. /\ Len(new) = 1 + l
        /\ \A i \in 1 .. 1 + l : new[i] = IF i <= 1 THEN <<n + 1>>[i] ELSE back[i - 1]
    <3>1. back \in Seq(Nat) /\ Len(back) = l
      BY <1>9, <1>11, <1>12
    <3>2. QED
      BY <2>1, <2>2, <3>1, ConcatProperties
  <2>4. new[1] = n + 1
    BY <2>2, <2>3
  <2>5. \A i \in 2 .. 1 + l : new[i] = back[i - 1]
    BY <2>3
  <2>6. QED
    BY <1>9, <2>1, <2>3, <2>4, <2>5
<1>14. ASSUME NEW i \in 1 .. 1 + l
       PROVE  batch'[i] = (n + 1) - 0 + 1 - i
  <2>1. CASE i = 1
    BY <1>13, <2>1
  <2>2. CASE i # 1
    <3>1. i \in 2 .. 1 + l /\ i - 1 \in 1 .. n - g
      BY <1>12, <2>2
    <3>2. batch'[i] = n + 1 - (i - 1)
      BY <1>11, <1>13, <3>1
    <3>3. QED
      BY <3>2
  <2>3. QED
    BY <2>1, <2>2
<1>15. deferred' = {}
  BY <1>9, <1>10
<1>16. Held' = {}
  BY <1>15 DEF Held, Orders
<1>17. g + 0 + (1 + l) = n + 1 /\ g + 0 + (1 + l) + 1 .. n + 1 = {}
  BY <1>12
<1>18. /\ Len(got') + Len(answers') + Len(batch') <= Len(asked')
       /\ Held' = Len(got') + Len(answers') + Len(batch') + 1 .. Len(asked')
  BY <1>2, <1>3, <1>4, <1>7, <1>13, <1>16, <1>17
<1>19. \A i \in 1 .. Len(got') : got'[i] = i
  BY <1>2, <1>4, <1>6
<1>20. \A i \in 1 .. Len(batch') : batch'[i] = Len(asked') - Len(answers') + 1 - i
  BY <1>3, <1>4, <1>7, <1>13, <1>14
<1>21. Len(answers') = 0 /\ pc' # "answering"
  BY <1>4, <1>7
<1>22. QED
  BY <1>15, <1>18, <1>19, <1>20, <1>21 DEF Placed

LEMMA PlacedAtEmpty ==
    ASSUME Typed, Shape, Apart, AnswersApart, Placed, Empties
    PROVE  Placed'
<1>1. SUFFICES ASSUME alive', AsASeedHolds'
               PROVE  Placed'
  BY DEF Placed
<1>2. PICK n \in Nat, g \in Nat : n = Len(asked) /\ g = Len(got)
  BY LenProperties DEF Typed
<1>3. UNCHANGED <<got, answers, asked, alive>> /\ pc = "reading" /\ pc' = "forwarding"
  BY DEF Empties
<1>4. alive /\ AsASeedHolds
  BY <1>1, <1>3 DEF AsASeedHolds
<1>5. g <= n /\ Held = g + 1 .. n /\ \A i \in 1 .. g : got[i] = i
  BY <1>2, <1>3, <1>4, AnsweredWhileReading
<1>6. Len(answers) = 0
  BY <1>3, WhileReading
<1>7. batch' = NewestFirst(g + 1 .. n) /\ deferred' = {}
  BY <1>5 DEF Empties, Held
<1>8. /\ Len(NewestFirst(g + 1 .. n)) = n - g
      /\ \A i \in 1 .. n - g : NewestFirst(g + 1 .. n)[i] = n + 1 - i
  BY <1>5, NewestOfInterval
<1>9. Len(batch') = n - g /\ \A i \in 1 .. n - g : batch'[i] = n - 0 + 1 - i
  BY <1>7, <1>8
<1>10. Held' = {}
  BY <1>7 DEF Held, Orders
<1>11. g + 0 + (n - g) = n /\ g + 0 + (n - g) + 1 .. n = {}
  BY <1>5
<1>12. /\ Len(got') + Len(answers') + Len(batch') <= Len(asked')
       /\ Held' = Len(got') + Len(answers') + Len(batch') + 1 .. Len(asked')
  BY <1>2, <1>3, <1>6, <1>9, <1>10, <1>11
<1>13. \A i \in 1 .. Len(got') : got'[i] = i
  BY <1>2, <1>3, <1>5
<1>14. \A i \in 1 .. Len(batch') : batch'[i] = Len(asked') - Len(answers') + 1 - i
  BY <1>2, <1>3, <1>6, <1>9
<1>15. Len(answers') = 0 /\ pc' # "answering"
  BY <1>3, <1>6
<1>16. QED
  BY <1>7, <1>12, <1>13, <1>14, <1>15 DEF Placed

LEMMA SortedFrom ==
    ASSUME NEW s \in Seq(Answers), NEW n \in Nat, NEW t, t = InTheOrderAsked(s),
           Among(Numbers(s)) \subseteq 1 .. n, Once(Numbers(s))
    PROVE  \A i \in 1 .. Len(s) : t[i] \in Among(s)
<1>1. \A i \in 1 .. Len(s) : \E j \in 1 .. Len(s) : t[i] = s[j]
  BY SortedAnswers
<1>2. QED
  BY <1>1 DEF Among

\* The answers of an exchange, when the last is read, are those of the groups
\* up to the newest, which the client has not read: newest first, then sorted.
Falls(list, g) ==
    \A i \in 1 .. Len(list) : list[i].complete /\ list[i].order = g + Len(list) + 1 - i
Climbs(list, g) == \A i \in 1 .. Len(list) : list[i].complete /\ list[i].order = g + i

LEMMA SortedClimbs ==
    ASSUME NEW s \in Seq(Answers), Once(Numbers(s)), NEW g \in Nat, Falls(s, g)
    PROVE  /\ Len(InTheOrderAsked(s)) = Len(s)
           /\ Climbs(InTheOrderAsked(s), g)
<1>1. PICK k \in Nat : k = Len(s)
  BY LenProperties
<1>2. PICK t : t = InTheOrderAsked(s)
  OBVIOUS
<1>3. k = Len(s) /\ t = InTheOrderAsked(s)
  BY <1>1, <1>2
<1>4. /\ Len(Numbers(s)) = k
      /\ \A i \in 1 .. k : Numbers(s)[i] = s[i].order
  BY <1>3, AnswersTyped
<1>5. \A i \in 1 .. k : s[i].complete /\ s[i].order \in g + 1 .. g + k
  <2>1. \A i \in 1 .. k : s[i].complete /\ s[i].order = g + k + 1 - i
    BY <1>3 DEF Falls
  <2>2. \A i \in 1 .. k : g + k + 1 - i \in g + 1 .. g + k
    OBVIOUS
  <2>3. QED
    BY <2>1, <2>2
<1>6. PICK m \in Nat : m = g + k
  OBVIOUS
<1>7. Among(Numbers(s)) \subseteq 1 .. m
  <2>1. \A i \in 1 .. k : s[i].order \in 1 .. m
    BY <1>5, <1>6
  <2>2. QED
    BY <1>4, <2>1 DEF Among
<1>8. Len(t) = k
  BY <1>3, <1>7, SortedAnswers
<1>9. \A i \in 1 .. k : t[i].complete /\ t[i].order \in (g + 1) .. (g + k)
  <2>1. \A i \in 1 .. k : t[i] \in Among(s)
    BY <1>3, <1>7, SortedFrom
  <2>2. \A a \in Among(s) : a.complete /\ a.order \in (g + 1) .. (g + k)
    BY <1>3, <1>5 DEF Among
  <2>3. QED
    BY <2>1, <2>2
<1>10. PICK f : f = [i \in 1 .. k |-> t[i].order]
  OBVIOUS
<1>11. \A i \in 1 .. k : f[i] = t[i].order
  BY <1>10
<1>12. f \in [1 .. k -> (g + 1) .. (g + k)]
  BY <1>9, <1>10
<1>13. \A i, j \in 1 .. k : i < j => f[i] < f[j]
  <2>1. \A i, j \in 1 .. k : i < j => t[i].order < t[j].order
    BY <1>3, <1>7, SortedAnswers
  <2>2. QED
    BY <1>11, <2>1
<1>14. \A i \in 1 .. k : f[i] = g + i
  BY <1>12, <1>13, GrowingFillsInterval
<1>15. Climbs(t, g)
  BY <1>8, <1>9, <1>11, <1>14 DEF Climbs
<1>16. QED
  BY <1>3, <1>8, <1>15

LEMMA PlacedAtAnswer ==
    ASSUME Typed, Shape, Apart, AnswersApart, Placed, ReadAnswer
    PROVE  Placed'
<1>1. SUFFICES ASSUME alive', AsASeedHolds'
               PROVE  Placed'
  BY DEF Placed
<1>2. PICK complete \in BOOLEAN :
          /\ pc = "awaiting" /\ Len(batch) # 0
          /\ batch' = IF complete THEN Tail(batch) ELSE <<>>
          /\ pc' = IF Len(batch') = 0 THEN "answering" ELSE "forwarding"
          /\ answers' = IF Len(batch') = 0 THEN InTheOrderAsked(Gathered(complete))
                        ELSE Gathered(complete)
          /\ (alive' <=> (alive /\ complete)) /\ alive' \in BOOLEAN
          /\ UNCHANGED <<deferred, got, asked>>
  BY AnswerRead
<1>3. alive /\ complete /\ AsASeedHolds
  BY <1>1, <1>2 DEF AsASeedHolds
<1>4. PICK n \in Nat, g \in Nat : n = Len(asked) /\ g = Len(got)
  BY LenProperties DEF Typed
<1>5. PICK a \in Nat : a = Len(answers)
  BY AnswersTyped DEF Typed
<1>6. PICK b \in Nat : b = Len(batch) /\ b # 0
  BY <1>2, NumbersTyped DEF Typed
<1>7. pc \in Sending /\ pc # "ended"
  BY <1>2 DEF Sending
<1>8. \A i \in 1 .. g : got[i] = i
  BY <1>3, <1>4 DEF Placed
<1>9. \A i \in 1 .. a : answers[i].complete
  BY <1>3, <1>5 DEF Placed
<1>10. g + a + b <= n /\ Held = g + a + b + 1 .. n
  BY <1>3, <1>4, <1>5, <1>6, <1>7 DEF Placed
<1>11. deferred = {}
  BY <1>3, <1>7 DEF Placed
<1>12. \A i \in 1 .. b : batch[i] = n - a + 1 - i
  BY <1>3, <1>4, <1>5, <1>6, <1>7 DEF Placed
<1>13. \A i \in 1 .. a : answers[i].order = n + 1 - i
  BY <1>3, <1>4, <1>5, <1>7 DEF Placed
<1>14. n = g + a + b
  <2>1. g + a + b + 1 \notin Held
    BY <1>11 DEF Held, Orders
  <2>2. ~(g + a + b + 1 <= n)
    BY <1>10, <2>1
  <2>3. QED
    BY <1>10, <2>2
<1>15. PICK rest \in Seq(Nat) : rest = Tail(batch)
  BY <1>2, HeadOfBatch
<1>16. /\ Len(rest) = b - 1 /\ Head(batch) = batch[1]
       /\ \A i \in 1 .. b - 1 : rest[i] = batch[i + 1]
  <2>1. batch \in Seq(Nat) /\ batch # <<>>
    BY <1>2, HeadOfBatch DEF Typed
  <2>2. QED
    BY <1>6, <1>15, <2>1, HeadTailProperties
<1>17. batch' = rest
  BY <1>2, <1>3, <1>15
<1>18. ASSUME NEW i \in 1 .. b - 1
       PROVE  rest[i] = n - (a + 1) + 1 - i
  <2>1. i + 1 \in 1 .. b
    BY <1>6
  <2>2. rest[i] = n - a + 1 - (i + 1)
    BY <1>12, <1>16, <2>1
  <2>3. QED
    BY <2>2
<1>19. Head(batch) = n - a
  BY <1>6, <1>12, <1>16
<1>20. PICK all : all = Gathered(complete)
  OBVIOUS
<1>21. /\ all \in Seq(Answers) /\ Once(Numbers(all)) /\ Len(all) = a + 1
       /\ \A i \in 1 .. a : all[i] = answers[i]
       /\ all[a + 1].order = Head(batch)
       /\ all[a + 1].complete = complete
  BY <1>2, <1>5, <1>20, GatheredIs
<1>22. \A i \in 1 .. a + 1 : i = a + 1 \/ i \in 1 .. a
  OBVIOUS
<1>23. \A i \in 1 .. a + 1 : all[i].complete
  BY <1>3, <1>9, <1>21, <1>22
<1>24. \A i \in 1 .. a + 1 : all[i].order = n + 1 - i
  BY <1>13, <1>19, <1>21, <1>22
<1>25. deferred' = {} /\ Len(asked') = n /\ Len(got') = g /\ got' = got
  BY <1>2, <1>4, <1>11
<1>26. Held' = {}
  BY <1>25 DEF Held, Orders
<1>27. CASE b # 1
  <2>1. Len(batch') # 0
    BY <1>6, <1>16, <1>17, <1>27
  <2>2. pc' = "forwarding" /\ answers' = all
    BY <1>2, <1>20, <2>1
  <2>3. g + (a + 1) + (b - 1) = n /\ g + (a + 1) + (b - 1) + 1 .. n = {}
    BY <1>14
  <2>4. Len(answers') = a + 1 /\ Len(batch') = b - 1
    BY <1>16, <1>17, <1>21, <2>2
  <2>5. /\ Len(got') + Len(answers') + Len(batch') <= Len(asked')
        /\ Held' = Len(got') + Len(answers') + Len(batch') + 1 .. Len(asked')
    BY <1>25, <1>26, <2>3, <2>4
  <2>6. \A i \in 1 .. Len(batch') : batch'[i] = Len(asked') - Len(answers') + 1 - i
    BY <1>17, <1>18, <1>25, <2>4
  <2>7. \A i \in 1 .. Len(answers') : answers'[i].order = Len(asked') + 1 - i
    BY <1>24, <1>25, <2>2, <2>4
  <2>8. \A i \in 1 .. Len(answers') : answers'[i].complete
    BY <1>23, <2>2, <2>4
  <2>9. \A i \in 1 .. Len(got') : got'[i] = i
    BY <1>8, <1>25
  <2>10. pc' # "answering"
    BY <2>2
  <2>11. QED
    BY <1>25, <2>5, <2>6, <2>7, <2>8, <2>9, <2>10 DEF Placed
<1>28. CASE b = 1
  <2>1. Len(batch') = 0
    BY <1>16, <1>17, <1>28
  <2>2. PICK sorted : sorted = InTheOrderAsked(all)
    OBVIOUS
  <2>3. pc' = "answering" /\ answers' = sorted
    BY <1>2, <1>20, <2>1, <2>2
  <2>4. PICK k \in Nat : k = a + 1
    OBVIOUS
  <2>5. n = g + k
    BY <1>14, <1>28, <2>4
  <2>6. /\ k = Len(all) /\ \A i \in 1 .. k : all[i].order = g + k + 1 - i
        /\ \A i \in 1 .. k : all[i].complete
    BY <1>21, <1>23, <1>24, <2>4, <2>5
  <2>7. /\ Len(sorted) = k
        /\ \A i \in 1 .. k : sorted[i].complete /\ sorted[i].order = g + i
    <3>1. all \in Seq(Answers) /\ Once(Numbers(all)) /\ Falls(all, g)
      BY <1>21, <2>6 DEF Falls
    <3>2. Len(sorted) = Len(all) /\ Climbs(sorted, g)
      BY <2>2, <3>1, SortedClimbs
    <3>3. QED
      BY <2>6, <3>2 DEF Climbs
  <2>8. g + k + 0 = n /\ g + k + 0 + 1 .. n = {}
    BY <2>5
  <2>9. Len(answers') = k
    BY <2>3, <2>7
  <2>10. /\ Len(got') + Len(answers') + Len(batch') <= Len(asked')
         /\ Held' = Len(got') + Len(answers') + Len(batch') + 1 .. Len(asked')
    BY <1>25, <1>26, <2>1, <2>8, <2>9
  <2>11. \A i \in 1 .. Len(batch') : batch'[i] = Len(asked') - Len(answers') + 1 - i
    BY <2>1
  <2>12. \A i \in 1 .. Len(answers') : answers'[i].order = Len(got') + i
    BY <1>25, <2>3, <2>7, <2>9
  <2>13. \A i \in 1 .. Len(answers') : answers'[i].complete
    BY <2>3, <2>7, <2>9
  <2>14. \A i \in 1 .. Len(got') : got'[i] = i
    BY <1>8, <1>25
  <2>15. pc' \notin Sending
    BY <2>3 DEF Sending
  <2>16. QED
    BY <1>25, <2>10, <2>11, <2>12, <2>13, <2>14, <2>15 DEF Placed
<1>29. QED
  BY <1>27, <1>28

LEMMA PlacedAtPass ==
    ASSUME Typed, Shape, Placed, Passes
    PROVE  Placed'
<1>1. SUFFICES ASSUME alive', AsASeedHolds'
               PROVE  Placed'
  BY DEF Placed
<1>2. UNCHANGED <<deferred, asked, batch, alive, pc>> /\ pc = "answering" /\ answers # <<>>
  BY DEF Passes
<1>3. alive /\ AsASeedHolds
  BY <1>1, <1>2 DEF AsASeedHolds
<1>4. PICK n \in Nat, g \in Nat : n = Len(asked) /\ g = Len(got)
  BY LenProperties DEF Typed
<1>5. PICK a \in Nat : a = Len(answers) /\ a # 0
  BY <1>2, AnswersTyped DEF Typed
<1>6. PICK b \in Nat : b = Len(batch) /\ b = 0
  BY <1>2 DEF Shape, Sending
<1>7. \A i \in 1 .. g : got[i] = i
  BY <1>3, <1>4 DEF Placed
<1>8. \A i \in 1 .. a : answers[i].complete
  BY <1>3, <1>5 DEF Placed
<1>9. g + a + b <= n /\ Held = g + a + b + 1 .. n
  BY <1>2, <1>3, <1>4, <1>5, <1>6 DEF Placed
<1>10. deferred = {}
  BY <1>2, <1>3 DEF Placed
<1>11. \A i \in 1 .. a : answers[i].order = g + i
  BY <1>2, <1>3, <1>4, <1>5 DEF Placed
<1>12. PICK old \in Seq(Answers) : old = answers
  BY DEF Typed
<1>13. PICK rest : rest = Tail(old)
  OBVIOUS
<1>14. /\ Len(rest) = a - 1 /\ Head(old) = old[1]
       /\ \A i \in 1 .. a - 1 : rest[i] = old[i + 1]
  BY <1>2, <1>5, <1>12, <1>13, AnswersTail
<1>15. Head(old).complete /\ Head(old).order = g + 1
  BY <1>5, <1>8, <1>11, <1>12, <1>14
<1>16. PICK new : new = Append(got, g + 1)
  OBVIOUS
<1>17. got' = new /\ answers' = rest
  BY <1>12, <1>13, <1>15, <1>16 DEF Passes
<1>18. Len(new) = g + 1 /\ new[g + 1] = g + 1 /\ \A i \in 1 .. g : new[i] = got[i]
  <2>1. got \in Seq(Nat)
    BY DEF Typed
  <2>2. QED
    BY <1>4, <1>16, <2>1, AppendProperties
<1>19. \A i \in 1 .. g + 1 : new[i] = i
  <2>1. \A i \in 1 .. g + 1 : i = g + 1 \/ i \in 1 .. g
    OBVIOUS
  <2>2. QED
    BY <1>7, <1>18, <2>1
<1>20. ASSUME NEW i \in 1 .. a - 1
       PROVE  rest[i].complete /\ rest[i].order = g + 1 + i
  <2>1. i + 1 \in 1 .. a /\ g + (i + 1) = g + 1 + i
    BY <1>5
  <2>2. QED
    BY <1>8, <1>11, <1>12, <1>14, <2>1
<1>21. Held' = Held
  BY <1>2 DEF Held
<1>22. (g + 1) + (a - 1) + b = g + a + b
  OBVIOUS
<1>23. Len(got') = g + 1 /\ Len(answers') = a - 1 /\ Len(batch') = b /\ Len(asked') = n
  BY <1>2, <1>4, <1>6, <1>14, <1>17, <1>18
<1>24. /\ Len(got') + Len(answers') + Len(batch') <= Len(asked')
       /\ Held' = Len(got') + Len(answers') + Len(batch') + 1 .. Len(asked')
  BY <1>9, <1>21, <1>22, <1>23
<1>25. \A i \in 1 .. Len(got') : got'[i] = i
  BY <1>17, <1>19, <1>23
<1>26. \A i \in 1 .. Len(answers') : answers'[i].complete /\ answers'[i].order = Len(got') + i
  BY <1>17, <1>20, <1>23
<1>27. deferred' = {} /\ pc' \notin Sending /\ Len(batch') = 0
  BY <1>2, <1>6, <1>10, <1>23 DEF Sending
<1>28. QED
  BY <1>24, <1>25, <1>26, <1>27 DEF Placed

LEMMA PlacedKept ==
    ASSUME Typed, Shape, Apart, AnswersApart, OrderInv, Placed, Next
    PROVE  Placed'
<1>1. Len(asked) \in Nat
  BY LenProperties DEF Typed
<1>2. CASE Talks
  <2>1. /\ UNCHANGED <<alive, got, answers, batch, asked, deferred>>
        /\ pc' # "ended" => pc # "ended"
        /\ pc' = pc \/ pc' \in Early \cup {"reading"}
    BY <1>2 DEF Talks, Early
  <2>2. (pc' \in Sending => pc \in Sending) /\ (pc' = "answering" => pc = "answering")
    BY <2>1 DEF Sending, Early
  <2>3. AsASeedHolds' => AsASeedHolds
    BY <2>1 DEF AsASeedHolds
  <2>4. QED
    BY <2>1, <2>2, <2>3, PlacedStays
<1>3. CASE Ends
  <2>1. UNCHANGED <<alive, got, answers, batch, asked>> /\ pc' = "ended"
    BY <1>3 DEF Ends
  <2>2. AsASeedHolds' => AsASeedHolds
    BY <2>1 DEF AsASeedHolds
  <2>3. QED
    BY <2>1, <2>2, PlacedStays
<1>4. CASE Cuts
  <2>1. UNCHANGED <<alive, got, answers, batch>> /\ pc' = "ended"
    BY <1>4 DEF Cuts
  <2>2. AsASeedHolds' => AsASeedHolds
    BY <1>4, SeedHeld DEF Cuts, Typed
  <2>3. QED
    BY <2>1, <2>2, PlacedStays
<1>5. CASE Quit \/ Execute
  <2>1. UNCHANGED <<alive, got, answers, batch, asked, deferred, pc>>
    BY <1>5 DEF Quit, Execute, loop, exchanged
  <2>2. AsASeedHolds' => AsASeedHolds
    BY <2>1 DEF AsASeedHolds
  <2>3. QED
    BY <2>1, <2>2, PlacedStays
<1>6. CASE Write
  <2>1. /\ UNCHANGED <<alive, got, answers, batch, asked, deferred>>
        /\ pc = "forwarding" /\ pc' = "awaiting"
    BY <1>6, Written
  <2>2. AsASeedHolds' => AsASeedHolds
    BY <2>1 DEF AsASeedHolds
  <2>3. pc \in Sending /\ pc # "ended" /\ pc' # "answering"
    BY <2>1 DEF Sending
  <2>4. QED
    BY <2>1, <2>2, <2>3, PlacedStays
<1>7. DeferredWait
  BY DEF OrderInv
<1>8. QED
  BY <1>1, <1>2, <1>3, <1>4, <1>5, <1>6, <1>7, StepCases, PlacedAtDefer, PlacedAtRelease,
     PlacedAtEmpty, PlacedAtAnswer, PlacedAtPass DEF Reads

-----------------------------------------------------------------------------
\* The invariant holds in every state.

LEMMA PostgresInvStarts ==
    ASSUME Init
    PROVE  PostgresInv
<1>1. Typed
  BY TypedStarts
<1>2. /\ session = "idle" /\ wire = "none" /\ pc = "accepted" /\ outcome = "none"
      /\ deferred = {} /\ batch = <<>> /\ last = FALSE /\ answers = <<>> /\ alive = TRUE
      /\ got = <<>> /\ errored = FALSE /\ reported = FALSE /\ asked = <<>> /\ written = <<>>
      /\ ran = <<>> /\ causes = {} /\ voided = FALSE /\ lost = FALSE
  BY DEF Init
<1>3. /\ Len(batch) = 0 /\ Len(answers) = 0 /\ Len(asked) = 0 /\ Len(written) = 0
      /\ Len(got) = 0 /\ Len(ran) = 0
  BY <1>2
<1>4. 1 .. 0 = {}
  OBVIOUS
<1>5. /\ Among(batch) = {} /\ Among(asked) = {} /\ Among(written) = {} /\ Among(got) = {}
      /\ Among(ran) = {}
  BY <1>3, <1>4 DEF Among
<1>6. Numbers(answers) = <<>>
  BY <1>3 DEF Numbers
<1>7. Len(Numbers(answers)) = 0 /\ Among(Numbers(answers)) = {}
  BY <1>4, <1>6 DEF Among
<1>8. Held = {}
  BY <1>2 DEF Held, Orders
<1>9. Shape
  <2>1. MaxGroups \in Nat
    BY BoundsAssumption
  <2>2. QED
    BY <1>2, <1>3, <2>1 DEF Shape, Early, Sending, Requests
<1>10. TransactionIsKnown /\ CommitReportsAreRight
  BY <1>2 DEF TransactionIsKnown, CommitReportsAreRight
<1>11. Apart
  <2>1. Once(written) /\ Once(ran) /\ Once(batch)
    BY <1>3, <1>4 DEF Once
  <2>2. wire \notin Requests
    BY <1>2 DEF Requests
  <2>3. QED
    BY <1>2, <1>5, <1>8, <2>1, <2>2 DEF Apart
<1>12. AnswersApart
  <2>1. Once(Numbers(answers))
    BY <1>4, <1>7 DEF Once
  <2>2. QED
    BY <1>5, <1>7, <2>1 DEF AnswersApart
<1>13. AllPlaced /\ AllRan
  BY <1>2, <1>3, <1>4, <1>5 DEF AllPlaced, AllRan
<1>14. OrderInv
  <2>1. WrittenInOrder
    BY <1>3, <1>4 DEF WrittenInOrder
  <2>2. DeferredWait
    BY <1>2 DEF DeferredWait
  <2>3. BatchInOrder
    BY <1>3, <1>4, <1>5 DEF BatchInOrder
  <2>4. QED
    BY <2>1, <2>2, <2>3 DEF OrderInv
<1>15. Placed
  <2>1. 0 + 0 + 0 = 0 /\ 0 + 0 + 0 + 1 .. 0 = {}
    OBVIOUS
  <2>2. QED
    BY <1>2, <1>3, <1>4, <1>8, <2>1 DEF Placed
<1>16. QED
  BY <1>1, <1>9, <1>10, <1>11, <1>12, <1>13, <1>14, <1>15 DEF PostgresInv

LEMMA PostgresInvKept ==
    ASSUME PostgresInv, [Next]_vars
    PROVE  PostgresInv'
<1>1. CASE Next
  <2>1. Typed'
    BY <1>1, TypedKept DEF PostgresInv
  <2>2. Shape'
    BY <1>1, ShapeKept DEF PostgresInv
  <2>3. TransactionIsKnown' /\ CommitReportsAreRight'
    BY <1>1, VerdictKept DEF PostgresInv
  <2>4. Apart'
    BY <1>1, ApartKept DEF PostgresInv
  <2>5. AnswersApart'
    BY <1>1, AnswersKept DEF PostgresInv
  <2>6. AllPlaced'
    BY <1>1, PlacesKept DEF PostgresInv
  <2>7. AllRan'
    BY <1>1, AllRanKept DEF PostgresInv
  <2>8. OrderInv'
    BY <1>1, OrderKept DEF PostgresInv
  <2>9. Placed'
    BY <1>1, PlacedKept DEF PostgresInv
  <2>10. QED
    BY <2>1, <2>2, <2>3, <2>4, <2>5, <2>6, <2>7, <2>8, <2>9 DEF PostgresInv
<1>2. CASE UNCHANGED vars
  <2>1. /\ UNCHANGED <<session, wire, pc, deferred, batch, last, outcome, answers, alive>>
        /\ UNCHANGED <<got, errored, reported, asked, written, ran, causes, voided, lost>>
    BY <1>2 DEF vars, server, loop, exchanged, checker, history
  <2>2. Typed' /\ Shape' /\ TransactionIsKnown' /\ CommitReportsAreRight'
    BY <2>1 DEF PostgresInv, Typed, Shape, TransactionIsKnown, CommitReportsAreRight
  <2>3. Held' = Held /\ AtServer' = AtServer
    BY <2>1 DEF Held, AtServer
  <2>4. Apart' /\ AnswersApart' /\ AllPlaced' /\ AllRan'
    BY <2>1, <2>3 DEF PostgresInv, Apart, AnswersApart, AllPlaced, AllRan
  <2>5. OrderInv'
    BY <2>1 DEF PostgresInv, OrderInv, WrittenInOrder, DeferredWait, BatchInOrder
  <2>6. Placed'
    BY <2>1, <2>3 DEF PostgresInv, Placed, AsASeedHolds
  <2>7. QED
    BY <2>2, <2>4, <2>5, <2>6 DEF PostgresInv
<1>3. QED
  BY <1>1, <1>2

LEMMA Invariant == Spec => []PostgresInv
<1>1. Init => PostgresInv
  BY PostgresInvStarts
<1>2. PostgresInv /\ [Next]_vars => PostgresInv'
  BY PostgresInvKept
<1>3. QED
  BY <1>1, <1>2, PTL DEF Spec

LEMMA ListTyped ==
    ASSUME PostgresInv, NEW list \in Seq(Nat), Among(list) \subseteq 1 .. Len(asked)
    PROVE  list \in Seq(Groups)
<1>1. PICK n \in Nat : n = Len(list)
  BY LenProperties
<1>2. Len(asked) \in Nat /\ Len(asked) <= MaxGroups /\ MaxGroups \in Nat
  BY BoundsAssumption, LenProperties DEF PostgresInv, Typed, Shape
<1>3. 1 .. Len(asked) \subseteq Groups
  BY <1>2 DEF Groups
<1>4. \A i \in 1 .. n : list[i] \in Groups
  BY <1>1, <1>3 DEF Among
<1>5. list = [i \in 1 .. n |-> list[i]]
  BY <1>1, LenProperties
<1>6. PICK f \in [1 .. n -> Groups] : f = [i \in 1 .. n |-> list[i]]
  BY <1>4
<1>7. f \in Seq(Groups)
  OBVIOUS
<1>8. QED
  BY <1>5, <1>6, <1>7

LEMMA OnceIsInjective ==
    ASSUME NEW list \in Seq(Nat), Once(list)
    PROVE  IsInjective(list)
<1>1. DOMAIN list = 1 .. Len(list)
  BY LenProperties
<1>2. QED
  BY <1>1 DEF IsInjective, Once

\* The queues and lists of the adapter and of the history hold groups of the
\* client, each once; what is being sent is not deferred, and there is a group
\* to send, or in flight, whenever the adapter is at one.
THEOREM TypeCorrect == Spec => []TypeOK
<1>1. ASSUME PostgresInv
      PROVE  TypeOK
  <2>1. Typed /\ Shape /\ Apart /\ AnswersApart
    BY <1>1 DEF PostgresInv
  <2>2. batch \in Seq(Groups) /\ written \in Seq(Groups)
    BY <1>1, <2>1, ListTyped DEF Typed, Apart
  <2>3. Among(ran) \subseteq 1 .. Len(asked) /\ Among(got) \subseteq 1 .. Len(asked)
    BY <2>1 DEF Apart, AnswersApart
  <2>4. ran \in Seq(Groups) /\ got \in Seq(Groups)
    BY <1>1, <2>1, <2>3, ListTyped DEF Typed
  <2>5. IsInjective(batch) /\ IsInjective(written) /\ IsInjective(ran)
    BY <2>1, OnceIsInjective DEF Typed, Apart
  <2>6. ToSet(batch) = Among(batch)
    BY <2>1, LenProperties DEF Typed, ToSet, Among
  <2>7. Orders(deferred) \cap ToSet(batch) = {}
    BY <2>1, <2>6 DEF Apart, Held
  <2>8. pc \in {"forwarding", "awaiting"} => batch # <<>>
    BY <2>1 DEF Shape, Sending
  <2>9. Len(asked) <= MaxGroups
    BY <2>1 DEF Shape
  <2>10. {batch, got, written, ran} \subseteq Seq(Groups)
    BY <2>2, <2>4
  <2>11. \A list \in {batch, written, ran} : IsInjective(list)
    BY <2>5
  <2>12. /\ session \in {"idle", "active", "failed", "over"}
         /\ wire \in Requests \cup {"none", "nowhere", "answer", "error"}
         /\ pc \in {"accepted", "refused", "starting", "authenticating", "relaying", "reading",
                   "forwarding", "awaiting", "answering", "ended"}
         /\ outcome \in {"none", "ok", "error", "undoable"}
    BY <2>1 DEF Typed, Stages, Early
  <2>13. QED
    BY <2>7, <2>8, <2>9, <2>10, <2>11, <2>12 DEF TypeOK
<1>2. QED
  BY <1>1, Invariant, PTL

-----------------------------------------------------------------------------
\* What a run checks, for every value of the constants.

\* NoCommitAfterError reports a commit that was sent into a transaction the
\* server had failed, and never one that had a transaction to commit.
THEOREM CommitsJudgedRightly == Spec => []CommitReportsAreRight
<1>1. PostgresInv => CommitReportsAreRight
  BY DEF PostgresInv
<1>2. QED
  BY <1>1, Invariant, PTL

\* When serve_connection returns well and nobody cut the session, the server has
\* run every group it read, those deferred to a fork that never came included.
THEOREM NothingGoesUnsent == Spec => []NothingDiscarded
<1>1. ASSUME PostgresInv
      PROVE  NothingDiscarded
  <2>1. SUFFICES ASSUME outcome = "ok", causes = {}
                 PROVE  ToSet(ran) = DOMAIN asked
    BY DEF NothingDiscarded
  <2>2. \A group \in 1 .. Len(asked) : group \in Among(ran)
    BY <1>1, <2>1 DEF PostgresInv, AllRan
  <2>3. Among(ran) \subseteq 1 .. Len(asked)
    BY <1>1 DEF PostgresInv, Apart
  <2>4. DOMAIN asked = 1 .. Len(asked) /\ ToSet(ran) = Among(ran)
    BY <1>1, LenProperties DEF PostgresInv, Typed, ToSet, Among
  <2>5. QED
    BY <2>2, <2>3, <2>4
<1>2. QED
  BY <1>1, Invariant, PTL

\* The groups go upstream where the forks put them: one that was not deferred
\* before every later one, one that was after those its hold lets overtake it.
THEOREM InTheDecidedOrder == Spec => []OrderAsDecided
<1>1. ASSUME PostgresInv
      PROVE  OrderAsDecided
  <2>1. SUFFICES ASSUME NEW group \in ToSet(written), NEW later \in ToSet(written),
                        group < later, Direct(later)
                 PROVE  Place(later) < Place(group) <=>
                            /\ ~Direct(group)
                            /\ \A between \in group + 1 .. later - 1 :
                                   Direct(between) => between < asked[group].until
    BY DEF OrderAsDecided
  <2>2. DOMAIN written = 1 .. Len(written) /\ ToSet(written) = Among(written)
    BY <1>1, LenProperties DEF PostgresInv, Typed, ToSet, Among
  <2>3. group \in 1 .. Len(asked) /\ later \in 1 .. Len(asked)
    BY <1>1, <2>2 DEF PostgresInv, Apart
  <2>4. Place(group) \in 1 .. Len(written) /\ written[Place(group)] = group
    BY <2>2 DEF Place, Among
  <2>5. Place(later) \in 1 .. Len(written) /\ written[Place(later)] = later
    BY <2>2 DEF Place, Among
  <2>6. Len(asked) \in Nat /\ Len(written) \in Nat
    BY <1>1, LenProperties DEF PostgresInv, Typed
  <2>7. Place(group) \in Nat /\ Place(later) \in Nat /\ Place(group) # Place(later)
    BY <2>1, <2>3, <2>4, <2>5, <2>6
  <2>8. Place(later) < Place(group) => InOrder(asked, later, group)
    BY <1>1, <2>4, <2>5 DEF PostgresInv, OrderInv, WrittenInOrder
  <2>9. Place(group) < Place(later) => InOrder(asked, group, later)
    BY <1>1, <2>4, <2>5 DEF PostgresInv, OrderInv, WrittenInOrder
  <2>10. Goes(asked[later])
    BY <2>1 DEF Goes, Direct
  <2>11. later > group
    BY <2>1, <2>3, <2>6
  <2>12. Place(later) < Place(group) <=> Waits(asked, group, later)
    BY <2>1, <2>7, <2>8, <2>9, <2>10, <2>11 DEF InOrder
  <2>13. QED
    BY <2>12 DEF Waits, Goes, Direct
<1>2. QED
  BY <1>1, Invariant, PTL

\* While the session lives and each hold is one fork long, exchange hands the
\* client the answers in the order it asked: the n-th is its n-th group's.
THEOREM AnswersFollowPositions == Spec => []AnswersMatchPositions
<1>1. ASSUME PostgresInv
      PROVE  AnswersMatchPositions
  <2>1. DOMAIN got = 1 .. Len(got)
    BY <1>1, LenProperties DEF PostgresInv, Typed
  <2>2. QED
    BY <1>1, <2>1 DEF PostgresInv, Placed, AnswersMatchPositions
<1>2. QED
  BY <1>1, Invariant, PTL

LEMMA IntervalSize ==
    ASSUME NEW n \in Nat
    PROVE  IsFiniteSet(1 .. n) /\ Cardinality(1 .. n) = n
<1>1. n \in Int /\ 1 \in Int
  OBVIOUS
<1>2. IsFiniteSet(1 .. n) /\ Cardinality(1 .. n) = IF 1 > n THEN 0 ELSE n - 1 + 1
  BY <1>1, FS_Interval
<1>3. QED
  BY <1>2

LEMMA MaxIs ==
    ASSUME NEW n \in Nat, NEW set \in SUBSET (1 .. n), set # {}
    PROVE  Max(set) \in set /\ \A x \in set : x <= Max(set)
<1>1. PICK short : short = {n - x : x \in set}
  OBVIOUS
<1>2. short \in SUBSET Nat /\ short # {}
  <2>1. \A x \in set : n - x \in Nat
    OBVIOUS
  <2>2. QED
    BY <1>1, <2>1
<1>3. PICK m \in short : \A y \in short : m <= y
  BY <1>2, LeastExists
<1>4. PICK x \in set : m = n - x
  BY <1>1, <1>3
<1>5. \A y \in set : x >= y
  <2>1. \A y \in set : m <= n - y
    BY <1>1, <1>3
  <2>2. QED
    BY <1>4, <2>1
<1>6. \E y \in set : \A z \in set : y >= z
  BY <1>5
<1>7. Max(set) \in set /\ \A y \in set : Max(set) >= y
  BY <1>6 DEF Max
<1>8. QED
  BY <1>7

LEMMA MinIs ==
    ASSUME NEW set \in SUBSET Nat, set # {}
    PROVE  Min(set) \in set /\ \A x \in set : Min(set) <= x
<1>1. \E m \in set : \A x \in set : m =< x
  BY LeastExists
<1>2. QED
  BY <1>1 DEF Min

\* What the folds make of each set of places.
FoldsLearnt(g, sets, base, list) ==
    g = [s \in sets |-> IF s = {} THEN base ELSE Learn(g[s \ {Max(s)}], list[Max(s)])]
FoldsRead(g, sets, base, list, follower) ==
    g = [s \in sets |->
            IF s = {} THEN base ELSE ReadNext(g[s \ {Max(s)}], list[Max(s)], follower)]

LearntAll(base, list) == FoldLeft(Learn, base, list)
ReadFrom(base, list, follower) ==
    FoldLeft(LAMBDA soFar, group : ReadNext(soFar, group, follower), base, list)

\* One after another.
LearnSteps(base, list, n) ==
    \E f : /\ f[0] = base /\ LearntAll(base, list) = f[n]
           /\ \A k \in 1 .. n : f[k] = Learn(f[k - 1], list[k])
ReadSteps(base, list, follower, n) ==
    \E f : /\ f[0] = base /\ ReadFrom(base, list, follower) = f[n]
           /\ \A k \in 1 .. n : f[k] = ReadNext(f[k - 1], list[k], follower)

LEMMA LearnFolds ==
    ASSUME NEW n \in Nat, NEW list, DOMAIN list = 1 .. n, NEW base
    PROVE  LearnSteps(base, list, n)
<1> DEFINE Small(m) == {s \in SUBSET (1 .. n) : Cardinality(s) <= m}
<1>1. \A s \in SUBSET (1 .. n) : IsFiniteSet(s) /\ Cardinality(s) \in Nat /\ Cardinality(s) <= n
  <2>1. PICK all : all = 1 .. n
    OBVIOUS
  <2>2. IsFiniteSet(all) /\ Cardinality(all) = n
    BY <2>1, IntervalSize
  <2>3. \A s \in SUBSET all : IsFiniteSet(s) /\ Cardinality(s) <= n
    BY <2>2, FS_Subset
  <2>4. \A s \in SUBSET all : Cardinality(s) \in Nat
    BY <2>3, FS_CardinalityType
  <2>5. QED
    BY <2>1, <2>3, <2>4
<1>2. \A s \in SUBSET (1 .. n) : s # {} =>
          /\ Max(s) \in s /\ s \ {Max(s)} \in SUBSET (1 .. n)
          /\ Cardinality(s \ {Max(s)}) = Cardinality(s) - 1
  BY <1>1, MaxIs, FS_RemoveElement
<1>3. Small(0) = {{}}
  BY <1>1, FS_EmptySet
<1>4. \E g : FoldsLearnt(g, Small(0), base, list)
  <2>1. PICK g : g = [s \in Small(0) |-> base]
    OBVIOUS
  <2>2. g = [s \in Small(0) |-> IF s = {} THEN base ELSE Learn(g[s \ {Max(s)}], list[Max(s)])]
    BY <1>3, <2>1
  <2>3. QED
    BY <2>2 DEF FoldsLearnt
<1>5. ASSUME NEW m \in Nat, NEW g, FoldsLearnt(g, Small(m), base, list)
      PROVE  \E h : FoldsLearnt(h, Small(m + 1), base, list)
  <2>1. PICK h : h = [s \in Small(m + 1) |->
                         IF s = {} THEN base ELSE Learn(g[s \ {Max(s)}], list[Max(s)])]
    OBVIOUS
  <2>2. \A s \in Small(m) : s \in Small(m + 1) /\ h[s] = g[s]
    <3>1. \A s \in Small(m) : s \in Small(m + 1)
      BY <1>1
    <3>2. \A s \in Small(m) :
              g[s] = IF s = {} THEN base ELSE Learn(g[s \ {Max(s)}], list[Max(s)])
      BY <1>5 DEF FoldsLearnt
    <3>3. \A s \in Small(m + 1) :
              h[s] = IF s = {} THEN base ELSE Learn(g[s \ {Max(s)}], list[Max(s)])
      BY <2>1
    <3>4. QED
      BY <3>1, <3>2, <3>3
  <2>3. ASSUME NEW s \in Small(m + 1), s # {}
        PROVE  s \ {Max(s)} \in Small(m)
    <3>1. PICK rest : rest = s \ {Max(s)}
      OBVIOUS
    <3>2. rest \in SUBSET (1 .. n) /\ Cardinality(rest) = Cardinality(s) - 1
      BY <1>2, <2>3, <3>1
    <3>3. Cardinality(s) \in Nat /\ Cardinality(s) <= m + 1
      BY <1>1
    <3>4. Cardinality(rest) <= m
      BY <3>2, <3>3
    <3>5. QED
      BY <3>1, <3>2, <3>4
  <2>4. h = [s \in Small(m + 1) |->
                IF s = {} THEN base ELSE Learn(h[s \ {Max(s)}], list[Max(s)])]
    BY <2>1, <2>2, <2>3
  <2>5. QED
    BY <2>4 DEF FoldsLearnt
<1>6. \A m \in Nat : \E g : FoldsLearnt(g, Small(m), base, list)
  <2>1. SUFFICES ASSUME \E m \in Nat : ~ \E g : FoldsLearnt(g, Small(m), base, list) PROVE FALSE
    OBVIOUS
  <2>2. PICK bad : bad = {m \in Nat : ~ \E g : FoldsLearnt(g, Small(m), base, list)}
    OBVIOUS
  <2>3. bad \in SUBSET Nat /\ bad # {}
    BY <2>1, <2>2
  <2>4. PICK m \in bad : \A k \in bad : m <= k
    BY <2>3, LeastExists
  <2>5. m \in Nat /\ m # 0
    BY <1>4, <2>2
  <2>6. PICK k \in Nat : m = k + 1
    BY <2>5
  <2>7. k \notin bad
    BY <2>4, <2>6
  <2>8. \E g : FoldsLearnt(g, Small(k), base, list)
    BY <2>2, <2>7
  <2>9. QED
    BY <1>5, <2>2, <2>6, <2>8
<1>7. Small(n) = SUBSET (1 .. n)
  BY <1>1
<1>8. PICK iter : /\ iter = CHOOSE g : FoldsLearnt(g, SUBSET (1 .. n), base, list)
                  /\ FoldsLearnt(iter, SUBSET (1 .. n), base, list)
  BY <1>6, <1>7
<1>9. LearntAll(base, list) = iter[1 .. n]
  BY <1>8 DEF LearntAll, FoldLeft, MapThenFoldSet, FoldsLearnt
<1>10. PICK f : f = [k \in 0 .. n |-> iter[1 .. k]]
  OBVIOUS
<1>11. f[0] = base /\ f[n] = iter[1 .. n]
  <2>1. f[0] = iter[1 .. 0] /\ f[n] = iter[1 .. n]
    BY <1>10
  <2>2. 1 .. 0 = {} /\ {} \in SUBSET (1 .. n)
    OBVIOUS
  <2>3. iter[{}] = base
    BY <1>8, <2>2 DEF FoldsLearnt
  <2>4. QED
    BY <2>1, <2>2, <2>3
<1>12. ASSUME NEW k \in 1 .. n
       PROVE  f[k] = Learn(f[k - 1], list[k])
  <2>1. 1 .. k \in SUBSET (1 .. n) /\ 1 .. k # {} /\ k \in 1 .. k
    <3>1. k \in Nat /\ 1 <= k /\ k <= n
      OBVIOUS
    <3>2. \A i \in 1 .. k : i \in 1 .. n
      BY <3>1
    <3>3. k \in 1 .. k
      BY <3>1
    <3>4. QED
      BY <3>2, <3>3
  <2>2. Max(1 .. k) = k
    <3>1. PICK m : m = Max(1 .. k) /\ m \in 1 .. k /\ k <= m
      BY <2>1, MaxIs
    <3>2. QED
      BY <3>1
  <2>3. (1 .. k) \ {k} = 1 .. k - 1
    OBVIOUS
  <2>4. iter[1 .. k] = Learn(iter[1 .. k - 1], list[k])
    BY <1>8, <2>1, <2>2, <2>3 DEF FoldsLearnt
  <2>5. QED
    BY <1>10, <2>4
<1>13. QED
  BY <1>9, <1>11, <1>12 DEF LearnSteps

LEMMA ReadFolds ==
    ASSUME NEW n \in Nat, NEW list, DOMAIN list = 1 .. n, NEW base, NEW follower
    PROVE  ReadSteps(base, list, follower, n)
<1> DEFINE Small(m) == {s \in SUBSET (1 .. n) : Cardinality(s) <= m}
<1>1. \A s \in SUBSET (1 .. n) : IsFiniteSet(s) /\ Cardinality(s) \in Nat /\ Cardinality(s) <= n
  <2>1. PICK all : all = 1 .. n
    OBVIOUS
  <2>2. IsFiniteSet(all) /\ Cardinality(all) = n
    BY <2>1, IntervalSize
  <2>3. \A s \in SUBSET all : IsFiniteSet(s) /\ Cardinality(s) <= n
    BY <2>2, FS_Subset
  <2>4. \A s \in SUBSET all : Cardinality(s) \in Nat
    BY <2>3, FS_CardinalityType
  <2>5. QED
    BY <2>1, <2>3, <2>4
<1>2. \A s \in SUBSET (1 .. n) : s # {} =>
          /\ Max(s) \in s /\ s \ {Max(s)} \in SUBSET (1 .. n)
          /\ Cardinality(s \ {Max(s)}) = Cardinality(s) - 1
  BY <1>1, MaxIs, FS_RemoveElement
<1>3. Small(0) = {{}}
  BY <1>1, FS_EmptySet
<1>4. \E g : FoldsRead(g, Small(0), base, list, follower)
  <2>1. PICK g : g = [s \in Small(0) |-> base]
    OBVIOUS
  <2>2. g = [s \in Small(0) |-> IF s = {} THEN base ELSE ReadNext(g[s \ {Max(s)}], list[Max(s)], follower)]
    BY <1>3, <2>1
  <2>3. QED
    BY <2>2 DEF FoldsRead
<1>5. ASSUME NEW m \in Nat, NEW g, FoldsRead(g, Small(m), base, list, follower)
      PROVE  \E h : FoldsRead(h, Small(m + 1), base, list, follower)
  <2>1. PICK h : h = [s \in Small(m + 1) |->
                         IF s = {} THEN base ELSE ReadNext(g[s \ {Max(s)}], list[Max(s)], follower)]
    OBVIOUS
  <2>2. \A s \in Small(m) : s \in Small(m + 1) /\ h[s] = g[s]
    <3>1. \A s \in Small(m) : s \in Small(m + 1)
      BY <1>1
    <3>2. \A s \in Small(m) :
              g[s] = IF s = {} THEN base ELSE ReadNext(g[s \ {Max(s)}], list[Max(s)], follower)
      BY <1>5 DEF FoldsRead
    <3>3. \A s \in Small(m + 1) :
              h[s] = IF s = {} THEN base ELSE ReadNext(g[s \ {Max(s)}], list[Max(s)], follower)
      BY <2>1
    <3>4. QED
      BY <3>1, <3>2, <3>3
  <2>3. ASSUME NEW s \in Small(m + 1), s # {}
        PROVE  s \ {Max(s)} \in Small(m)
    <3>1. PICK rest : rest = s \ {Max(s)}
      OBVIOUS
    <3>2. rest \in SUBSET (1 .. n) /\ Cardinality(rest) = Cardinality(s) - 1
      BY <1>2, <2>3, <3>1
    <3>3. Cardinality(s) \in Nat /\ Cardinality(s) <= m + 1
      BY <1>1
    <3>4. Cardinality(rest) <= m
      BY <3>2, <3>3
    <3>5. QED
      BY <3>1, <3>2, <3>4
  <2>4. h = [s \in Small(m + 1) |->
                IF s = {} THEN base ELSE ReadNext(h[s \ {Max(s)}], list[Max(s)], follower)]
    BY <2>1, <2>2, <2>3
  <2>5. QED
    BY <2>4 DEF FoldsRead
<1>6. \A m \in Nat : \E g : FoldsRead(g, Small(m), base, list, follower)
  <2>1. SUFFICES ASSUME \E m \in Nat : ~ \E g : FoldsRead(g, Small(m), base, list, follower) PROVE FALSE
    OBVIOUS
  <2>2. PICK bad : bad = {m \in Nat : ~ \E g : FoldsRead(g, Small(m), base, list, follower)}
    OBVIOUS
  <2>3. bad \in SUBSET Nat /\ bad # {}
    BY <2>1, <2>2
  <2>4. PICK m \in bad : \A k \in bad : m <= k
    BY <2>3, LeastExists
  <2>5. m \in Nat /\ m # 0
    BY <1>4, <2>2
  <2>6. PICK k \in Nat : m = k + 1
    BY <2>5
  <2>7. k \notin bad
    BY <2>4, <2>6
  <2>8. \E g : FoldsRead(g, Small(k), base, list, follower)
    BY <2>2, <2>7
  <2>9. QED
    BY <1>5, <2>2, <2>6, <2>8
<1>7. Small(n) = SUBSET (1 .. n)
  BY <1>1
<1>8. PICK iter : /\ iter = CHOOSE g : FoldsRead(g, SUBSET (1 .. n), base, list, follower)
                  /\ FoldsRead(iter, SUBSET (1 .. n), base, list, follower)
  BY <1>6, <1>7
<1>9. ReadFrom(base, list, follower) = iter[1 .. n]
  BY <1>8 DEF ReadFrom, FoldLeft, MapThenFoldSet, FoldsRead
<1>10. PICK f : f = [k \in 0 .. n |-> iter[1 .. k]]
  OBVIOUS
<1>11. f[0] = base /\ f[n] = iter[1 .. n]
  <2>1. f[0] = iter[1 .. 0] /\ f[n] = iter[1 .. n]
    BY <1>10
  <2>2. 1 .. 0 = {} /\ {} \in SUBSET (1 .. n)
    OBVIOUS
  <2>3. iter[{}] = base
    BY <1>8, <2>2 DEF FoldsRead
  <2>4. QED
    BY <2>1, <2>2, <2>3
<1>12. ASSUME NEW k \in 1 .. n
       PROVE  f[k] = ReadNext(f[k - 1], list[k], follower)
  <2>1. 1 .. k \in SUBSET (1 .. n) /\ 1 .. k # {} /\ k \in 1 .. k
    <3>1. k \in Nat /\ 1 <= k /\ k <= n
      OBVIOUS
    <3>2. \A i \in 1 .. k : i \in 1 .. n
      BY <3>1
    <3>3. k \in 1 .. k
      BY <3>1
    <3>4. QED
      BY <3>2, <3>3
  <2>2. Max(1 .. k) = k
    <3>1. PICK m : m = Max(1 .. k) /\ m \in 1 .. k /\ k <= m
      BY <2>1, MaxIs
    <3>2. QED
      BY <3>1
  <2>3. (1 .. k) \ {k} = 1 .. k - 1
    OBVIOUS
  <2>4. iter[1 .. k] = ReadNext(iter[1 .. k - 1], list[k], follower)
    BY <1>8, <2>1, <2>2, <2>3 DEF FoldsRead
  <2>5. QED
    BY <1>10, <2>4
<1>13. QED
  BY <1>9, <1>11, <1>12 DEF ReadSteps

\* What is known of a session and its group, part by part.
Knowledge(prepared, portals, sql) == [prepared |-> prepared, portals |-> portals, sql |-> sql]

\* What a message adds to it, kind by kind.
LearnsRightly(m, a, b, c) ==
    /\ m.token = "Q" => Learn(Knowledge(a, b, c), m) = Knowledge(a, b, Just(m.sql))
    /\ m.token = "P" => Learn(Knowledge(a, b, c), m) =
                            Knowledge(Remember(a, m.name, m.sql), b, Or(c, Just(m.sql)))
    /\ m.token = "B" /\ m.name \in DOMAIN a =>
           Learn(Knowledge(a, b, c), m) =
               Knowledge(a, Remember(b, m.portal, a[m.name]), Or(c, Just(a[m.name])))
    /\ m.token = "E" /\ m.portal \in DOMAIN b =>
           Learn(Knowledge(a, b, c), m) = Knowledge(a, b, Or(c, Just(b[m.portal])))
    /\ m.token = "C" /\ m.kind = "statement" =>
           Learn(Knowledge(a, b, c), m) = Knowledge(Forget(a, m.name), b, c)
    /\ m.token = "C" /\ m.kind = "portal" =>
           Learn(Knowledge(a, b, c), m) = Knowledge(a, Forget(b, m.name), c)
    /\ m.token = "C" /\ m.kind \notin {"statement", "portal"} =>
           Learn(Knowledge(a, b, c), m) = Knowledge(a, b, c)
    /\ m.token \notin {"Q", "P", "B", "E", "C"} =>
           Learn(Knowledge(a, b, c), m) = Knowledge(a, b, c)

LEMMA LearnMeans ==
    ASSUME NEW m, NEW a, NEW b, NEW c
    PROVE  LearnsRightly(m, a, b, c)
<1> DEFINE known == Knowledge(a, b, c)
<1>1. known.prepared = a /\ known.portals = b /\ known.sql = c
  BY DEF Knowledge
<1>2. ASSUME NEW x
      PROVE  /\ [known EXCEPT !.sql = x] = Knowledge(a, b, x)
             /\ [known EXCEPT !.prepared = x] = Knowledge(x, b, c)
             /\ [known EXCEPT !.portals = x] = Knowledge(a, x, c)
  BY DEF Knowledge
<1>3. ASSUME NEW x, NEW y
      PROVE  /\ [known EXCEPT !.sql = x, !.prepared = y] = Knowledge(y, b, x)
             /\ [known EXCEPT !.sql = x, !.portals = y] = Knowledge(a, y, x)
  <2>1. /\ [known EXCEPT !.sql = x, !.prepared = y] = [Knowledge(a, b, x) EXCEPT !.prepared = y]
        /\ [known EXCEPT !.sql = x, !.portals = y] = [Knowledge(a, b, x) EXCEPT !.portals = y]
    BY <1>2
  <2>2. /\ [Knowledge(a, b, x) EXCEPT !.prepared = y] = Knowledge(y, b, x)
        /\ [Knowledge(a, b, x) EXCEPT !.portals = y] = Knowledge(a, y, x)
    BY DEF Knowledge
  <2>3. QED
    BY <2>1, <2>2
<1>. HIDE DEF known
<1>4. m.token = "Q" => Learn(known, m) = Knowledge(a, b, Just(m.sql))
  BY <1>2 DEF Learn
<1>5. m.token = "P" => Learn(known, m) =
                            Knowledge(Remember(a, m.name, m.sql), b, Or(c, Just(m.sql)))
  BY <1>1, <1>3 DEF Learn
<1>6. m.token = "B" /\ m.name \in DOMAIN a =>
           Learn(known, m) =
               Knowledge(a, Remember(b, m.portal, a[m.name]), Or(c, Just(a[m.name])))
  BY <1>1, <1>3 DEF Learn
<1>7. m.token = "E" /\ m.portal \in DOMAIN b =>
           Learn(known, m) = Knowledge(a, b, Or(c, Just(b[m.portal])))
  BY <1>1, <1>2 DEF Learn
<1>8. m.token = "C" /\ m.kind = "statement" =>
           Learn(known, m) = Knowledge(Forget(a, m.name), b, c)
  BY <1>1, <1>2 DEF Learn
<1>9. m.token = "C" /\ m.kind = "portal" =>
           Learn(known, m) = Knowledge(a, Forget(b, m.name), c)
  BY <1>1, <1>2 DEF Learn
<1>10. /\ m.token = "C" /\ m.kind \notin {"statement", "portal"} => Learn(known, m) = known
       /\ m.token \notin {"Q", "P", "B", "E", "C"} => Learn(known, m) = known
  BY DEF Learn
<1>11. QED
  BY <1>4, <1>5, <1>6, <1>7, <1>8, <1>9, <1>10 DEF LearnsRightly, known

-----------------------------------------------------------------------------
\* Names.

LEMMA TopIs ==
    ASSUME NEW i \in Nat \ {0}, NEW set \in SUBSET (1 .. i - 1)
    PROVE  Max(set \cup {i}) = i
<1>1. set \cup {i} \in SUBSET (1 .. i) /\ set \cup {i} # {}
  OBVIOUS
<1>2. PICK top : top = Max(set \cup {i})
  OBVIOUS
<1>3. top \in set \cup {i} /\ i <= top
  BY <1>1, <1>2, MaxIs
<1>4. top = i
  BY <1>3
<1>5. QED
  BY <1>2, <1>4

\* A message that is about a name is the last that is, and no other changes what is.
Opens(m, name) == m.token = "P" /\ m.name = name
Shuts(m, kind, name) == m.token = "C" /\ m.kind = kind /\ m.name = name
Binds(m, portal) == m.token = "B" /\ m.portal = portal
StatementMoved(messages, i, name) ==
    IF Opens(messages[i], name) \/ Shuts(messages[i], "statement", name)
    THEN /\ Statement(messages, i + 1, name) # {}
         /\ Max(Statement(messages, i + 1, name)) = i
    ELSE Statement(messages, i + 1, name) = Statement(messages, i, name)
PortalMoved(messages, i, name) ==
    IF Binds(messages[i], name) \/ Shuts(messages[i], "portal", name)
    THEN /\ Portal(messages, i + 1, name) # {}
         /\ Max(Portal(messages, i + 1, name)) = i
    ELSE Portal(messages, i + 1, name) = Portal(messages, i, name)

LEMMA NamesMove ==
    ASSUME NEW messages, NEW i \in Nat \ {0}, NEW name
    PROVE  StatementMoved(messages, i, name) /\ PortalMoved(messages, i, name)
<1>0. 1 .. i + 1 - 1 = (1 .. i - 1) \cup {i}
  OBVIOUS
<1>1. /\ Statement(messages, i, name) \in SUBSET (1 .. i - 1)
      /\ Portal(messages, i, name) \in SUBSET (1 .. i - 1)
  BY DEF Statement, Portal
<1>2. Statement(messages, i + 1, name) =
          IF Opens(messages[i], name) \/ Shuts(messages[i], "statement", name)
          THEN Statement(messages, i, name) \cup {i} ELSE Statement(messages, i, name)
  BY <1>0 DEF Statement, Opens, Shuts
<1>3. Portal(messages, i + 1, name) =
          IF Binds(messages[i], name) \/ Shuts(messages[i], "portal", name)
          THEN Portal(messages, i, name) \cup {i} ELSE Portal(messages, i, name)
  BY <1>0 DEF Portal, Binds, Shuts
<1>4. /\ Max(Statement(messages, i, name) \cup {i}) = i
      /\ Max(Portal(messages, i, name) \cup {i}) = i
  BY <1>1, TopIs
<1>5. QED
  BY <1>2, <1>3, <1>4 DEF StatementMoved, PortalMoved

\* What a session knows of its names after some messages, if they are all among
\* some names.
OpenStatements(messages, i, names) ==
    {n \in names : IsOpen(messages, Statement(messages, i + 1, n))}
OpenPortals(messages, i, names) == {n \in names : IsOpen(messages, Portal(messages, i + 1, n))}
PreparedAre(messages, i, map, names) ==
    /\ DOMAIN map = OpenStatements(messages, i, names)
    /\ \A n \in DOMAIN map : map[n] = messages[Max(Statement(messages, i + 1, n))].sql
PortalsAre(messages, i, map, names) ==
    /\ DOMAIN map = OpenPortals(messages, i, names)
    /\ \A n \in DOMAIN map : map[n] = BoundBy(messages, Max(Portal(messages, i + 1, n)))

Named(messages, names) ==
    \A i \in DOMAIN messages :
        /\ messages[i].token \in {"P", "B"} => messages[i].name \in names
        /\ messages[i].token \in {"B", "E"} => messages[i].portal \in names

\* What the lemmas take a list of messages to be.
Served(messages, names) ==
    /\ IsFiniteSet(names) /\ Named(messages, names)
    /\ Legal(messages) /\ HasRoom(messages, names)

\* There is room for a name that will be open.
LEMMA Remembers ==
    ASSUME NEW map, NEW names, IsFiniteSet(names), NEW name, NEW sql,
           MaxPrepared \in Nat,
           NEW next \in SUBSET names, DOMAIN map \cup {name} = next,
           Cardinality(next) <= MaxPrepared
    PROVE  Remember(map, name, sql) =
               [n \in next |-> IF n = name THEN sql ELSE map[n]]
<1>1. PICK old : old = DOMAIN map
  OBVIOUS
<1>2. IsFiniteSet(old)
  <2>1. IsFiniteSet(next)
    BY FS_Subset
  <2>2. old \subseteq next
    BY <1>1
  <2>3. QED
    BY <2>1, <2>2, FS_Subset
<1>3. name \notin old => Cardinality(next) = Cardinality(old) + 1
  <2>1. next = old \cup {name}
    BY <1>1
  <2>2. QED
    BY <1>2, <2>1, FS_AddElement
<1>4. Cardinality(old) \in Nat
  BY <1>2, FS_CardinalityType
<1>5. ~(Cardinality(old) >= MaxPrepared /\ name \notin old)
  BY <1>3, <1>4
<1>6. QED
  BY <1>1, <1>5 DEF Remember

LEMMA RoomFor ==
    ASSUME NEW messages, NEW names, HasRoom(messages, names), Len(messages) \in Nat,
           NEW i \in 1 .. Len(messages)
    PROVE  /\ Cardinality(OpenStatements(messages, i, names)) <= MaxPrepared
           /\ Cardinality(OpenPortals(messages, i, names)) <= MaxPrepared
<1>1. i + 1 \in 1 .. Len(messages) + 1
  OBVIOUS
<1>2. QED
  BY <1>1 DEF HasRoom, Quantify, OpenStatements, OpenPortals

LEMMA OpenNext ==
    ASSUME NEW messages, NEW names, NEW i \in Nat \ {0}, NEW n \in names
    PROVE  /\ n \in OpenStatements(messages, i, names) <=>
                  \/ Opens(messages[i], n)
                  \/ ~Shuts(messages[i], "statement", n)
                     /\ n \in OpenStatements(messages, i - 1, names)
           /\ n \in OpenPortals(messages, i, names) <=>
                  \/ Binds(messages[i], n)
                  \/ ~Shuts(messages[i], "portal", n)
                     /\ n \in OpenPortals(messages, i - 1, names)
<1>1. i - 1 + 1 = i
  OBVIOUS
<1>2. StatementMoved(messages, i, n) /\ PortalMoved(messages, i, n)
  BY NamesMove
<1>3. /\ n \in OpenStatements(messages, i - 1, names) <=> IsOpen(messages, Statement(messages, i, n))
      /\ n \in OpenPortals(messages, i - 1, names) <=> IsOpen(messages, Portal(messages, i, n))
      /\ n \in OpenStatements(messages, i, names)
             <=> IsOpen(messages, Statement(messages, i + 1, n))
      /\ n \in OpenPortals(messages, i, names) <=> IsOpen(messages, Portal(messages, i + 1, n))
  BY <1>1 DEF OpenStatements, OpenPortals
<1>4. n \in OpenStatements(messages, i, names) <=>
          \/ Opens(messages[i], n)
          \/ ~Shuts(messages[i], "statement", n) /\ n \in OpenStatements(messages, i - 1, names)
  <2>1. CASE Opens(messages[i], n) \/ Shuts(messages[i], "statement", n)
    BY <1>2, <1>3, <2>1 DEF StatementMoved, IsOpen, Opens, Shuts
  <2>2. CASE ~(Opens(messages[i], n) \/ Shuts(messages[i], "statement", n))
    BY <1>2, <1>3, <2>2 DEF StatementMoved
  <2>3. QED
    BY <2>1, <2>2
<1>5. n \in OpenPortals(messages, i, names) <=>
          \/ Binds(messages[i], n)
          \/ ~Shuts(messages[i], "portal", n) /\ n \in OpenPortals(messages, i - 1, names)
  <2>1. CASE Binds(messages[i], n) \/ Shuts(messages[i], "portal", n)
    BY <1>2, <1>3, <2>1 DEF PortalMoved, IsOpen, Binds, Shuts
  <2>2. CASE ~(Binds(messages[i], n) \/ Shuts(messages[i], "portal", n))
    BY <1>2, <1>3, <2>2 DEF PortalMoved
  <2>3. QED
    BY <2>1, <2>2
<1>6. QED
  BY <1>4, <1>5

\* What a map of names must hold after a message, name by name.
LEMMA StatementsFrom ==
    ASSUME NEW messages, NEW names, NEW i \in Nat \ {0}, NEW map, NEW next,
           PreparedAre(messages, i - 1, map, names),
           DOMAIN next = OpenStatements(messages, i, names),
           \A n \in DOMAIN next :
               next[n] = IF Opens(messages[i], n) THEN messages[i].sql ELSE map[n]
    PROVE  PreparedAre(messages, i, next, names)
<1>1. SUFFICES ASSUME NEW n \in DOMAIN next
               PROVE  next[n] = messages[Max(Statement(messages, i + 1, n))].sql
  BY DEF PreparedAre
<1>2. n \in names /\ n \in OpenStatements(messages, i, names)
  BY DEF OpenStatements
<1>3. StatementMoved(messages, i, n)
  BY NamesMove
<1>4. CASE Opens(messages[i], n)
  BY <1>3, <1>4 DEF StatementMoved
<1>5. CASE ~Opens(messages[i], n)
  <2>1. ~Shuts(messages[i], "statement", n) /\ n \in OpenStatements(messages, i - 1, names)
    BY <1>2, <1>5, OpenNext
  <2>2. Statement(messages, i + 1, n) = Statement(messages, i, n)
    BY <1>3, <1>5, <2>1 DEF StatementMoved
  <2>3. i - 1 + 1 = i
    OBVIOUS
  <2>4. map[n] = messages[Max(Statement(messages, i, n))].sql
    BY <2>1, <2>3 DEF PreparedAre
  <2>5. QED
    BY <1>5, <2>2, <2>4
<1>6. QED
  BY <1>4, <1>5

LEMMA PortalsFrom ==
    ASSUME NEW messages, NEW names, NEW i \in Nat \ {0}, NEW map, NEW next,
           PortalsAre(messages, i - 1, map, names),
           DOMAIN next = OpenPortals(messages, i, names),
           \A n \in DOMAIN next :
               next[n] = IF Binds(messages[i], n) THEN BoundBy(messages, i) ELSE map[n]
    PROVE  PortalsAre(messages, i, next, names)
<1>1. SUFFICES ASSUME NEW n \in DOMAIN next
               PROVE  next[n] = BoundBy(messages, Max(Portal(messages, i + 1, n)))
  BY DEF PortalsAre
<1>2. n \in names /\ n \in OpenPortals(messages, i, names)
  BY DEF OpenPortals
<1>3. PortalMoved(messages, i, n)
  BY NamesMove
<1>4. CASE Binds(messages[i], n)
  BY <1>3, <1>4 DEF PortalMoved
<1>5. CASE ~Binds(messages[i], n)
  <2>1. ~Shuts(messages[i], "portal", n) /\ n \in OpenPortals(messages, i - 1, names)
    BY <1>2, <1>5, OpenNext
  <2>2. Portal(messages, i + 1, n) = Portal(messages, i, n)
    BY <1>3, <1>5, <2>1 DEF PortalMoved
  <2>3. i - 1 + 1 = i
    OBVIOUS
  <2>4. map[n] = BoundBy(messages, Max(Portal(messages, i, n)))
    BY <2>1, <2>3 DEF PortalsAre
  <2>5. QED
    BY <1>5, <2>2, <2>4
<1>6. QED
  BY <1>4, <1>5

\* What becomes of either map.
LEMMA StatementPrepared ==
    ASSUME NEW messages, NEW names, Served(messages, names), MaxPrepared \in Nat,
           Len(messages) \in Nat, NEW i \in 1 .. Len(messages), NEW map,
           PreparedAre(messages, i - 1, map, names),
           messages[i].token = "P", messages[i].name \in names
    PROVE  PreparedAre(messages, i, Remember(map, messages[i].name, messages[i].sql), names)
<1>1. PICK next : next = OpenStatements(messages, i, names)
  OBVIOUS
<1>2. \A n \in names : n \in next <=> n = messages[i].name \/ n \in DOMAIN map
  <2>1. SUFFICES ASSUME NEW n \in names
                 PROVE  n \in next <=> n = messages[i].name \/ n \in DOMAIN map
    OBVIOUS
  <2>2. i \in Nat \ {0}
    OBVIOUS
  <2>3. n \in next <=> \/ Opens(messages[i], n)
                       \/ ~Shuts(messages[i], "statement", n)
                          /\ n \in OpenStatements(messages, i - 1, names)
    BY <1>1, <2>2, OpenNext
  <2>4. QED
    BY <2>3 DEF Opens, Shuts, PreparedAre
<1>3. next \in SUBSET names /\ DOMAIN map \cup {messages[i].name} = next
  BY <1>1, <1>2 DEF OpenStatements, PreparedAre
<1>4. Cardinality(next) <= MaxPrepared
  BY <1>1, RoomFor DEF Served
<1>5. PICK after : after = Remember(map, messages[i].name, messages[i].sql)
  OBVIOUS
<1>6. after = [n \in next |-> IF n = messages[i].name THEN messages[i].sql ELSE map[n]]
  BY <1>3, <1>4, <1>5, Remembers DEF Served
<1>7. /\ DOMAIN after = OpenStatements(messages, i, names)
      /\ \A n \in DOMAIN after :
             after[n] = IF Opens(messages[i], n) THEN messages[i].sql ELSE map[n]
  BY <1>1, <1>6 DEF Opens
<1>8. QED
  BY <1>5, <1>7, StatementsFrom

LEMMA PortalBound ==
    ASSUME NEW messages, NEW names, Served(messages, names), MaxPrepared \in Nat,
           Len(messages) \in Nat, NEW i \in 1 .. Len(messages), NEW map, NEW sql,
           PortalsAre(messages, i - 1, map, names),
           messages[i].token = "B", messages[i].portal \in names, sql = BoundBy(messages, i)
    PROVE  PortalsAre(messages, i, Remember(map, messages[i].portal, sql), names)
<1>1. PICK next : next = OpenPortals(messages, i, names)
  OBVIOUS
<1>2. \A n \in names : n \in next <=> n = messages[i].portal \/ n \in DOMAIN map
  <2>1. SUFFICES ASSUME NEW n \in names
                 PROVE  n \in next <=> n = messages[i].portal \/ n \in DOMAIN map
    OBVIOUS
  <2>2. i \in Nat \ {0}
    OBVIOUS
  <2>3. n \in next <=> \/ Binds(messages[i], n)
                       \/ ~Shuts(messages[i], "portal", n)
                          /\ n \in OpenPortals(messages, i - 1, names)
    BY <1>1, <2>2, OpenNext
  <2>4. QED
    BY <2>3 DEF Binds, Shuts, PortalsAre
<1>3. next \in SUBSET names /\ DOMAIN map \cup {messages[i].portal} = next
  BY <1>1, <1>2 DEF OpenPortals, PortalsAre
<1>4. Cardinality(next) <= MaxPrepared
  BY <1>1, RoomFor DEF Served
<1>5. PICK after : after = Remember(map, messages[i].portal, sql)
  OBVIOUS
<1>6. after = [n \in next |-> IF n = messages[i].portal THEN sql ELSE map[n]]
  BY <1>3, <1>4, <1>5, Remembers DEF Served
<1>7. /\ DOMAIN after = OpenPortals(messages, i, names)
      /\ \A n \in DOMAIN after :
             after[n] = IF Binds(messages[i], n) THEN BoundBy(messages, i) ELSE map[n]
  BY <1>1, <1>6 DEF Binds
<1>8. QED
  BY <1>5, <1>7, PortalsFrom

LEMMA StatementClosed ==
    ASSUME NEW messages, NEW names, NEW i \in Nat \ {0}, NEW map,
           PreparedAre(messages, i - 1, map, names),
           messages[i].token = "C", messages[i].kind = "statement"
    PROVE  PreparedAre(messages, i, Forget(map, messages[i].name), names)
<1>1. PICK after : after = Forget(map, messages[i].name)
  OBVIOUS
<1>2. after = [n \in DOMAIN map \ {messages[i].name} |-> map[n]]
  BY <1>1 DEF Forget, Restrict
<1>3. DOMAIN map = OpenStatements(messages, i - 1, names)
  BY DEF PreparedAre
<1>4. \A n \in names : n \in OpenStatements(messages, i, names) <=>
                           n # messages[i].name /\ n \in OpenStatements(messages, i - 1, names)
  BY OpenNext DEF Opens, Shuts
<1>5. DOMAIN after = OpenStatements(messages, i, names)
  BY <1>2, <1>3, <1>4 DEF OpenStatements
<1>6. \A n \in DOMAIN after :
          after[n] = IF Opens(messages[i], n) THEN messages[i].sql ELSE map[n]
  BY <1>2 DEF Opens
<1>7. QED
  BY <1>1, <1>5, <1>6, StatementsFrom

LEMMA PortalClosed ==
    ASSUME NEW messages, NEW names, NEW i \in Nat \ {0}, NEW map,
           PortalsAre(messages, i - 1, map, names),
           messages[i].token = "C", messages[i].kind = "portal"
    PROVE  PortalsAre(messages, i, Forget(map, messages[i].name), names)
<1>1. PICK after : after = Forget(map, messages[i].name)
  OBVIOUS
<1>2. after = [n \in DOMAIN map \ {messages[i].name} |-> map[n]]
  BY <1>1 DEF Forget, Restrict
<1>3. DOMAIN map = OpenPortals(messages, i - 1, names)
  BY DEF PortalsAre
<1>4. \A n \in names : n \in OpenPortals(messages, i, names) <=>
                           n # messages[i].name /\ n \in OpenPortals(messages, i - 1, names)
  BY OpenNext DEF Binds, Shuts
<1>5. DOMAIN after = OpenPortals(messages, i, names)
  BY <1>2, <1>3, <1>4 DEF OpenPortals
<1>6. \A n \in DOMAIN after :
          after[n] = IF Binds(messages[i], n) THEN BoundBy(messages, i) ELSE map[n]
  BY <1>2 DEF Binds
<1>7. QED
  BY <1>1, <1>5, <1>6, PortalsFrom

LEMMA NamesAside ==
    ASSUME NEW messages, NEW names, NEW i \in Nat \ {0}, NEW map
    PROVE  /\ PreparedAre(messages, i - 1, map, names) /\ messages[i].token # "P"
              /\ ~(messages[i].token = "C" /\ messages[i].kind = "statement")
                  => PreparedAre(messages, i, map, names)
           /\ PortalsAre(messages, i - 1, map, names) /\ messages[i].token # "B"
              /\ ~(messages[i].token = "C" /\ messages[i].kind = "portal")
                  => PortalsAre(messages, i, map, names)
<1>1. ASSUME PreparedAre(messages, i - 1, map, names), messages[i].token # "P",
             ~(messages[i].token = "C" /\ messages[i].kind = "statement")
      PROVE  PreparedAre(messages, i, map, names)
  <2>1. \A n \in names : n \in OpenStatements(messages, i, names) <=>
                             n \in OpenStatements(messages, i - 1, names)
    BY <1>1, OpenNext DEF Opens, Shuts
  <2>2. DOMAIN map = OpenStatements(messages, i, names)
    BY <1>1, <2>1 DEF PreparedAre, OpenStatements
  <2>3. \A n \in DOMAIN map :
            map[n] = IF Opens(messages[i], n) THEN messages[i].sql ELSE map[n]
    BY <1>1 DEF Opens
  <2>4. QED
    BY <1>1, <2>2, <2>3, StatementsFrom
<1>2. ASSUME PortalsAre(messages, i - 1, map, names), messages[i].token # "B",
             ~(messages[i].token = "C" /\ messages[i].kind = "portal")
      PROVE  PortalsAre(messages, i, map, names)
  <2>1. \A n \in names : n \in OpenPortals(messages, i, names) <=>
                             n \in OpenPortals(messages, i - 1, names)
    BY <1>2, OpenNext DEF Binds, Shuts
  <2>2. DOMAIN map = OpenPortals(messages, i, names)
    BY <1>2, <2>1 DEF PortalsAre, OpenPortals
  <2>3. \A n \in DOMAIN map :
            map[n] = IF Binds(messages[i], n) THEN BoundBy(messages, i) ELSE map[n]
    BY <1>2 DEF Binds
  <2>4. QED
    BY <1>2, <2>2, <2>3, PortalsFrom
<1>3. QED
  BY <1>1, <1>2

\* The SQL a message is about, and the first that messages of a group are about.
Says(messages, i) ==
    IF messages[i].token = "P" THEN messages[i].sql
    ELSE IF messages[i].token = "B" THEN BoundBy(messages, i) ELSE RunBy(messages, i)
Speakers(messages, from, to) == {i \in from .. to : messages[i].token \in {"P", "B", "E"}}
Heard(messages, from, to) ==
    IF Speakers(messages, from, to) = {} THEN Nothing
    ELSE Just(Says(messages, Min(Speakers(messages, from, to))))

\* A simple query is the whole of what its group runs.
Told(messages, from, to) ==
    IF messages[to].token = "Q" THEN Just(messages[to].sql) ELSE Heard(messages, from, to)

LEMMA HeardNext ==
    ASSUME NEW messages, NEW from \in Nat, NEW i \in Nat, from <= i
    PROVE  Heard(messages, from, i) =
               IF messages[i].token \in {"P", "B", "E"}
               THEN Or(Heard(messages, from, i - 1), Just(Says(messages, i)))
               ELSE Heard(messages, from, i - 1)
<1>1. PICK before : before = Speakers(messages, from, i - 1)
  OBVIOUS
<1>2. from .. i = (from .. i - 1) \cup {i}
  OBVIOUS
<1>3. Speakers(messages, from, i) =
          IF messages[i].token \in {"P", "B", "E"} THEN before \cup {i} ELSE before
  BY <1>1, <1>2 DEF Speakers
<1>4. before \in SUBSET Nat /\ \A j \in before : j < i
  BY <1>1 DEF Speakers
<1>5. CASE messages[i].token \notin {"P", "B", "E"}
  BY <1>1, <1>3, <1>5 DEF Heard
<1>6. CASE messages[i].token \in {"P", "B", "E"}
  <2>1. Heard(messages, from, i) = Just(Says(messages, Min(before \cup {i})))
    BY <1>3, <1>6 DEF Heard
  <2>2. CASE before = {}
    <3>1. Min({i}) = i
      BY MinIs
    <3>2. before \cup {i} = {i}
      BY <2>2
    <3>3. Heard(messages, from, i - 1) = Nothing
      BY <1>1, <2>2 DEF Heard
    <3>4. QED
      BY <1>6, <2>1, <3>1, <3>2, <3>3 DEF Or
  <2>3. CASE before # {}
    <3>1. PICK low : low = Min(before)
      OBVIOUS
    <3>2. low \in before /\ \A j \in before : low <= j
      BY <1>4, <2>3, <3>1, MinIs
    <3>3. PICK all : all = before \cup {i}
      OBVIOUS
    <3>4. PICK first : first = Min(all)
      OBVIOUS
    <3>5. all \in SUBSET Nat /\ all # {}
      BY <1>4, <3>3
    <3>6. first \in all /\ \A j \in all : first <= j
      BY <3>4, <3>5, MinIs
    <3>7. first = low
      BY <1>4, <3>2, <3>3, <3>6
    <3>8. Heard(messages, from, i - 1) = Just(Says(messages, low))
      BY <1>1, <2>3, <3>1 DEF Heard
    <3>9. QED
      BY <1>6, <2>1, <3>3, <3>4, <3>7, <3>8 DEF Or, Just, Nothing
  <2>4. QED
    BY <2>2, <2>3
<1>7. QED
  BY <1>5, <1>6

\* What is known after the i-th message, of a group that begins with another.
Learnt(messages, from, i, names, known) ==
    /\ known = Knowledge(known.prepared, known.portals, known.sql)
    /\ PreparedAre(messages, i, known.prepared, names)
    /\ PortalsAre(messages, i, known.portals, names)
    /\ known.sql = Told(messages, from, i)

LEMMA LearntBy ==
    ASSUME NEW messages, NEW from, NEW i, NEW names, NEW a, NEW b, NEW c,
           PreparedAre(messages, i, a, names), PortalsAre(messages, i, b, names),
           c = Told(messages, from, i)
    PROVE  Learnt(messages, from, i, names, Knowledge(a, b, c))
<1>1. PICK known : known = Knowledge(a, b, c)
  OBVIOUS
<1>2. known.prepared = a /\ known.portals = b /\ known.sql = c
  BY <1>1 DEF Knowledge
<1>3. Learnt(messages, from, i, names, known)
  BY <1>1, <1>2 DEF Learnt
<1>4. QED
  BY <1>1, <1>3

LEMMA MessageLearnt ==
    ASSUME NEW messages, NEW names, Served(messages, names), MaxPrepared \in Nat,
           Len(messages) \in Nat, DOMAIN messages = 1 .. Len(messages),
           NEW i \in 1 .. Len(messages), NEW from \in Nat, from <= i,
           NEW a, NEW b,
           PreparedAre(messages, i - 1, a, names), PortalsAre(messages, i - 1, b, names)
    PROVE  Learnt(messages, from, i, names,
                  Learn(Knowledge(a, b, Heard(messages, from, i - 1)), messages[i]))
<1>1. PICK m : m = messages[i]
  OBVIOUS
<1>2. PICK c : c = Heard(messages, from, i - 1)
  OBVIOUS
<1>3. LearnsRightly(m, a, b, c)
  BY LearnMeans
<1>4. i \in Nat \ {0} /\ i - 1 + 1 = i
  OBVIOUS
<1>5. Heard(messages, from, i) =
          IF m.token \in {"P", "B", "E"} THEN Or(c, Just(Says(messages, i))) ELSE c
  BY <1>1, <1>2, HeardNext
<1>6. PICK next : next = Learn(Knowledge(a, b, c), m)
  OBVIOUS
<1>7. Told(messages, from, i) =
          IF m.token = "Q" THEN Just(m.sql) ELSE Heard(messages, from, i)
  BY <1>1 DEF Told
<1>8. CASE m.token = "Q"
  <2>1. next = Knowledge(a, b, Just(m.sql))
    BY <1>3, <1>6, <1>8 DEF LearnsRightly
  <2>2. PreparedAre(messages, i, a, names) /\ PortalsAre(messages, i, b, names)
    BY <1>1, <1>4, <1>8, NamesAside
  <2>3. QED
    BY <1>1, <1>2, <1>6, <1>7, <1>8, <2>1, <2>2, LearntBy
<1>9. CASE m.token = "P"
  <2>1. next = Knowledge(Remember(a, m.name, m.sql), b, Or(c, Just(m.sql)))
    BY <1>3, <1>6, <1>9 DEF LearnsRightly
  <2>2. m.name \in names
    BY <1>1, <1>9 DEF Served, Named
  <2>3. PreparedAre(messages, i, Remember(a, m.name, m.sql), names)
    BY <1>1, <1>9, <2>2, StatementPrepared
  <2>4. PortalsAre(messages, i, b, names)
    BY <1>1, <1>4, <1>9, NamesAside
  <2>5. Told(messages, from, i) = Or(c, Just(m.sql))
    BY <1>1, <1>5, <1>7, <1>9 DEF Says
  <2>6. QED
    BY <1>1, <1>2, <1>6, <2>1, <2>3, <2>4, <2>5, LearntBy
<1>10. CASE m.token = "B"
  <2>1. m.name \in names /\ m.portal \in names
    BY <1>1, <1>10 DEF Served, Named
  <2>2. IsOpen(messages, Statement(messages, i, m.name))
    BY <1>1, <1>10 DEF Served, Legal
  <2>3. m.name \in DOMAIN a /\ a[m.name] = messages[Max(Statement(messages, i, m.name))].sql
    <3>1. m.name \in OpenStatements(messages, i - 1, names)
      BY <1>4, <2>1, <2>2 DEF OpenStatements
    <3>2. QED
      BY <1>4, <3>1 DEF PreparedAre
  <2>4. a[m.name] = BoundBy(messages, i)
    BY <1>1, <2>3 DEF BoundBy
  <2>5. next = Knowledge(a, Remember(b, m.portal, a[m.name]), Or(c, Just(a[m.name])))
    BY <1>3, <1>6, <1>10, <2>3 DEF LearnsRightly
  <2>6. PortalsAre(messages, i, Remember(b, m.portal, a[m.name]), names)
    BY <1>1, <1>10, <2>1, <2>4, PortalBound
  <2>7. PreparedAre(messages, i, a, names)
    BY <1>1, <1>4, <1>10, NamesAside
  <2>8. Told(messages, from, i) = Or(c, Just(a[m.name]))
    BY <1>1, <1>5, <1>7, <1>10, <2>4 DEF Says
  <2>9. QED
    BY <1>1, <1>2, <1>6, <2>5, <2>6, <2>7, <2>8, LearntBy
<1>11. CASE m.token = "E"
  <2>1. m.portal \in names
    BY <1>1, <1>11 DEF Served, Named
  <2>2. IsOpen(messages, Portal(messages, i, m.portal))
    BY <1>1, <1>11 DEF Served, Legal
  <2>3. /\ m.portal \in DOMAIN b
        /\ b[m.portal] = BoundBy(messages, Max(Portal(messages, i, m.portal)))
    <3>1. m.portal \in OpenPortals(messages, i - 1, names)
      BY <1>4, <2>1, <2>2 DEF OpenPortals
    <3>2. QED
      BY <1>4, <3>1 DEF PortalsAre
  <2>4. b[m.portal] = RunBy(messages, i)
    BY <1>1, <2>3 DEF RunBy
  <2>5. next = Knowledge(a, b, Or(c, Just(b[m.portal])))
    BY <1>3, <1>6, <1>11, <2>3 DEF LearnsRightly
  <2>6. PreparedAre(messages, i, a, names) /\ PortalsAre(messages, i, b, names)
    BY <1>1, <1>4, <1>11, NamesAside
  <2>7. Told(messages, from, i) = Or(c, Just(b[m.portal]))
    BY <1>1, <1>5, <1>7, <1>11, <2>4 DEF Says
  <2>8. QED
    BY <1>1, <1>2, <1>6, <2>5, <2>6, <2>7, LearntBy
<1>12. CASE m.token = "C" /\ m.kind = "statement"
  <2>1. next = Knowledge(Forget(a, m.name), b, c)
    BY <1>3, <1>6, <1>12 DEF LearnsRightly
  <2>2. PreparedAre(messages, i, Forget(a, m.name), names)
    BY <1>1, <1>4, <1>12, StatementClosed
  <2>3. PortalsAre(messages, i, b, names)
    BY <1>1, <1>4, <1>12, NamesAside
  <2>4. Told(messages, from, i) = c
    BY <1>5, <1>7, <1>12
  <2>5. QED
    BY <1>1, <1>2, <1>6, <2>1, <2>2, <2>3, <2>4, LearntBy
<1>13. CASE m.token = "C" /\ m.kind = "portal"
  <2>1. next = Knowledge(a, Forget(b, m.name), c)
    BY <1>3, <1>6, <1>13 DEF LearnsRightly
  <2>2. PortalsAre(messages, i, Forget(b, m.name), names)
    BY <1>1, <1>4, <1>13, PortalClosed
  <2>3. PreparedAre(messages, i, a, names)
    BY <1>1, <1>4, <1>13, NamesAside
  <2>4. Told(messages, from, i) = c
    BY <1>5, <1>7, <1>13
  <2>5. QED
    BY <1>1, <1>2, <1>6, <2>1, <2>2, <2>3, <2>4, LearntBy
<1>14. CASE \/ m.token = "C" /\ m.kind \notin {"statement", "portal"}
            \/ m.token \notin {"Q", "P", "B", "E", "C"}
  <2>1. next = Knowledge(a, b, c)
    BY <1>3, <1>6, <1>14 DEF LearnsRightly
  <2>2. PreparedAre(messages, i, a, names) /\ PortalsAre(messages, i, b, names)
    BY <1>1, <1>4, <1>14, NamesAside
  <2>3. Told(messages, from, i) = c
    BY <1>5, <1>7, <1>14
  <2>4. QED
    BY <1>1, <1>2, <1>6, <2>1, <2>2, <2>3, LearntBy
<1>15. QED
  BY <1>8, <1>9, <1>10, <1>11, <1>12, <1>13, <1>14

LEMMA Reached ==
    ASSUME NEW n \in Nat, NEW good, 0 \in good,
           \A k \in 0 .. n : k \in good /\ k < n => k + 1 \in good
    PROVE  \A k \in 0 .. n : k \in good
<1>1. SUFFICES ASSUME \E k \in 0 .. n : k \notin good PROVE FALSE
  OBVIOUS
<1>2. PICK bad : bad = {k \in 0 .. n : k \notin good}
  OBVIOUS
<1>3. bad \in SUBSET Nat /\ bad # {}
  BY <1>1, <1>2
<1>4. PICK m \in bad : \A k \in bad : m <= k
  BY <1>3, LeastExists
<1>5. m \in 0 .. n /\ m \notin good
  BY <1>2, <1>4
<1>6. m # 0
  BY <1>5
<1>7. m - 1 \in 0 .. n /\ m - 1 < n /\ m - 1 + 1 = m
  BY <1>5, <1>6
<1>8. m - 1 \in good
  BY <1>2, <1>4, <1>7
<1>9. QED
  BY <1>5, <1>7, <1>8

\* A group ends where one may, and nowhere before.
IsGroup(group) ==
    /\ Len(group) # 0 /\ group[Len(group)].token \in GroupEnds
    /\ \A j \in 1 .. Len(group) - 1 : group[j].token \in GroupParts

\* It is the next of some messages after the first so many.
IsNext(messages, o, group) ==
    /\ o + Len(group) <= Len(messages)
    /\ \A j \in 1 .. Len(group) : group[j] = messages[o + j]

\* What is known before the i-th message of a group that goes on.
Underway(messages, from, i, names, known) ==
    /\ known = Knowledge(known.prepared, known.portals, known.sql)
    /\ PreparedAre(messages, i, known.prepared, names)
    /\ PortalsAre(messages, i, known.portals, names)
    /\ known.sql = Heard(messages, from, i)

LEMMA GroupLearnt ==
    ASSUME NEW messages, NEW names, Served(messages, names), MaxPrepared \in Nat,
           Len(messages) \in Nat, DOMAIN messages = 1 .. Len(messages),
           NEW U, NEW group \in Seq(U), IsGroup(group),
           NEW o \in Nat, IsNext(messages, o, group), NEW a, NEW b,
           PreparedAre(messages, o, a, names), PortalsAre(messages, o, b, names)
    PROVE  Learnt(messages, o + 1, o + Len(group), names,
                  LearntAll(Knowledge(a, b, Nothing), group))
<1>1. PICK n : n = Len(group)
  OBVIOUS
<1>2. n \in Nat /\ n # 0 /\ DOMAIN group = 1 .. n
  BY <1>1 DEF IsGroup
<1>3. PICK base : base = Knowledge(a, b, Nothing)
  OBVIOUS
<1>4. PICK f : /\ f[0] = base /\ LearntAll(base, group) = f[n]
               /\ \A k \in 1 .. n : f[k] = Learn(f[k - 1], group[k])
  <2>1. LearnSteps(base, group, n)
    BY <1>2, LearnFolds
  <2>2. QED
    BY <2>1 DEF LearnSteps
<1>5. PICK good : good = {k \in 0 .. n - 1 : Underway(messages, o + 1, o + k, names, f[k])}
  OBVIOUS
<1>6. 0 \in good
  <2>1. base.prepared = a /\ base.portals = b /\ base.sql = Nothing
    BY <1>3 DEF Knowledge
  <2>2. Heard(messages, o + 1, o) = Nothing
    <3>1. Speakers(messages, o + 1, o) = {}
      BY DEF Speakers
    <3>2. QED
      BY <3>1 DEF Heard
  <2>3. Underway(messages, o + 1, o, names, base)
    BY <1>3, <2>1, <2>2 DEF Underway
  <2>4. o + 0 = o /\ 0 \in 0 .. n - 1
    BY <1>2
  <2>5. QED
    BY <1>4, <1>5, <2>3, <2>4
<1>7. ASSUME NEW k \in 1 .. n, k - 1 \in good
      PROVE  Learnt(messages, o + 1, o + k, names, f[k])
  <2>1. PICK i : i = o + k
    OBVIOUS
  <2>2. i \in 1 .. Len(messages) /\ o + 1 \in Nat /\ o + 1 <= i /\ i - 1 = o + (k - 1)
    BY <1>1, <1>2, <2>1 DEF IsNext
  <2>3. group[k] = messages[i]
    BY <1>1, <2>1 DEF IsNext
  <2>4. PICK known : known = f[k - 1]
    OBVIOUS
  <2>5. Underway(messages, o + 1, i - 1, names, known)
    BY <1>5, <1>7, <2>2, <2>4
  <2>6. known = Knowledge(known.prepared, known.portals, Heard(messages, o + 1, i - 1))
    BY <2>5 DEF Underway
  <2>7. Learnt(messages, o + 1, i, names, Learn(known, messages[i]))
    BY <2>2, <2>5, <2>6, MessageLearnt DEF Underway
  <2>8. f[k] = Learn(known, messages[i])
    BY <1>4, <2>3, <2>4
  <2>9. QED
    BY <2>1, <2>7, <2>8
<1>8. ASSUME NEW k \in 0 .. n - 1, k \in good, k < n - 1
      PROVE  k + 1 \in good
  <2>1. k + 1 \in 1 .. n /\ k + 1 - 1 = k /\ k + 1 \in 0 .. n - 1
    BY <1>2, <1>8
  <2>2. Learnt(messages, o + 1, o + (k + 1), names, f[k + 1])
    BY <1>7, <1>8, <2>1
  <2>3. messages[o + (k + 1)].token \in GroupParts
    BY <1>1, <1>2, <2>1 DEF IsGroup, IsNext
  <2>4. Underway(messages, o + 1, o + (k + 1), names, f[k + 1])
    BY <2>2, <2>3 DEF Learnt, Underway, Told, GroupParts
  <2>5. QED
    BY <1>5, <2>1, <2>4
<1>9. n - 1 \in good
  <2>1. n - 1 \in Nat
    BY <1>2
  <2>2. \A k \in 0 .. n - 1 : k \in good
    BY <1>6, <1>8, <2>1, Reached
  <2>3. QED
    BY <2>1, <2>2
<1>10. Learnt(messages, o + 1, o + n, names, f[n])
  BY <1>2, <1>7, <1>9
<1>11. QED
  BY <1>1, <1>3, <1>4, <1>10

-----------------------------------------------------------------------------
\* A group is taken from the socket whole, and nothing of what follows it.

LEMMA GroupEndsThere ==
    ASSUME NEW U, NEW group \in Seq(U), NEW follower \in Seq(U), IsGroup(group)
    PROVE  /\ EndsAt(group \o follower, GroupEnds) # {}
           /\ Min(EndsAt(group \o follower, GroupEnds)) = Len(group)
<1>1. PICK all : all = group \o follower
  OBVIOUS
<1>2. PICK n : n = Len(group)
  OBVIOUS
<1>3. PICK m : m = Len(follower)
  OBVIOUS
<1>4. n \in Nat /\ m \in Nat /\ n # 0
  BY <1>2, <1>3 DEF IsGroup
<1>5. /\ DOMAIN all = 1 .. n + m
      /\ \A i \in 1 .. n : all[i] = group[i]
  BY <1>1, <1>2, <1>3
<1>6. PICK ends : ends = EndsAt(all, GroupEnds)
  OBVIOUS
<1>7. \A i : i \in ends <=> i \in 1 .. n + m /\ all[i].token \in GroupEnds
  BY <1>5, <1>6 DEF EndsAt
<1>8. n \in ends
  BY <1>2, <1>4, <1>5, <1>7 DEF IsGroup
<1>9. \A i \in 1 .. n - 1 : i \notin ends
  <2>1. \A i \in 1 .. n - 1 : all[i].token \in GroupParts
    BY <1>2, <1>4, <1>5 DEF IsGroup
  <2>2. \A t \in GroupParts : t \notin GroupEnds
    BY DEF GroupParts, GroupEnds
  <2>3. QED
    BY <1>7, <2>1, <2>2
<1>10. ends \in SUBSET Nat /\ ends # {}
  BY <1>4, <1>7, <1>8
<1>11. PICK low : low = Min(ends)
  OBVIOUS
<1>12. low \in ends /\ low <= n
  BY <1>8, <1>10, <1>11, MinIs
<1>13. low \in Nat /\ low # 0
  BY <1>4, <1>7, <1>12
<1>14. low = n
  BY <1>4, <1>9, <1>12, <1>13
<1>15. QED
  BY <1>1, <1>2, <1>6, <1>10, <1>11, <1>14

LEMMA Parted ==
    ASSUME NEW U, NEW group \in Seq(U), NEW follower \in Seq(U), Len(group) # 0
    PROVE  /\ SubSeq(group \o follower, 1, Len(group)) = group
           /\ SubSeq(group \o follower, Len(group) + 1, Len(group \o follower)) = follower
           /\ group \o follower # <<>>
<1>1. SubSeq(group \o follower, 1, Len(group)) = group
  <2>1. 1 \in 1 .. Len(group) /\ Len(group) \in 1 .. Len(group)
    OBVIOUS
  <2>2. SubSeq(group \o follower, 1, Len(group)) = SubSeq(group, 1, Len(group))
    BY <2>1, SubSeqOfConcat1
  <2>3. QED
    BY <2>2, SubSeqFull
<1>2. Len(group \o follower) = Len(group) + Len(follower)
  BY ConcatProperties
<1>3. SubSeq(group \o follower, Len(group) + 1, Len(group \o follower)) = follower
  <2>1. CASE follower = <<>>
    <3>1. Len(group) + Len(follower) < Len(group) + 1
      BY <2>1
    <3>2. QED
      BY <1>2, <2>1, <3>1, SubSeqEmpty
  <2>2. CASE follower # <<>>
    <3>1. /\ Len(group) + 1 \in Len(group) + 1 .. Len(group) + Len(follower)
          /\ Len(group) + Len(follower) \in Len(group) + 1 .. Len(group) + Len(follower)
          /\ Len(group) + 1 - Len(group) = 1
          /\ Len(group) + Len(follower) - Len(group) = Len(follower)
      BY <2>2
    <3>2. SubSeq(group \o follower, Len(group) + 1, Len(group) + Len(follower))
              = SubSeq(follower, 1, Len(follower))
      BY <3>1, SubSeqOfConcat2
    <3>3. QED
      BY <1>2, <3>2, SubSeqFull
  <2>3. QED
    BY <2>1, <2>2
<1>4. group \o follower # <<>>
  BY <1>2
<1>5. QED
  BY <1>1, <1>3, <1>4

GroupOf(group, known) ==
    [raw |-> group, sql |-> known.sql, terminate |-> group[Len(group)].token = "X",
     session |-> [prepared |-> known.prepared, portals |-> known.portals]]
GroupTaken(group, follower, before) ==
    ReadGroup(group \o follower, before) =
        Taken(GroupOf(group, LearntAll(Knowledge(before.prepared, before.portals, Nothing), group)),
              follower)

LEMMA GroupIsTaken ==
    ASSUME NEW U, NEW group \in Seq(U), NEW follower \in Seq(U), IsGroup(group),
           MaxMessages \in Nat, Len(group) <= MaxMessages, NEW before
    PROVE  GroupTaken(group, follower, before)
<1>1. PICK socket : socket = group \o follower
  OBVIOUS
<1>2. PICK n : n = Len(group)
  OBVIOUS
<1>3. n \in Nat /\ n # 0
  BY <1>2 DEF IsGroup
<1>4. EndsAt(socket, GroupEnds) # {} /\ Min(EndsAt(socket, GroupEnds)) = n
  BY <1>1, <1>2, GroupEndsThere
<1>5. /\ SubSeq(socket, 1, n) = group /\ SubSeq(socket, n + 1, Len(socket)) = follower
      /\ socket # <<>>
  BY <1>1, <1>2, <1>3, Parted
<1>6. ~(n > MaxMessages)
  BY <1>2, <1>3
<1>7. ~ \E i \in 1 .. n - 1 : group[i].token \notin GroupParts
  BY <1>2 DEF IsGroup
<1>8. PICK known : known = LearntAll(Knowledge(before.prepared, before.portals, Nothing), group)
  OBVIOUS
<1>9. ReadGroup(socket, before) = Taken(GroupOf(group, known), follower)
  BY <1>2, <1>4, <1>5, <1>6, <1>7, <1>8 DEF ReadGroup, GroupOf, LearntAll, Knowledge
<1>10. QED
  BY <1>1, <1>8, <1>9 DEF GroupTaken

LEMMA NoEndFails ==
    ASSUME NEW socket, NEW before, socket # <<>>,
           \A i \in DOMAIN socket : socket[i].token \notin GroupEnds
    PROVE  ReadGroup(socket, before) = Failed
<1>1. EndsAt(socket, GroupEnds) = {}
  BY DEF EndsAt
<1>2. QED
  BY <1>1 DEF ReadGroup

\* A reading of the next group of some messages says what that group runs, and
\* what the session's names mean after it.
Understood(reading, messages, o, group, follower, names) ==
    LET after == o + Len(group)
        known == reading.result.session
    IN  /\ o \in Nat /\ IsNext(messages, o, group)
        /\ reading.left = follower /\ reading.result.raw = group
        /\ reading.result.sql = Told(messages, o + 1, after)
        /\ reading.result.terminate = (group[Len(group)].token = "X")
        /\ PreparedAre(messages, after, known.prepared, names)
        /\ PortalsAre(messages, after, known.portals, names)

LEMMA GroupUnderstood ==
    ASSUME NEW messages, NEW names, Served(messages, names), MaxPrepared \in Nat,
           MaxMessages \in Nat, Len(messages) \in Nat, DOMAIN messages = 1 .. Len(messages),
           NEW U, NEW group \in Seq(U), IsGroup(group), Len(group) <= MaxMessages,
           NEW follower \in Seq(U), NEW o \in Nat, IsNext(messages, o, group), NEW before,
           PreparedAre(messages, o, before.prepared, names),
           PortalsAre(messages, o, before.portals, names)
    PROVE  Understood(ReadGroup(group \o follower, before), messages, o, group, follower, names)
<1>1. PICK known : known = LearntAll(Knowledge(before.prepared, before.portals, Nothing), group)
  OBVIOUS
<1>2. Learnt(messages, o + 1, o + Len(group), names, known)
  BY <1>1, GroupLearnt
<1>3. PICK reading : reading = ReadGroup(group \o follower, before)
  OBVIOUS
<1>4. reading = Taken(GroupOf(group, known), follower)
  BY <1>1, <1>3, GroupIsTaken DEF GroupTaken
<1>5. /\ reading.left = follower /\ reading.result = GroupOf(group, known)
  BY <1>4 DEF Taken
<1>6. Understood(reading, messages, o, group, follower, names)
  BY <1>2, <1>5 DEF Understood, GroupOf, Learnt
<1>7. QED
  BY <1>3, <1>6

Begins(start, whole) ==
    Len(start) <= Len(whole) /\ \A i \in 1 .. Len(start) : start[i] = whole[i]

LEMMA BeginsBefore ==
    ASSUME NEW U, NEW start \in Seq(U), NEW group \in Seq(U), NEW whole \in Seq(U),
           Begins(start \o group, whole)
    PROVE  Begins(start, whole) /\ IsNext(whole, Len(start), group)
<1>1. PICK both : both = start \o group
  OBVIOUS
<1>2. /\ Len(both) = Len(start) + Len(group)
      /\ \A i \in 1 .. Len(start) : both[i] = start[i]
      /\ \A i \in 1 .. Len(group) : both[Len(start) + i] = group[i]
  <2>1. /\ Len(both) = Len(start) + Len(group)
        /\ \A i \in 1 .. Len(start) + Len(group) :
               both[i] = IF i <= Len(start) THEN start[i] ELSE group[i - Len(start)]
    BY <1>1, ConcatProperties
  <2>2. \A i \in 1 .. Len(group) :
            /\ Len(start) + i \in 1 .. Len(start) + Len(group)
            /\ ~(Len(start) + i <= Len(start)) /\ Len(start) + i - Len(start) = i
    OBVIOUS
  <2>3. \A i \in 1 .. Len(group) : both[Len(start) + i] = group[i]
    BY <2>1, <2>2
  <2>4. \A i \in 1 .. Len(start) : both[i] = start[i]
    BY <2>1
  <2>5. QED
    BY <2>1, <2>3, <2>4
<1>3. Len(both) <= Len(whole) /\ \A i \in 1 .. Len(both) : both[i] = whole[i]
  BY <1>1 DEF Begins
<1>4. \A i \in 1 .. Len(group) : Len(start) + i \in 1 .. Len(both)
  BY <1>2
<1>5. \A i \in 1 .. Len(group) : group[i] = whole[Len(start) + i]
  BY <1>2, <1>3, <1>4
<1>6. \A i \in 1 .. Len(start) : start[i] = whole[i]
  BY <1>2, <1>3
<1>7. QED
  BY <1>2, <1>3, <1>5, <1>6 DEF Begins, IsNext

\* The groups of a history, of any length.
AreGroups(past) ==
    \A g \in 1 .. Len(past) : IsGroup(past[g]) /\ Len(past[g]) <= MaxMessages

HistoryUnderstood(past, follower, names) ==
    LET final == ReadAll(past, follower)
        sent == past[Len(past)]
    IN  Served(final.messages, names) =>
            Understood(final.reading, final.messages, Len(final.messages) - Len(sent), sent,
                       follower, names)

SessionKnown(messages, soFar, names) ==
    /\ PreparedAre(messages, Len(soFar.messages), soFar.session.prepared, names)
    /\ PortalsAre(messages, Len(soFar.messages), soFar.session.portals, names)

\* What was read of a history, group by group.
NextRead(before, group, follower, after) ==
    /\ after.messages = before.messages \o group
    /\ after.reading = ReadGroup(group \o follower, before.session)
    /\ after.session = after.reading.result.session

LEMMA NextIsRead ==
    ASSUME NEW before, NEW group, NEW follower
    PROVE  NextRead(before, group, follower, ReadNext(before, group, follower))
<1>1. PICK reading : reading = ReadGroup(group \o follower, before.session)
  OBVIOUS
<1>2. PICK after : after = ReadNext(before, group, follower)
  OBVIOUS
<1>3. after = [messages |-> before.messages \o group, session |-> reading.result.session,
               reading |-> reading]
  BY <1>1, <1>2 DEF ReadNext
<1>4. NextRead(before, group, follower, after)
  BY <1>1, <1>3 DEF NextRead
<1>5. QED
  BY <1>2, <1>4

ReadInTurn(f, U, past, follower, n) ==
    /\ f[0].messages = <<>> /\ f[0].session = NewSession
    /\ ReadAll(past, follower) = f[n]
    /\ \A k \in 0 .. n : f[k].messages \in Seq(U)
    /\ \A k \in 1 .. n : NextRead(f[k - 1], past[k], follower, f[k])

LEMMA ReadSoFar ==
    ASSUME NEW U, NEW n \in Nat, NEW past \in Seq(Seq(U)), Len(past) = n, NEW follower
    PROVE  \E f : ReadInTurn(f, U, past, follower, n)
<1>2. PICK base : base = [messages |-> <<>>, session |-> NewSession, reading |-> Ended]
  OBVIOUS
<1>3. PICK f : /\ f[0] = base /\ ReadFrom(base, past, follower) = f[n]
               /\ \A k \in 1 .. n : f[k] = ReadNext(f[k - 1], past[k], follower)
  <2>1. DOMAIN past = 1 .. n /\ n \in Nat
    OBVIOUS
  <2>2. ReadSteps(base, past, follower, n)
    BY <2>1, ReadFolds
  <2>3. QED
    BY <2>2 DEF ReadSteps
<1>4. ReadAll(past, follower) = f[n]
  BY <1>2, <1>3 DEF ReadAll, ReadFrom
<1>5. f[0].messages = <<>> /\ f[0].session = NewSession
  BY <1>2, <1>3
<1>6. \A k \in 1 .. n : NextRead(f[k - 1], past[k], follower, f[k])
  BY <1>3, NextIsRead
<1>7. \A k \in 0 .. n : f[k].messages \in Seq(U)
  <2>1. PICK good : good = {k \in 0 .. n : f[k].messages \in Seq(U)}
    OBVIOUS
  <2>2. 0 \in good
    <3>1. <<>> \in Seq(U) /\ 0 \in 0 .. n
      OBVIOUS
    <3>2. f[0].messages \in Seq(U)
      BY <1>5, <3>1
    <3>3. QED
      BY <2>1, <3>1, <3>2
  <2>3. ASSUME NEW k \in 0 .. n, k \in good, k < n
        PROVE  k + 1 \in good
    <3>1. k + 1 \in 1 .. n /\ k + 1 - 1 = k /\ k + 1 \in 0 .. n
      BY <2>3
    <3>2. PICK next : next = k + 1
      OBVIOUS
    <3>3. f[next].messages = f[k].messages \o past[next]
      <4>1. next \in 1 .. n /\ next - 1 = k
        BY <3>1, <3>2
      <4>2. NextRead(f[next - 1], past[next], follower, f[next])
        BY <1>6, <4>1
      <4>3. QED
        BY <4>1, <4>2 DEF NextRead
    <3>4. f[k].messages \in Seq(U) /\ past[next] \in Seq(U)
      BY <2>1, <2>3, <3>1, <3>2
    <3>5. f[next].messages \in Seq(U)
      BY <3>3, <3>4, ConcatProperties
    <3>6. QED
      BY <2>1, <3>1, <3>2, <3>5
  <2>4. \A k \in 0 .. n : k \in good
    BY <2>2, <2>3, Reached
  <2>5. QED
    BY <2>1, <2>4
<1>8. QED
  BY <1>4, <1>5, <1>6, <1>7 DEF ReadInTurn

LEMMA HistoryIsUnderstood ==
    ASSUME NEW U, NEW past \in Seq(Seq(U)), Len(past) # 0, NEW follower \in Seq(U),
           AreGroups(past), MaxPrepared \in Nat, MaxMessages \in Nat, NEW names
    PROVE  HistoryUnderstood(past, follower, names)
<1>1. PICK n : n = Len(past)
  OBVIOUS
<1>2. n \in Nat /\ n # 0
  BY <1>1
<1>3. PICK f : ReadInTurn(f, U, past, follower, n)
  BY <1>1, <1>2, ReadSoFar
<1>4. PICK all : all = f[n].messages
  OBVIOUS
<1>5. all \in Seq(U) /\ Len(all) \in Nat /\ DOMAIN all = 1 .. Len(all)
  BY <1>2, <1>3, <1>4 DEF ReadInTurn
<1>6. SUFFICES ASSUME Served(all, names)
               PROVE  Understood(f[n].reading, all, Len(all) - Len(past[n]), past[n],
                                 follower, names)
  BY <1>1, <1>3, <1>4 DEF HistoryUnderstood, ReadInTurn
<1>7. \A k \in 0 .. n : Begins(f[k].messages, all)
  <2>1. PICK good : good = {d \in 0 .. n : Begins(f[n - d].messages, all)}
    OBVIOUS
  <2>2. 0 \in good
    <3>1. n - 0 = n
      BY <1>2
    <3>2. Begins(all, all)
      BY <1>5 DEF Begins
    <3>3. QED
      BY <1>2, <1>4, <2>1, <3>1, <3>2
  <2>3. ASSUME NEW d \in 0 .. n, d \in good, d < n
        PROVE  d + 1 \in good
    <3>1. PICK k : k = n - d
      OBVIOUS
    <3>2. k \in 1 .. n /\ k - 1 = n - (d + 1) /\ k - 1 \in 0 .. n /\ k \in 0 .. n
          /\ d + 1 \in 0 .. n
      BY <1>2, <2>3, <3>1
    <3>3. f[k].messages = f[k - 1].messages \o past[k]
      BY <1>3, <3>2 DEF ReadInTurn, NextRead
    <3>4. f[k - 1].messages \in Seq(U) /\ past[k] \in Seq(U)
      BY <1>1, <1>3, <3>2 DEF ReadInTurn
    <3>5. Begins(f[k].messages, all)
      BY <2>1, <2>3, <3>1
    <3>6. Begins(f[k - 1].messages, all)
      BY <1>5, <3>3, <3>4, <3>5, BeginsBefore
    <3>7. QED
      BY <2>1, <3>2, <3>6
  <2>4. \A d \in 0 .. n : d \in good
    BY <1>2, <2>2, <2>3, Reached
  <2>5. \A k \in 0 .. n : n - k \in 0 .. n /\ n - (n - k) = k
    BY <1>2
  <2>6. QED
    BY <2>1, <2>4, <2>5
<1>8. ASSUME NEW k \in 1 .. n, SessionKnown(all, f[k - 1], names)
      PROVE  Understood(f[k].reading, all, Len(f[k - 1].messages), past[k], follower, names)
  <2>1. PICK before : before = f[k - 1]
    OBVIOUS
  <2>2. k - 1 \in 0 .. n /\ k \in 0 .. n
    BY <1>2
  <2>3. before.messages \in Seq(U) /\ past[k] \in Seq(U)
    BY <1>1, <1>3, <2>1, <2>2 DEF ReadInTurn
  <2>4. f[k].messages = before.messages \o past[k]
        /\ f[k].reading = ReadGroup(past[k] \o follower, before.session)
    BY <1>3, <2>1 DEF ReadInTurn, NextRead
  <2>5. IsNext(all, Len(before.messages), past[k])
    BY <1>5, <1>7, <2>2, <2>3, <2>4, BeginsBefore
  <2>6. IsGroup(past[k]) /\ Len(past[k]) <= MaxMessages
    BY <1>1 DEF AreGroups
  <2>7. /\ PreparedAre(all, Len(before.messages), before.session.prepared, names)
        /\ PortalsAre(all, Len(before.messages), before.session.portals, names)
    BY <1>8, <2>1 DEF SessionKnown
  <2>8. Len(before.messages) \in Nat
    BY <2>3
  <2>9. Understood(ReadGroup(past[k] \o follower, before.session), all,
                   Len(before.messages), past[k], follower, names)
    BY <1>5, <1>6, <2>3, <2>5, <2>6, <2>7, <2>8, GroupUnderstood
  <2>10. QED
    BY <2>1, <2>4, <2>9
<1>9. \A k \in 0 .. n : SessionKnown(all, f[k], names)
  <2>1. PICK good : good = {k \in 0 .. n : SessionKnown(all, f[k], names)}
    OBVIOUS
  <2>2. 0 \in good
    <3>1. Len(f[0].messages) = 0
      BY <1>3 DEF ReadInTurn
    <3>2. DOMAIN f[0].session.prepared = {} /\ DOMAIN f[0].session.portals = {}
      BY <1>3 DEF NewSession, ReadInTurn
    <3>3. OpenStatements(all, 0, names) = {} /\ OpenPortals(all, 0, names) = {}
      <4>1. \A x : Statement(all, 0 + 1, x) = {} /\ Portal(all, 0 + 1, x) = {}
        BY DEF Statement, Portal
      <4>2. QED
        BY <4>1 DEF OpenStatements, OpenPortals, IsOpen
    <3>4. SessionKnown(all, f[0], names)
      BY <3>1, <3>2, <3>3 DEF SessionKnown, PreparedAre, PortalsAre
    <3>5. QED
      BY <1>2, <2>1, <3>4
  <2>3. ASSUME NEW k \in 0 .. n, k \in good, k < n
        PROVE  k + 1 \in good
    <3>1. k + 1 \in 1 .. n /\ k + 1 - 1 = k /\ k + 1 \in 0 .. n
      BY <1>2, <2>3
    <3>2. PICK j : j = k + 1
      OBVIOUS
    <3>3. Understood(f[j].reading, all, Len(f[k].messages), past[j], follower, names)
      <4>1. j \in 1 .. n /\ j - 1 = k
        BY <3>1, <3>2
      <4>2. SessionKnown(all, f[j - 1], names)
        BY <2>1, <2>3, <4>1
      <4>3. QED
        BY <1>8, <4>1, <4>2
    <3>4. /\ f[j].messages = f[k].messages \o past[j]
          /\ f[j].session = f[j].reading.result.session
      <4>1. j \in 1 .. n /\ j - 1 = k
        BY <3>1, <3>2
      <4>2. NextRead(f[j - 1], past[j], follower, f[j])
        BY <1>3, <4>1 DEF ReadInTurn
      <4>3. QED
        BY <4>1, <4>2 DEF NextRead
    <3>5. f[k].messages \in Seq(U) /\ past[j] \in Seq(U)
      BY <1>1, <1>3, <3>1, <3>2 DEF ReadInTurn
    <3>6. Len(f[j].messages) = Len(f[k].messages) + Len(past[j])
      BY <3>4, <3>5, ConcatProperties
    <3>7. SessionKnown(all, f[j], names)
      BY <3>3, <3>4, <3>6 DEF Understood, SessionKnown
    <3>8. QED
      BY <2>1, <3>1, <3>2, <3>7
  <2>4. \A k \in 0 .. n : k \in good
    BY <1>2, <2>2, <2>3, Reached
  <2>5. QED
    BY <2>1, <2>4
<1>10. n \in 1 .. n /\ n - 1 \in 0 .. n /\ n \in 0 .. n
  BY <1>2
<1>11. Understood(f[n].reading, all, Len(f[n - 1].messages), past[n], follower, names)
  BY <1>8, <1>9, <1>10
<1>12. Len(f[n - 1].messages) = Len(all) - Len(past[n])
  <2>1. f[n - 1].messages \in Seq(U) /\ past[n] \in Seq(U)
    <3>1. past[n] \in Seq(U)
      BY <1>1, <1>10
    <3>2. f[n - 1].messages \in Seq(U)
      BY <1>3, <1>10 DEF ReadInTurn
    <3>3. QED
      BY <3>1, <3>2
  <2>2. all = f[n - 1].messages \o past[n]
    BY <1>3, <1>4, <1>10 DEF ReadInTurn, NextRead
  <2>3. Len(all) = Len(f[n - 1].messages) + Len(past[n])
    BY <2>1, <2>2, ConcatProperties
  <2>4. QED
    BY <2>1, <2>3
<1>13. QED
  BY <1>11, <1>12

-----------------------------------------------------------------------------
\* The groups that a run looks at.

Sendable ==
    {Query(sql) : sql \in Keywords} \cup {Parse(name, sql) : name \in Names, sql \in Keywords}
        \cup {Bind(portal, name) : portal \in Names, name \in Names}
        \cup {ExecuteMessage(portal) : portal \in Names}
        \cup {Close(kind, name) : kind \in {"statement", "portal"}, name \in Names}
        \cup {Sync, Message("D")}

IsOrdinary(group) ==
    \/ \E sql \in Keywords : group = <<Query(sql)>>
    \/ \E name \in Names, sql \in Keywords : group = RunAnew(name, sql)
    \/ \E portal \in Names, name \in Names : group = RunAgain(portal, name)
    \/ \E portal \in Names : group = Resume(portal)
    \/ \E name \in Names, sql \in Keywords : group = Describe(name, sql)
    \/ \E kind \in {"statement", "portal"}, name \in Names : group = CloseName(kind, name)
    \/ \E sql \in Keywords : group = Replace(sql)

LEMMA OrdinaryForms ==
    ASSUME NEW group \in Ordinary
    PROVE  IsOrdinary(group)
BY DEF Ordinary, IsOrdinary

\* A group, message by message.
Made(group, S, n) == group \in Seq(S) /\ Len(group) = n

LEMMA TuplesAre ==
    ASSUME NEW S, NEW a \in S, NEW b \in S, NEW c \in S, NEW d \in S
    PROVE  /\ Made(<<a>>, S, 1) /\ <<a>>[1] = a
           /\ Made(<<a, b>>, S, 2) /\ <<a, b>>[1] = a /\ <<a, b>>[2] = b
           /\ Made(<<a, b, c>>, S, 3) /\ <<a, b, c>>[1] = a /\ <<a, b, c>>[2] = b /\ <<a, b, c>>[3] = c
           /\ Made(<<a, b, c, d>>, S, 4) /\ <<a, b, c, d>>[1] = a /\ <<a, b, c, d>>[2] = b
              /\ <<a, b, c, d>>[3] = c /\ <<a, b, c, d>>[4] = d
<1>1. /\ Made(<<a>>, S, 1) /\ <<a>>[1] = a
      /\ Made(<<a, b>>, S, 2) /\ <<a, b>>[1] = a /\ <<a, b>>[2] = b
  BY DEF Made
<1>2. Made(<<a, b, c>>, S, 3) /\ <<a, b, c>>[1] = a /\ <<a, b, c>>[2] = b /\ <<a, b, c>>[3] = c
  BY DEF Made
<1>3. /\ Made(<<a, b, c, d>>, S, 4) /\ <<a, b, c, d>>[1] = a /\ <<a, b, c, d>>[2] = b
      /\ <<a, b, c, d>>[3] = c /\ <<a, b, c, d>>[4] = d
  BY DEF Made
<1>4. QED
  BY <1>1, <1>2, <1>3

LEMMA SendableNames ==
    ASSUME NEW m \in Sendable
    PROVE  /\ m.token \in {"P", "B"} => m.name \in Names
           /\ m.token \in {"B", "E"} => m.portal \in Names
<1>1. ASSUME NEW sql, m = Query(sql) PROVE m.token \notin {"P", "B", "E"}
  BY <1>1 DEF Query
<1>2. ASSUME NEW sql, NEW name \in Names, m = Parse(name, sql)
      PROVE  m.token \notin {"B", "E"} /\ m.name \in Names
  BY <1>2 DEF Parse
<1>3. ASSUME NEW portal \in Names, NEW name \in Names, m = Bind(portal, name)
      PROVE  m.name \in Names /\ m.portal \in Names
  BY <1>3 DEF Bind
<1>4. ASSUME NEW portal \in Names, m = ExecuteMessage(portal)
      PROVE  m.token \notin {"P", "B"} /\ m.portal \in Names
  BY <1>4 DEF ExecuteMessage
<1>5. ASSUME NEW kind, NEW name, m = Close(kind, name) PROVE m.token \notin {"P", "B", "E"}
  BY <1>5 DEF Close
<1>6. ASSUME m \in {Sync, Message("D")} PROVE m.token \notin {"P", "B", "E"}
  BY <1>6 DEF Sync, Message
<1>7. \/ \E sql \in Keywords : m = Query(sql)
      \/ \E name \in Names, sql \in Keywords : m = Parse(name, sql)
      \/ \E portal \in Names, name \in Names : m = Bind(portal, name)
      \/ \E portal \in Names : m = ExecuteMessage(portal)
      \/ \E kind \in {"statement", "portal"}, name \in Names : m = Close(kind, name)
      \/ m \in {Sync, Message("D")}
  BY DEF Sendable
<1>8. QED
  BY <1>1, <1>2, <1>3, <1>4, <1>5, <1>6, <1>7

LEMMA FormsAre ==
    /\ \A sql \in Keywords :
           Made(<<Query(sql)>>, Sendable, 1) /\ <<Query(sql)>>[1] = Query(sql)
    /\ \A name \in Names, sql \in Keywords :
           /\ Made(RunAnew(name, sql), Sendable, 4)
           /\ RunAnew(name, sql)[1] = Parse(name, sql) /\ RunAnew(name, sql)[2] = Bind(Unnamed, name)
           /\ RunAnew(name, sql)[3] = ExecuteMessage(Unnamed) /\ RunAnew(name, sql)[4] = Sync
    /\ \A portal \in Names, name \in Names :
           /\ Made(RunAgain(portal, name), Sendable, 3)
           /\ RunAgain(portal, name)[1] = Bind(portal, name)
           /\ RunAgain(portal, name)[2] = ExecuteMessage(portal)
           /\ RunAgain(portal, name)[3] = Sync
    /\ \A portal \in Names :
           /\ Made(Resume(portal), Sendable, 2)
           /\ Resume(portal)[1] = ExecuteMessage(portal) /\ Resume(portal)[2] = Sync
    /\ \A name \in Names, sql \in Keywords :
           /\ Made(Describe(name, sql), Sendable, 3)
           /\ Describe(name, sql)[1] = Parse(name, sql)
           /\ Describe(name, sql)[2] = Message("D") /\ Describe(name, sql)[3] = Sync
    /\ \A kind \in {"statement", "portal"}, name \in Names :
           /\ Made(CloseName(kind, name), Sendable, 2)
           /\ CloseName(kind, name)[1] = Close(kind, name) /\ CloseName(kind, name)[2] = Sync
    /\ \A sql \in Keywords :
           /\ Made(Replace(sql), Sendable, 3)
           /\ Replace(sql)[1] = Close("statement", "s")
           /\ Replace(sql)[2] = Parse(Unnamed, sql) /\ Replace(sql)[3] = Sync
<1>1. Unnamed \in Names /\ "s" \in Names /\ "statement" \in {"statement", "portal"}
  BY DEF Names
<1>2. /\ \A sql \in Keywords : Query(sql) \in Sendable
      /\ \A name \in Names, sql \in Keywords : Parse(name, sql) \in Sendable
      /\ \A portal \in Names, name \in Names : Bind(portal, name) \in Sendable
      /\ \A portal \in Names : ExecuteMessage(portal) \in Sendable
      /\ \A kind \in {"statement", "portal"}, name \in Names : Close(kind, name) \in Sendable
      /\ Sync \in Sendable /\ Message("D") \in Sendable
  BY DEF Sendable
<1>3. \A sql \in Keywords :
          Made(<<Query(sql)>>, Sendable, 1) /\ <<Query(sql)>>[1] = Query(sql)
  BY <1>2, TuplesAre
<1>4. ASSUME NEW name \in Names, NEW sql \in Keywords
      PROVE  /\ Made(RunAnew(name, sql), Sendable, 4)
             /\ RunAnew(name, sql)[1] = Parse(name, sql) /\ RunAnew(name, sql)[2] = Bind(Unnamed, name)
             /\ RunAnew(name, sql)[3] = ExecuteMessage(Unnamed) /\ RunAnew(name, sql)[4] = Sync
  <2>1. /\ Parse(name, sql) \in Sendable /\ Bind(Unnamed, name) \in Sendable
        /\ ExecuteMessage(Unnamed) \in Sendable /\ Sync \in Sendable
    BY <1>1, <1>2
  <2>2. QED
    BY <2>1, TuplesAre DEF RunAnew
<1>5. ASSUME NEW portal \in Names, NEW name \in Names
      PROVE  /\ Made(RunAgain(portal, name), Sendable, 3)
             /\ RunAgain(portal, name)[1] = Bind(portal, name)
             /\ RunAgain(portal, name)[2] = ExecuteMessage(portal)
             /\ RunAgain(portal, name)[3] = Sync
  <2>1. /\ Bind(portal, name) \in Sendable /\ ExecuteMessage(portal) \in Sendable
        /\ Sync \in Sendable
    BY <1>2
  <2>2. QED
    BY <2>1, TuplesAre DEF RunAgain
<1>6. \A portal \in Names :
          /\ Made(Resume(portal), Sendable, 2)
          /\ Resume(portal)[1] = ExecuteMessage(portal) /\ Resume(portal)[2] = Sync
  BY <1>2, TuplesAre DEF Resume
<1>7. ASSUME NEW name \in Names, NEW sql \in Keywords
      PROVE  /\ Made(Describe(name, sql), Sendable, 3)
             /\ Describe(name, sql)[1] = Parse(name, sql)
             /\ Describe(name, sql)[2] = Message("D") /\ Describe(name, sql)[3] = Sync
  <2>1. Parse(name, sql) \in Sendable /\ Message("D") \in Sendable /\ Sync \in Sendable
    BY <1>2
  <2>2. QED
    BY <2>1, TuplesAre DEF Describe
<1>8. ASSUME NEW kind \in {"statement", "portal"}, NEW name \in Names
      PROVE  /\ Made(CloseName(kind, name), Sendable, 2)
             /\ CloseName(kind, name)[1] = Close(kind, name) /\ CloseName(kind, name)[2] = Sync
  <2>1. Close(kind, name) \in Sendable /\ Sync \in Sendable
    BY <1>2
  <2>2. QED
    BY <2>1, TuplesAre DEF CloseName
<1>9. ASSUME NEW sql \in Keywords
      PROVE  /\ Made(Replace(sql), Sendable, 3)
             /\ Replace(sql)[1] = Close("statement", "s")
             /\ Replace(sql)[2] = Parse(Unnamed, sql) /\ Replace(sql)[3] = Sync
  <2>1. /\ Close("statement", "s") \in Sendable /\ Parse(Unnamed, sql) \in Sendable
        /\ Sync \in Sendable
    BY <1>1, <1>2
  <2>2. QED
    BY <2>1, TuplesAre DEF Replace
<1>10. QED
  BY <1>3, <1>4, <1>5, <1>6, <1>7, <1>8, <1>9

LEMMA TokensAre ==
    /\ \A sql : Query(sql).token = "Q" /\ Query(sql).sql = sql
    /\ \A name, sql : /\ Parse(name, sql).token = "P" /\ Parse(name, sql).name = name
                      /\ Parse(name, sql).sql = sql
    /\ \A portal, name : /\ Bind(portal, name).token = "B" /\ Bind(portal, name).name = name
                         /\ Bind(portal, name).portal = portal
    /\ \A portal : /\ ExecuteMessage(portal).token = "E"
                   /\ ExecuteMessage(portal).portal = portal
    /\ \A kind, name : Close(kind, name).token = "C"
    /\ Sync.token = "S" /\ Message("D").token = "D"
BY DEF Query, Parse, Bind, ExecuteMessage, Close, Sync, Message

LEMMA GroupBy ==
    ASSUME NEW S, NEW n \in Nat \ {0}, NEW group, Made(group, S, n),
           group[n].token \in GroupEnds, \A j \in 1 .. n - 1 : group[j].token \in GroupParts
    PROVE  group \in Seq(S) /\ IsGroup(group)
BY DEF Made, IsGroup

LEMMA OrdinarySent ==
    ASSUME NEW group \in Ordinary
    PROVE  group \in Seq(Sendable) /\ IsGroup(group)
<1>1. IsOrdinary(group)
  BY OrdinaryForms
<1>2. /\ "Q" \in GroupEnds /\ "S" \in GroupEnds
      /\ "P" \in GroupParts /\ "B" \in GroupParts /\ "E" \in GroupParts /\ "C" \in GroupParts
      /\ "D" \in GroupParts
  BY DEF GroupEnds, GroupParts
<1>3. ASSUME Made(group, Sendable, 1), group[1].token \in GroupEnds
      PROVE  group \in Seq(Sendable) /\ IsGroup(group)
  BY <1>3, GroupBy
<1>4. ASSUME Made(group, Sendable, 2), group[2].token \in GroupEnds, group[1].token \in GroupParts
      PROVE  group \in Seq(Sendable) /\ IsGroup(group)
  <2>1. \A j \in 1 .. 2 - 1 : j = 1
    OBVIOUS
  <2>2. QED
    BY <1>4, <2>1, GroupBy
<1>5. ASSUME Made(group, Sendable, 3), group[3].token \in GroupEnds,
             group[1].token \in GroupParts, group[2].token \in GroupParts
      PROVE  group \in Seq(Sendable) /\ IsGroup(group)
  <2>1. \A j \in 1 .. 3 - 1 : j = 1 \/ j = 2
    OBVIOUS
  <2>2. QED
    BY <1>5, <2>1, GroupBy
<1>6. ASSUME Made(group, Sendable, 4), group[4].token \in GroupEnds,
             group[1].token \in GroupParts, group[2].token \in GroupParts,
             group[3].token \in GroupParts
      PROVE  group \in Seq(Sendable) /\ IsGroup(group)
  <2>1. \A j \in 1 .. 4 - 1 : j = 1 \/ j = 2 \/ j = 3
    OBVIOUS
  <2>2. QED
    BY <1>6, <2>1, GroupBy
<1>7. CASE \E sql \in Keywords : group = <<Query(sql)>>
  BY <1>2, <1>3, <1>7, FormsAre, TokensAre
<1>8. CASE \E name \in Names, sql \in Keywords : group = RunAnew(name, sql)
  BY <1>2, <1>6, <1>8, FormsAre, TokensAre
<1>9. CASE \E portal \in Names, name \in Names : group = RunAgain(portal, name)
  BY <1>2, <1>5, <1>9, FormsAre, TokensAre
<1>10. CASE \E portal \in Names : group = Resume(portal)
  BY <1>2, <1>4, <1>10, FormsAre, TokensAre
<1>11. CASE \E name \in Names, sql \in Keywords : group = Describe(name, sql)
  BY <1>2, <1>5, <1>11, FormsAre, TokensAre
<1>12. CASE \E kind \in {"statement", "portal"}, name \in Names : group = CloseName(kind, name)
  BY <1>2, <1>4, <1>12, FormsAre, TokensAre
<1>13. CASE \E sql \in Keywords : group = Replace(sql)
  BY <1>2, <1>5, <1>13, FormsAre, TokensAre
<1>14. QED
  BY <1>1, <1>7, <1>8, <1>9, <1>10, <1>11, <1>12, <1>13 DEF IsOrdinary

-----------------------------------------------------------------------------
\* What an ordinary group is told to run is what its last but one message runs.

LEMMA FirstSpeaks ==
    ASSUME NEW messages, NEW a \in Nat, NEW to \in Nat, a <= to, messages[to].token # "Q",
           messages[a].token \in {"P", "B", "E"}
    PROVE  Told(messages, a, to) = Just(Says(messages, a))
<1>1. PICK speakers : speakers = Speakers(messages, a, to)
  OBVIOUS
<1>2. a \in speakers /\ speakers \in SUBSET Nat /\ \A i \in speakers : a <= i
  BY <1>1 DEF Speakers
<1>3. PICK low : low = Min(speakers)
  OBVIOUS
<1>4. speakers # {}
  BY <1>2
<1>5. low \in speakers /\ low <= a
  BY <1>2, <1>3, <1>4, MinIs
<1>6. low = a
  BY <1>2, <1>5
<1>7. QED
  BY <1>1, <1>3, <1>4, <1>6 DEF Told, Heard

ToldRightly(messages, o, group) ==
    /\ Len(group) = 1 => Told(messages, o + 1, o + Len(group)) = Just(group[1].sql)
    /\ Len(group) > 1 /\ messages[Len(messages) - 1].token = "E" =>
           Told(messages, o + 1, o + Len(group)) = Just(RunBy(messages, Len(messages) - 1))

LEMMA ToldAnew ==
    ASSUME NEW messages, NEW o \in Nat, NEW name, NEW sql,
           messages[o + 1] = Parse(name, sql), messages[o + 2] = Bind(Unnamed, name),
           messages[o + 3] = ExecuteMessage(Unnamed), messages[o + 4] = Sync
    PROVE  Told(messages, o + 1, o + 4) = Just(RunBy(messages, o + 3))
<1>1. PICK a : a = o + 1
  OBVIOUS
<1>2. a \in Nat \ {0} /\ a + 1 = o + 2 /\ a + 1 + 1 = o + 3 /\ a + 1 \in Nat \ {0} /\ a <= o + 4
  BY <1>1
<1>3. messages[a].token = "P" /\ messages[a].name = name /\ messages[a].sql = sql
  BY <1>1, TokensAre
<1>4. /\ messages[a + 1].token = "B" /\ messages[a + 1].portal = Unnamed
      /\ messages[a + 1].name = name
  BY <1>2, TokensAre
<1>5. /\ messages[o + 3].token = "E" /\ messages[o + 3].portal = Unnamed
      /\ messages[o + 4].token = "S"
  BY TokensAre
<1>6. Told(messages, a, o + 4) = Just(sql)
  <2>1. o + 4 \in Nat /\ messages[o + 4].token # "Q"
    BY <1>5
  <2>2. Told(messages, a, o + 4) = Just(Says(messages, a))
    BY <1>2, <1>3, <2>1, FirstSpeaks
  <2>3. QED
    BY <1>3, <2>2 DEF Says
<1>7. Max(Statement(messages, a + 1, name)) = a
  <2>1. StatementMoved(messages, a, name)
    BY <1>2, NamesMove
  <2>2. QED
    BY <1>3, <2>1 DEF StatementMoved, Opens
<1>8. Max(Portal(messages, a + 1 + 1, Unnamed)) = a + 1
  <2>1. PortalMoved(messages, a + 1, Unnamed)
    BY <1>2, NamesMove
  <2>2. QED
    BY <1>4, <2>1 DEF PortalMoved, Binds
<1>9. BoundBy(messages, a + 1) = sql
  BY <1>3, <1>4, <1>7 DEF BoundBy
<1>10. RunBy(messages, o + 3) = BoundBy(messages, a + 1)
  BY <1>2, <1>5, <1>8 DEF RunBy
<1>11. QED
  BY <1>1, <1>6, <1>9, <1>10

LEMMA ToldAgain ==
    ASSUME NEW messages, NEW o \in Nat, NEW portal, NEW name,
           messages[o + 1] = Bind(portal, name), messages[o + 2] = ExecuteMessage(portal),
           messages[o + 3] = Sync
    PROVE  Told(messages, o + 1, o + 3) = Just(RunBy(messages, o + 2))
<1>1. PICK a : a = o + 1
  OBVIOUS
<1>2. a \in Nat \ {0} /\ a + 1 = o + 2 /\ a <= o + 3
  BY <1>1
<1>3. messages[a].token = "B" /\ messages[a].portal = portal
  BY <1>1, TokensAre
<1>4. /\ messages[a + 1].token = "E" /\ messages[a + 1].portal = portal
      /\ messages[o + 3].token = "S"
  BY <1>2, TokensAre
<1>5. Told(messages, a, o + 3) = Just(BoundBy(messages, a))
  <2>1. o + 3 \in Nat /\ messages[o + 3].token # "Q"
    BY <1>4
  <2>2. Told(messages, a, o + 3) = Just(Says(messages, a))
    BY <1>2, <1>3, <2>1, FirstSpeaks
  <2>3. QED
    BY <1>3, <2>2 DEF Says
<1>6. Max(Portal(messages, a + 1, portal)) = a
  <2>1. PortalMoved(messages, a, portal)
    BY <1>2, NamesMove
  <2>2. QED
    BY <1>3, <2>1 DEF PortalMoved, Binds
<1>7. RunBy(messages, a + 1) = BoundBy(messages, a)
  BY <1>4, <1>6 DEF RunBy
<1>8. QED
  BY <1>1, <1>2, <1>5, <1>7

LEMMA ToldResumed ==
    ASSUME NEW messages, NEW o \in Nat, NEW portal,
           messages[o + 1] = ExecuteMessage(portal), messages[o + 2] = Sync
    PROVE  Told(messages, o + 1, o + 2) = Just(RunBy(messages, o + 1))
<1>1. messages[o + 1].token = "E" /\ messages[o + 2].token # "Q"
  BY TokensAre
<1>2. o + 1 \in Nat /\ o + 2 \in Nat /\ o + 1 <= o + 2
  OBVIOUS
<1>3. Told(messages, o + 1, o + 2) = Just(Says(messages, o + 1))
  BY <1>1, <1>2, FirstSpeaks
<1>4. QED
  BY <1>1, <1>3 DEF Says

LEMMA RunsWhatIsTold ==
    ASSUME NEW messages, NEW o \in Nat, NEW group \in Ordinary, IsNext(messages, o, group),
           Len(messages) = o + Len(group)
    PROVE  ToldRightly(messages, o, group)
<1>1. IsOrdinary(group)
  BY OrdinaryForms
<1>2. \A j \in 1 .. Len(group) : group[j] = messages[o + j]
  BY DEF IsNext
<1>3. CASE \E sql \in Keywords : group = <<Query(sql)>>
  <2>1. PICK sql \in Keywords : group = <<Query(sql)>>
    BY <1>3
  <2>2. Len(group) = 1 /\ group[1] = Query(sql)
    BY <2>1, FormsAre DEF Made
  <2>3. messages[o + 1] = group[1] /\ group[1].token = "Q"
    BY <1>2, <2>2, TokensAre
  <2>4. Told(messages, o + 1, o + 1) = Just(group[1].sql)
    BY <2>3 DEF Told
  <2>5. QED
    BY <2>2, <2>4 DEF ToldRightly
<1>4. CASE \E name \in Names, sql \in Keywords : group = RunAnew(name, sql)
  <2>1. PICK name \in Names, sql \in Keywords : group = RunAnew(name, sql)
    BY <1>4
  <2>2. Len(group) = 4 /\ group[1] = Parse(name, sql) /\ group[2] = Bind(Unnamed, name)
        /\ group[3] = ExecuteMessage(Unnamed) /\ group[4] = Sync
    BY <2>1, FormsAre DEF Made
  <2>3. /\ messages[o + 1] = Parse(name, sql) /\ messages[o + 2] = Bind(Unnamed, name)
        /\ messages[o + 3] = ExecuteMessage(Unnamed) /\ messages[o + 4] = Sync
    BY <1>2, <2>2
  <2>4. Told(messages, o + 1, o + 4) = Just(RunBy(messages, o + 3))
    BY <2>3, ToldAnew
  <2>5. Len(messages) - 1 = o + 3
    BY <2>2
  <2>6. QED
    BY <2>2, <2>4, <2>5 DEF ToldRightly
<1>5. CASE \E portal \in Names, name \in Names : group = RunAgain(portal, name)
  <2>1. PICK portal \in Names, name \in Names : group = RunAgain(portal, name)
    BY <1>5
  <2>2. Len(group) = 3 /\ group[1] = Bind(portal, name) /\ group[2] = ExecuteMessage(portal)
        /\ group[3] = Sync
    BY <2>1, FormsAre DEF Made
  <2>3. /\ messages[o + 1] = Bind(portal, name) /\ messages[o + 2] = ExecuteMessage(portal)
        /\ messages[o + 3] = Sync
    BY <1>2, <2>2
  <2>4. Told(messages, o + 1, o + 3) = Just(RunBy(messages, o + 2))
    BY <2>3, ToldAgain
  <2>5. Len(messages) - 1 = o + 2
    BY <2>2
  <2>6. QED
    BY <2>2, <2>4, <2>5 DEF ToldRightly
<1>6. CASE \E portal \in Names : group = Resume(portal)
  <2>1. PICK portal \in Names : group = Resume(portal)
    BY <1>6
  <2>2. Len(group) = 2 /\ group[1] = ExecuteMessage(portal) /\ group[2] = Sync
    BY <2>1, FormsAre DEF Made
  <2>3. messages[o + 1] = ExecuteMessage(portal) /\ messages[o + 2] = Sync
    BY <1>2, <2>2
  <2>4. Told(messages, o + 1, o + 2) = Just(RunBy(messages, o + 1))
    BY <2>3, ToldResumed
  <2>5. Len(messages) - 1 = o + 1
    BY <2>2
  <2>6. QED
    BY <2>2, <2>4, <2>5 DEF ToldRightly
<1>7. ASSUME NEW l \in {2, 3}, Len(group) = l, group[l - 1].token # "E"
      PROVE  ToldRightly(messages, o, group)
  <2>1. l - 1 \in 1 .. Len(group) /\ o + (l - 1) = Len(messages) - 1
    BY <1>7
  <2>2. messages[Len(messages) - 1].token # "E"
    BY <1>2, <1>7, <2>1
  <2>3. Len(group) # 1
    BY <1>7
  <2>4. QED
    BY <2>2, <2>3 DEF ToldRightly
<1>8. CASE \E name \in Names, sql \in Keywords : group = Describe(name, sql)
  <2>1. Len(group) = 3 /\ group[3 - 1].token = "D"
    BY <1>8, FormsAre, TokensAre DEF Made
  <2>2. QED
    BY <1>7, <2>1
<1>9. CASE \E kind \in {"statement", "portal"}, name \in Names : group = CloseName(kind, name)
  <2>1. Len(group) = 2 /\ group[2 - 1].token = "C"
    BY <1>9, FormsAre, TokensAre DEF Made
  <2>2. QED
    BY <1>7, <2>1
<1>10. CASE \E sql \in Keywords : group = Replace(sql)
  <2>1. Len(group) = 3 /\ group[3 - 1].token = "P"
    BY <1>10, FormsAre, TokensAre DEF Made
  <2>2. QED
    BY <1>7, <2>1
<1>11. QED
  BY <1>1, <1>3, <1>4, <1>5, <1>6, <1>8, <1>9, <1>10 DEF IsOrdinary

LEMMA GroupsAreRight == GroupsSayWhatRuns
<1>1. SUFFICES ASSUME NEW n \in 1 .. 3,
                      NEW past \in [1 .. n -> {group \in Ordinary : Len(group) <= MaxMessages}],
                      NEW follower \in {<<>>, <<Query("SELECT")>>}
               PROVE  LET final     == ReadAll(past, follower)
                          messages == final.messages
                          sent     == past[Len(past)]
                          runs     == Len(messages) - 1
                          group    == final.reading.result
                      IN  Legal(messages) /\ HasRoom(messages, Names) =>
                              /\ final.reading.left = follower /\ group.raw = sent
                              /\ Len(sent) = 1 => group.sql = Just(sent[1].sql)
                              /\ Len(sent) > 1 /\ messages[runs].token = "E" =>
                                     group.sql = Just(RunBy(messages, runs))
  BY DEF GroupsSayWhatRuns
<1>2. MaxMessages \in Nat /\ MaxPrepared \in Nat
  BY PostgresAssumption
<1>3. \A k \in 1 .. n : past[k] \in Ordinary /\ Len(past[k]) <= MaxMessages
  OBVIOUS
<1>4. \A k \in 1 .. n : past[k] \in Seq(Sendable) /\ IsGroup(past[k])
  BY <1>3, OrdinarySent
<1>5. past \in Seq(Seq(Sendable)) /\ Len(past) = n
  <2>1. past = [k \in 1 .. n |-> past[k]]
    OBVIOUS
  <2>2. n \in Nat
    OBVIOUS
  <2>3. QED
    BY <1>4, <2>1, <2>2
<1>6. follower \in Seq(Sendable)
  <2>1. "SELECT" \in Keywords
    BY DEF Keywords
  <2>2. <<Query("SELECT")>> \in Seq(Sendable)
    BY <2>1, FormsAre DEF Made
  <2>3. <<>> \in Seq(Sendable)
    OBVIOUS
  <2>4. QED
    BY <2>2, <2>3
<1>7. AreGroups(past)
  BY <1>3, <1>4, <1>5 DEF AreGroups
<1>8. PICK final : final = ReadAll(past, follower)
  OBVIOUS
<1>9. PICK messages : messages = final.messages
  OBVIOUS
<1>10. PICK sent : sent = past[n]
  OBVIOUS
<1>11. messages \in Seq(Sendable)
  <2>1. n \in Nat /\ n \in 0 .. n
    OBVIOUS
  <2>2. PICK f : ReadInTurn(f, Sendable, past, follower, n)
    BY <1>5, <2>1, ReadSoFar
  <2>3. QED
    BY <1>8, <1>9, <2>1, <2>2 DEF ReadInTurn
<1>12. HistoryUnderstood(past, follower, Names)
  BY <1>2, <1>5, <1>6, <1>7, HistoryIsUnderstood
<1>13. ASSUME Legal(messages), HasRoom(messages, Names)
       PROVE  Understood(final.reading, messages, Len(messages) - Len(sent), sent, follower, Names)
  <2>1. IsFiniteSet(Names)
    <3>1. IsFiniteSet({Unnamed}) /\ IsFiniteSet({"s"})
      BY FS_Singleton
    <3>2. Names = {Unnamed} \cup {"s"}
      BY DEF Names
    <3>3. QED
      BY <3>1, <3>2, FS_Union
  <2>2. Named(messages, Names)
    BY <1>11, SendableNames DEF Named
  <2>3. Served(messages, Names)
    BY <1>13, <2>1, <2>2 DEF Served
  <2>4. QED
    BY <1>5, <1>8, <1>9, <1>10, <1>12, <2>3 DEF HistoryUnderstood
<1>14. ASSUME Legal(messages), HasRoom(messages, Names)
       PROVE  /\ final.reading.left = follower /\ final.reading.result.raw = sent
              /\ Len(sent) = 1 => final.reading.result.sql = Just(sent[1].sql)
              /\ Len(sent) > 1 /\ messages[Len(messages) - 1].token = "E" =>
                     final.reading.result.sql = Just(RunBy(messages, Len(messages) - 1))
  <2>1. PICK o : o = Len(messages) - Len(sent)
    OBVIOUS
  <2>2. Understood(final.reading, messages, o, sent, follower, Names)
    BY <1>13, <1>14, <2>1
  <2>3. sent \in Ordinary /\ sent \in Seq(Sendable)
    BY <1>3, <1>4, <1>10
  <2>4. o \in Nat /\ IsNext(messages, o, sent)
    BY <2>2 DEF Understood
  <2>5. Len(messages) = o + Len(sent)
    BY <1>11, <2>1, <2>3
  <2>6. ToldRightly(messages, o, sent)
    BY <2>3, <2>4, <2>5, RunsWhatIsTold
  <2>7. QED
    BY <2>2, <2>6 DEF Understood, ToldRightly
<1>15. QED
  BY <1>5, <1>8, <1>9, <1>10, <1>14

-----------------------------------------------------------------------------
\* What is cut off.

GroupCut(group, before) ==
    /\ ReadGroup(<<>>, before) = Ended
    /\ \A i \in 1 .. Len(group) :
           /\ ReadGroup(SubSeq(group, 1, i - 1) \o <<Torn>>, before) = Failed
           /\ i < Len(group) => ReadGroup(SubSeq(group, 1, i), before) = Failed

LEMMA BeginningOf ==
    ASSUME NEW U, NEW list \in Seq(U), NEW i \in 0 .. Len(list)
    PROVE  /\ SubSeq(list, 1, i) \in Seq(U) /\ Len(SubSeq(list, 1, i)) = i
           /\ \A j \in 1 .. i : SubSeq(list, 1, i)[j] = list[j]
<1>1. \A j \in 1 .. i : list[j] \in U
  OBVIOUS
<1>2. PICK start : start = SubSeq(list, 1, i)
  OBVIOUS
<1>3. i \in Int /\ 1 \in Int
  OBVIOUS
<1>4. /\ start \in Seq(U) /\ Len(start) = IF 1 <= i THEN i - 1 + 1 ELSE 0
      /\ \A j \in 1 .. i - 1 + 1 : start[j] = list[1 + j - 1]
  BY <1>1, <1>2, <1>3, SubSeqProperties
<1>5. Len(start) = i
  BY <1>4
<1>6. \A j \in 1 .. i : start[j] = list[j]
  BY <1>4
<1>7. QED
  BY <1>2, <1>4, <1>5, <1>6

LEMMA GroupIsNotCutShort ==
    ASSUME NEW U, NEW group \in Seq(U), IsGroup(group), NEW before
    PROVE  GroupCut(group, before)
<1>1. ReadGroup(<<>>, before) = Ended
  BY DEF ReadGroup
<1>2. \A j \in 1 .. Len(group) - 1 : group[j].token \notin GroupEnds
  BY DEF IsGroup, GroupParts, GroupEnds
<1>3. Torn.token \notin GroupEnds
  BY DEF Torn, GroupEnds
<1>4. ASSUME NEW i \in 1 .. Len(group)
      PROVE  ReadGroup(SubSeq(group, 1, i - 1) \o <<Torn>>, before) = Failed
  <2>1. PICK start : start = SubSeq(group, 1, i - 1)
    OBVIOUS
  <2>2. i - 1 \in 0 .. Len(group)
    OBVIOUS
  <2>3. /\ start \in Seq(U) /\ Len(start) = i - 1
        /\ \A j \in 1 .. i - 1 : start[j] = group[j]
    BY <2>1, <2>2, BeginningOf
  <2>4. \A j \in 1 .. i - 1 : start[j].token \notin GroupEnds
    BY <1>2, <2>3
  <2>5. PICK socket : socket = start \o <<Torn>>
    OBVIOUS
  <2>6. /\ DOMAIN socket = 1 .. i /\ socket # <<>>
        /\ \A j \in 1 .. i : socket[j] = IF j <= i - 1 THEN start[j] ELSE Torn
    BY <2>3, <2>5
  <2>7. \A j \in DOMAIN socket : socket[j].token \notin GroupEnds
    BY <1>3, <2>4, <2>6
  <2>8. QED
    BY <2>1, <2>5, <2>6, <2>7, NoEndFails
<1>5. ASSUME NEW i \in 1 .. Len(group), i < Len(group)
      PROVE  ReadGroup(SubSeq(group, 1, i), before) = Failed
  <2>1. PICK start : start = SubSeq(group, 1, i)
    OBVIOUS
  <2>2. i \in 0 .. Len(group)
    OBVIOUS
  <2>3. /\ start \in Seq(U) /\ Len(start) = i
        /\ \A j \in 1 .. i : start[j] = group[j]
    BY <2>1, <2>2, BeginningOf
  <2>4. \A j \in DOMAIN start : start[j].token \notin GroupEnds
    BY <1>2, <1>5, <2>3
  <2>5. start # <<>>
    BY <2>3
  <2>6. QED
    BY <2>1, <2>4, <2>5, NoEndFails
<1>6. QED
  BY <1>1, <1>4, <1>5 DEF GroupCut

\* An answer, of messages that end no answer and are none the adapter refuses.
IsAnswer(answer) ==
    \A j \in DOMAIN answer : answer[j].token \notin {"Z"} \cup Unasked \cup Unreadable
AnswerIsTaken(answer) ==
    /\ AnswerOf(Append(answer, Torn)) = Failed
    /\ ~AnswerOf(answer).result.complete
    /\ AnswerOf(answer \o <<Message("Z"), Torn>>) =
           Taken([raw |-> Append(answer, Message("Z")), errors |-> EndsAt(answer, {"E"}),
                  complete |-> TRUE],
                 <<Torn>>)

LEMMA AnswersAreTaken ==
    ASSUME NEW U, NEW answer \in Seq(U), IsAnswer(answer)
    PROVE  AnswerIsTaken(answer)
<1>1. PICK n : n = Len(answer)
  OBVIOUS
<1>2. n \in Nat /\ DOMAIN answer = 1 .. n
  BY <1>1
<1>3. Torn.token = "torn" /\ Message("Z").token = "Z"
  BY DEF Torn, Message
<1>4. \A j \in 1 .. n : /\ answer[j].token # "Z" /\ answer[j].token \notin Unasked \cup Unreadable
  BY <1>2 DEF IsAnswer
<1>5. AnswerOf(Append(answer, Torn)) = Failed
  <2>1. PICK socket : socket = Append(answer, Torn)
    OBVIOUS
  <2>2. /\ DOMAIN socket = 1 .. n + 1 /\ socket[n + 1] = Torn
        /\ \A j \in 1 .. n : socket[j] = answer[j]
    BY <1>1, <2>1
  <2>3. EndsAt(socket, {"Z"}) = {}
    <3>1. \A j \in 1 .. n + 1 : j \in 1 .. n \/ j = n + 1
      BY <1>2
    <3>2. \A j \in 1 .. n + 1 : socket[j].token # "Z"
      BY <1>3, <1>4, <2>2, <3>1
    <3>3. QED
      BY <2>2, <3>2 DEF EndsAt
  <2>4. n + 1 \in EndsAt(socket, Unasked \cup Unreadable)
    BY <1>2, <1>3, <2>2 DEF EndsAt, Unreadable
  <2>5. AnswerOf(socket) = Failed
    BY <2>3, <2>4 DEF AnswerOf
  <2>6. QED
    BY <2>1, <2>5
<1>6. ~AnswerOf(answer).result.complete
  <2>1. EndsAt(answer, {"Z"}) = {} /\ EndsAt(answer, Unasked \cup Unreadable) = {}
    BY <1>2, <1>4 DEF EndsAt
  <2>2. AnswerOf(answer) =
            Taken([raw |-> answer, errors |-> EndsAt(answer, {"E"}), complete |-> FALSE],
                  SubSeq(answer, Len(answer) + 1, Len(answer)))
    BY <2>1 DEF AnswerOf
  <2>3. QED
    BY <2>2 DEF Taken
<1>7. AnswerOf(answer \o <<Message("Z"), Torn>>) =
          Taken([raw |-> Append(answer, Message("Z")), errors |-> EndsAt(answer, {"E"}),
                 complete |-> TRUE],
                <<Torn>>)
  <2>1. PICK z : z = Message("Z")
    OBVIOUS
  <2>2. PICK W : W = U \cup {z, Torn}
    OBVIOUS
  <2>3. PICK whole : whole = Append(answer, z)
    OBVIOUS
  <2>4. PICK socket : socket = answer \o <<z, Torn>>
    OBVIOUS
  <2>5. /\ whole \in Seq(W) /\ <<Torn>> \in Seq(W) /\ Len(whole) = n + 1 /\ DOMAIN whole = 1 .. n + 1
        /\ whole[n + 1] = z /\ \A j \in 1 .. n : whole[j] = answer[j]
    <3>1. answer \in Seq(W) /\ z \in W
      BY <2>2
    <3>2. <<Torn>> \in Seq(W)
      BY <2>2
    <3>3. QED
      BY <1>1, <2>3, <3>1, <3>2
  <2>6. socket = whole \o <<Torn>>
    <3>1. /\ answer \in Seq(W) /\ <<z, Torn>> \in Seq(W) /\ Len(<<z, Torn>>) = 2
          /\ <<z, Torn>>[1] = z /\ <<z, Torn>>[2] = Torn
      BY <2>2
    <3>2. /\ socket \in Seq(W) /\ Len(socket) = n + 2 /\ socket[n + 1] = z
          /\ socket[n + 2] = Torn /\ \A j \in 1 .. n : socket[j] = answer[j]
      BY <1>1, <2>4, <3>1
    <3>3. PICK other : other = whole \o <<Torn>>
      OBVIOUS
    <3>4. /\ other \in Seq(W) /\ Len(other) = n + 2 /\ other[n + 2] = Torn
          /\ \A j \in 1 .. n + 1 : other[j] = whole[j]
      BY <1>2, <2>5, <3>3
    <3>5. \A j \in 1 .. n + 2 : j \in 1 .. n \/ j = n + 1 \/ j = n + 2
      BY <1>2
    <3>6. \A j \in 1 .. n : j \in 1 .. n + 1
      BY <1>2
    <3>7. n + 1 \in 1 .. n + 1
      BY <1>2
    <3>8. \A j \in 1 .. n + 2 : socket[j] = other[j]
      BY <2>5, <3>2, <3>4, <3>5, <3>6, <3>7
    <3>9. socket = other
      BY <3>2, <3>4, <3>8, SeqEqual
    <3>10. QED
      BY <3>3, <3>9
  <2>7. /\ SubSeq(socket, 1, n + 1) = whole
        /\ SubSeq(socket, n + 1 + 1, Len(socket)) = <<Torn>>
    <3>1. Len(whole) # 0
      BY <1>2, <2>5
    <3>2. PICK rest : rest = <<Torn>>
      OBVIOUS
    <3>3. whole \in Seq(W) /\ rest \in Seq(W)
      BY <2>5, <3>2
    <3>4. /\ SubSeq(whole \o rest, 1, Len(whole)) = whole
          /\ SubSeq(whole \o rest, Len(whole) + 1, Len(whole \o rest)) = rest
      BY <3>1, <3>3, Parted
    <3>5. QED
      BY <2>5, <2>6, <3>2, <3>4
  <2>8. /\ DOMAIN socket = 1 .. n + 2 /\ socket[n + 1] = z /\ socket[n + 2] = Torn
        /\ \A j \in 1 .. n : socket[j] = answer[j]
    BY <1>1, <2>4
  <2>9. EndsAt(socket, {"Z"}) = {n + 1}
    <3>1. \A j \in 1 .. n + 2 : j \in 1 .. n \/ j = n + 1 \/ j = n + 2
      BY <1>2
    <3>2. \A j \in 1 .. n + 2 : socket[j].token = "Z" <=> j = n + 1
      BY <1>2, <1>3, <1>4, <2>1, <2>8, <3>1
    <3>3. n + 1 \in 1 .. n + 2
      BY <1>2
    <3>4. QED
      BY <2>8, <3>2, <3>3 DEF EndsAt
  <2>10. Min({n + 1}) = n + 1
    <3>1. {n + 1} \in SUBSET Nat /\ {n + 1} # {}
      BY <1>2
    <3>2. Min({n + 1}) \in {n + 1}
      BY <3>1, MinIs
    <3>3. QED
      BY <3>2
  <2>11. \A j \in 1 .. n + 1 : j \in 1 .. n \/ j = n + 1
    BY <1>2
  <2>12. EndsAt(whole, Unasked \cup Unreadable) = {}
    <3>1. "Z" \notin Unasked \cup Unreadable
      BY DEF Unasked, Unreadable
    <3>2. \A j \in 1 .. n + 1 : whole[j].token \notin Unasked \cup Unreadable
      BY <1>3, <1>4, <2>1, <2>5, <2>11, <3>1
    <3>3. QED
      BY <2>5, <3>2 DEF EndsAt
  <2>13. EndsAt(whole, {"E"}) = EndsAt(answer, {"E"})
    <3>1. \A j \in 1 .. n + 1 : whole[j].token = "E" <=> j \in 1 .. n /\ answer[j].token = "E"
      BY <1>2, <1>3, <2>1, <2>5, <2>11
    <3>2. \A j \in 1 .. n : j \in 1 .. n + 1
      BY <1>2
    <3>3. QED
      BY <1>2, <2>5, <3>1, <3>2 DEF EndsAt
  <2>14. AnswerOf(socket) =
             Taken([raw |-> whole, errors |-> EndsAt(whole, {"E"}), complete |-> TRUE],
                   SubSeq(socket, Len(whole) + 1, Len(socket)))
    <3>1. EndsAt(socket, {"Z"}) # {} /\ SubSeq(socket, 1, Min(EndsAt(socket, {"Z"}))) = whole
      BY <2>7, <2>9, <2>10
    <3>2. QED
      BY <2>12, <3>1 DEF AnswerOf
  <2>15. QED
    BY <2>1, <2>3, <2>4, <2>5, <2>7, <2>13, <2>14
<1>8. QED
  BY <1>5, <1>6, <1>7 DEF AnswerIsTaken

LEMMA NothingIsCutShort == NoneIsCutShort
<1>1. ASSUME NEW group \in Ordinary
      PROVE  FailsWhenCut(group, LAMBDA socket : ReadGroup(socket, NewSession))
  <2>1. GroupCut(group, NewSession)
    BY OrdinarySent, GroupIsNotCutShort
  <2>2. QED
    BY <2>1 DEF GroupCut, FailsWhenCut
<1>2. ASSUME NEW i \in 1 .. 2, NEW answer \in [1 .. i -> {Message("D"), Message("E"), Message("N")}]
      PROVE  /\ AnswerOf(Append(answer, Torn)) = Failed
             /\ ~AnswerOf(answer).result.complete
             /\ AnswerOf(answer \o <<Message("Z"), Torn>>) =
                    Taken([raw |-> Append(answer, Message("Z")),
                           errors |-> {j \in DOMAIN answer : answer[j] = Message("E")},
                           complete |-> TRUE],
                          <<Torn>>)
  <2>1. PICK three : three = {Message("D"), Message("E"), Message("N")}
    OBVIOUS
  <2>2. answer \in Seq(three) /\ DOMAIN answer = 1 .. i
    <3>1. i \in Nat
      OBVIOUS
    <3>2. QED
      BY <2>1, <3>1
  <2>3. \A m \in three : /\ m.token \in {"D", "E", "N"}
                         /\ m.token = "E" <=> m = Message("E")
    BY <2>1 DEF Message
  <2>4. \A j \in 1 .. i : answer[j] \in three
    BY <2>1
  <2>5. IsAnswer(answer)
    BY <2>2, <2>3, <2>4 DEF IsAnswer, Unasked, Unreadable
  <2>6. EndsAt(answer, {"E"}) = {j \in DOMAIN answer : answer[j] = Message("E")}
    BY <2>2, <2>3, <2>4 DEF EndsAt
  <2>7. AnswerIsTaken(answer)
    BY <2>2, <2>5, AnswersAreTaken
  <2>8. QED
    BY <2>6, <2>7 DEF AnswerIsTaken
<1>3. QED
  BY <1>1, <1>2 DEF NoneIsCutShort

-----------------------------------------------------------------------------
\* Startup.

AsksForEncryption(m) == m.token = "startup" /\ m.code \in Encryptions
StartupTaken(offers, packet, next) ==
    /\ ReadStartup(offers) = Ended
    /\ ReadStartup(offers \o <<packet, next>>) =
           Taken([packet |-> packet, refusals |-> Len(offers)], <<next>>)

LEMMA StartupIsTaken ==
    ASSUME NEW U, NEW offers \in Seq(U), NEW packet, NEW next,
           \A i \in DOMAIN offers : AsksForEncryption(offers[i]),
           packet.token = "startup", packet.code \notin Encryptions
    PROVE  StartupTaken(offers, packet, next)
<1>1. PICK n : n = Len(offers)
  OBVIOUS
<1>2. n \in Nat /\ DOMAIN offers = 1 .. n
  BY <1>1
<1>3. ReadStartup(offers) = Ended
  <2>1. {i \in DOMAIN offers : ~(offers[i].token = "startup" /\ offers[i].code \in Encryptions)} = {}
    BY DEF AsksForEncryption
  <2>2. QED
    BY <2>1 DEF ReadStartup
<1>4. PICK socket : socket = offers \o <<packet, next>>
  OBVIOUS
<1>5. PICK W : W = U \cup {packet, next}
  OBVIOUS
<1>6. offers \in Seq(W) /\ <<packet, next>> \in Seq(W) /\ Len(<<packet, next>>) = 2
      /\ <<packet, next>>[1] = packet /\ <<packet, next>>[2] = next
  BY <1>5
<1>7. /\ socket \in Seq(W) /\ Len(socket) = n + 2 /\ DOMAIN socket = 1 .. n + 2
      /\ socket[n + 1] = packet /\ socket[n + 2] = next
      /\ \A i \in 1 .. n : socket[i] = offers[i]
  BY <1>1, <1>4, <1>6
<1>8. PICK others : others = {i \in DOMAIN socket :
                                  ~(socket[i].token = "startup" /\ socket[i].code \in Encryptions)}
  OBVIOUS
<1>9. /\ n + 1 \in others /\ others \in SUBSET Nat
      /\ \A i \in others : i >= n + 1
  <2>1. n + 1 \in others
    BY <1>2, <1>7, <1>8
  <2>2. \A i \in 1 .. n : i \notin others
    BY <1>2, <1>7, <1>8 DEF AsksForEncryption
  <2>3. \A i \in others : i \in 1 .. n + 2
    BY <1>7, <1>8
  <2>4. \A i \in 1 .. n + 2 : i \in 1 .. n \/ i >= n + 1
    BY <1>2
  <2>5. others \in SUBSET Nat
    BY <1>2, <2>3
  <2>6. QED
    BY <2>1, <2>2, <2>3, <2>4, <2>5
<1>10. others # {} /\ Min(others) = n + 1
  <2>1. PICK low : low = Min(others)
    OBVIOUS
  <2>2. low \in others /\ low <= n + 1
    BY <1>9, <2>1, MinIs
  <2>3. low = n + 1
    BY <1>2, <1>9, <2>2
  <2>4. QED
    BY <1>9, <2>1, <2>3
<1>11. SubSeq(socket, n + 1 + 1, Len(socket)) = <<next>>
  <2>1. PICK l : l = n + 2
    OBVIOUS
  <2>2. l \in Int /\ socket[l] = next /\ next \in W
    BY <1>2, <1>5, <1>7, <2>1
  <2>3. PICK rest : rest = SubSeq(socket, l, l)
    OBVIOUS
  <2>4. rest \in Seq(W) /\ Len(rest) = 1 /\ rest[1] = next
    <3>1. \A i \in l .. l : socket[i] \in W
      BY <2>2
    <3>2. /\ rest \in Seq(W) /\ Len(rest) = IF l <= l THEN l - l + 1 ELSE 0
          /\ \A i \in 1 .. l - l + 1 : rest[i] = socket[l + i - 1]
      BY <2>2, <2>3, <3>1, SubSeqProperties
    <3>3. l <= l /\ l - l + 1 = 1 /\ l + 1 - 1 = l /\ 1 \in 1 .. 1
      BY <2>2
    <3>4. QED
      BY <2>2, <3>2, <3>3
  <2>5. PICK one : one = <<next>>
    OBVIOUS
  <2>6. one \in Seq(W) /\ Len(one) = 1 /\ one[1] = next
    BY <1>5, <2>5
  <2>7. \A i \in 1 .. 1 : i = 1
    OBVIOUS
  <2>8. \A i \in 1 .. Len(rest) : rest[i] = one[i]
    BY <2>4, <2>6, <2>7
  <2>9. rest = one
    BY <2>4, <2>6, <2>8, SeqEqual
  <2>10. n + 1 + 1 = n + 2
    BY <1>2
  <2>11. QED
    BY <1>7, <2>1, <2>3, <2>5, <2>9, <2>10
<1>12. ReadStartup(socket) = Taken([packet |-> packet, refusals |-> n], <<next>>)
  <2>1. socket[Min(others)] = packet /\ Min(others) - 1 = n
    BY <1>2, <1>7, <1>10
  <2>2. SubSeq(socket, Min(others) + 1, Len(socket)) = <<next>>
    BY <1>10, <1>11
  <2>3. QED
    BY <1>8, <1>10, <2>1, <2>2 DEF ReadStartup
<1>13. QED
  BY <1>1, <1>3, <1>4, <1>12 DEF StartupTaken

LEMMA PairIs ==
    ASSUME NEW a, NEW b
    PROVE  <<a>> \o <<>> = <<a>> /\ <<a>> \o <<b>> = <<a, b>>
<1>1. PICK S : S = {a, b}
  OBVIOUS
<1>2. PICK one, other, two : one = <<a>> /\ other = <<b>> /\ two = <<a, b>>
  OBVIOUS
<1>3. /\ one \in Seq(S) /\ Len(one) = 1 /\ one[1] = a
      /\ other \in Seq(S) /\ Len(other) = 1 /\ other[1] = b
      /\ two \in Seq(S) /\ Len(two) = 2 /\ two[1] = a /\ two[2] = b
  BY <1>1, <1>2
<1>4. one \o <<>> = one
  BY <1>3, ConcatEmptySeq
<1>5. PICK both : both = one \o other
  OBVIOUS
<1>6. both \in Seq(S) /\ Len(both) = 2 /\ both[1] = a /\ both[2] = b
  <2>1. /\ both \in Seq(S) /\ Len(both) = Len(one) + Len(other)
        /\ \A i \in 1 .. Len(one) + Len(other) :
               both[i] = IF i <= Len(one) THEN one[i] ELSE other[i - Len(one)]
    BY <1>3, <1>5, ConcatProperties
  <2>2. QED
    BY <1>3, <2>1
<1>7. \A i \in 1 .. Len(both) : both[i] = two[i]
  <2>1. \A i \in 1 .. 2 : i = 1 \/ i = 2
    OBVIOUS
  <2>2. QED
    BY <1>3, <1>6, <2>1
<1>8. both = two
  BY <1>3, <1>6, <1>7, SeqEqual
<1>9. QED
  BY <1>2, <1>4, <1>5, <1>8

User == <<"user", "alice">>
Database == <<"database", "ledger">>
LEMMA FieldsAre ==
    /\ LastField(<<User>>, "user") = "alice" /\ LastField(<<User>>, "database") = ""
    /\ LastField(<<User, Database>>, "database") = "ledger"
<1>1. User[1] = "user" /\ User[2] = "alice" /\ Database[1] = "database" /\ Database[2] = "ledger"
  BY DEF User, Database
<1>2. \A i \in Nat : Max({i}) = i
  <2>1. SUFFICES ASSUME NEW i \in Nat PROVE Max({i}) = i
    OBVIOUS
  <2>2. \E x \in {i} : \A y \in {i} : x >= y
    OBVIOUS
  <2>3. Max({i}) \in {i}
    BY <2>2 DEF Max
  <2>4. QED
    BY <2>3
<1>3. PICK one : one = <<User>>
  OBVIOUS
<1>4. PICK two : two = <<User, Database>>
  OBVIOUS
<1>5. DOMAIN one = {1} /\ one[1] = User /\ DOMAIN two = {1, 2} /\ two[1] = User /\ two[2] = Database
  BY <1>3, <1>4
<1>6. /\ {i \in DOMAIN one : one[i][1] = "user"} = {1}
      /\ {i \in DOMAIN one : one[i][1] = "database"} = {}
      /\ {i \in DOMAIN two : two[i][1] = "database"} = {2}
  BY <1>1, <1>5
<1>7. LastField(one, "user") = "alice"
  BY <1>1, <1>2, <1>5, <1>6 DEF LastField
<1>8. LastField(one, "database") = ""
  BY <1>6 DEF LastField
<1>9. LastField(two, "database") = "ledger"
  BY <1>1, <1>2, <1>5, <1>6 DEF LastField
<1>10. QED
  BY <1>3, <1>4, <1>7, <1>8, <1>9

LEMMA StartupsAreRight == StartupsAreUnderstood
<1>1. SUFFICES ASSUME NEW n \in 0 .. 2,
                      NEW offers \in [1 .. n -> {StartupPacket(code, <<>>) : code \in {"ssl", "gssenc"}}],
                      NEW code \in {"v3", "cancel"}, NEW database \in {<<>>, <<Database>>}
               PROVE  LET packet == StartupPacket(code, <<User>> \o database)
                      IN  /\ ReadStartup(offers \o <<packet, Sync>>) =
                                 Taken([packet |-> packet, refusals |-> Len(offers)], <<Sync>>)
                          /\ code = "v3" =>
                                 DatabaseOf(packet) =
                                     (IF database = <<>> THEN "alice" ELSE "ledger")
                          /\ ReadStartup(offers) = Ended
  BY DEF StartupsAreUnderstood, User, Database
<1>2. PICK requests : requests = {StartupPacket(c, <<>>) : c \in {"ssl", "gssenc"}}
  OBVIOUS
<1>3. \A m \in requests : AsksForEncryption(m)
  BY <1>2 DEF StartupPacket, AsksForEncryption, Encryptions
<1>4. offers \in Seq(requests) /\ \A i \in DOMAIN offers : offers[i] \in requests
  <2>1. n \in Nat
    OBVIOUS
  <2>2. QED
    BY <1>2, <2>1
<1>5. PICK fields : fields = <<User>> \o database
  OBVIOUS
<1>6. fields = IF database = <<>> THEN <<User>> ELSE <<User, Database>>
  <2>1. PICK us, ds : us = User /\ ds = Database
    OBVIOUS
  <2>2. <<us>> \o <<>> = <<us>> /\ <<us>> \o <<ds>> = <<us, ds>>
    BY PairIs
  <2>3. <<ds>> # <<>>
    OBVIOUS
  <2>4. QED
    BY <1>5, <2>1, <2>2, <2>3
<1>7. PICK packet : packet = StartupPacket(code, fields)
  OBVIOUS
<1>8. packet.token = "startup" /\ packet.code = code /\ packet.fields = fields
  BY <1>7 DEF StartupPacket
<1>9. packet.code \notin Encryptions
  BY <1>8 DEF Encryptions
<1>10. StartupTaken(offers, packet, Sync)
  BY <1>3, <1>4, <1>8, <1>9, StartupIsTaken
<1>11. code = "v3" => DatabaseOf(packet) = (IF database = <<>> THEN "alice" ELSE "ledger")
  <2>1. ASSUME code = "v3", database = <<>>
        PROVE  DatabaseOf(packet) = "alice"
    <3>1. LastField(packet.fields, "database") = "" /\ LastField(packet.fields, "user") = "alice"
      BY <1>6, <1>8, <2>1, FieldsAre
    <3>2. QED
      BY <1>8, <2>1, <3>1 DEF DatabaseOf
  <2>2. ASSUME code = "v3", database # <<>>
        PROVE  DatabaseOf(packet) = "ledger"
    <3>1. LastField(packet.fields, "database") = "ledger"
      BY <1>6, <1>8, <2>2, FieldsAre
    <3>2. "ledger" # ""
      OBVIOUS
    <3>3. QED
      BY <1>8, <2>2, <3>1, <3>2 DEF DatabaseOf
  <2>3. QED
    BY <2>1, <2>2
<1>12. QED
  BY <1>5, <1>7, <1>10, <1>11 DEF StartupTaken

\* Read one after another, the groups of a history of any length, of any messages
\* and with any names, are reported to run what the server runs for them
\* (read_group, Session), if it fits the limits of a group and of a session; a
\* group that was cut off is none; and so every run of the adapter starts from the
\* groups, answers and startups that are looked at being understood.
THEOREM GroupsAlwaysUnderstood ==
    /\ \A U, names : \A past \in Seq(Seq(U)), follower \in Seq(U) :
           Len(past) # 0 /\ AreGroups(past) => HistoryUnderstood(past, follower, names)
    /\ \A U, before : \A group \in Seq(U) : IsGroup(group) => GroupCut(group, before)
    /\ Spec => []GroupsAreUnderstood
<1>1. \A U, names : \A past \in Seq(Seq(U)), follower \in Seq(U) :
          Len(past) # 0 /\ AreGroups(past) => HistoryUnderstood(past, follower, names)
  BY PostgresAssumption, HistoryIsUnderstood
<1>2. \A U, before : \A group \in Seq(U) : IsGroup(group) => GroupCut(group, before)
  BY GroupIsNotCutShort
<1>3. GroupsAreUnderstood
  BY GroupsAreRight, NothingIsCutShort, StartupsAreRight DEF GroupsAreUnderstood
<1>4. Spec => []GroupsAreUnderstood
  BY <1>3, PTL
<1>5. QED
  BY <1>1, <1>2, <1>4
=============================================================================
