----------------------------- MODULE HttpProofs -----------------------------
(***************************************************************************)
(* Theorems about an HTTP connection, for any scenario and any number of   *)
(* requests, about the two HTTP checkers, for any observations, and about  *)
(* HTTP messages, for heads and bodies of any size.                        *)
(*                                                                         *)
(* The invariant says which of two requests goes to the service first      *)
(* (Before: an earlier one, if a request in between started an exchange,   *)
(* else the later one), where a request and its answer are, and that what  *)
(* was answered at a fork comes before all that is still to be answered.   *)
(* The checkers are followed event by event: what each holds after the     *)
(* first n (EndInv, RetryInv) says what of them was left open.             *)
(*                                                                         *)
(* A message is a head without a blank, a blank and a rest (Opened).  The  *)
(* head says how the rest is read (SaysItself), and what is read of a      *)
(* chunked rest after k turns of the loop (AfterTurns) is the body up to   *)
(* the end of the k-th chunk, or nothing if that is missing.               *)
(***************************************************************************)
EXTENDS MCHttpProxy, FiniteSetTheorems, SequenceTheorems, NaturalsInduction, WellFoundedInduction, TLAPS

Verdicts == {"allow", "delay", "drop", "reorder", "close", "corrupt"}
Replies == [request : Nat, closes : BOOLEAN]
Responses == [request : Nat, decision : Verdicts]
Stages == {"accepted", "refused", "reading", "forwarding", "awaiting", "answering", "ended"}

\* Every variable holds what the code's types allow.
Typed ==
    /\ sent \in Nat /\ got \in Seq(Nat) /\ written \in Seq(Nat)
    /\ deferred \in Seq(Nat) /\ batch \in Seq(Nat) /\ pending \in Seq(Nat)
    /\ answers \in Seq(Replies) /\ held \in Seq(Replies)
    /\ decided \in Seq(Verdicts) /\ responded \in Seq(Responses)
    /\ service \in {"open", "busy", "parted", "dead"}
    /\ reply \in {"none", "stay", "close", "refused"}
    /\ pc \in Stages /\ outcome \in {"none", "ok", "error"}
    /\ last \in BOOLEAN /\ alive \in BOOLEAN /\ fired \in BOOLEAN

\* The numbers of the requests a sequence is about, and how they are ordered.
Keys(list) == [i \in 1 .. Len(list) |-> list[i].request]
Among(numbers) == {numbers[i] : i \in 1 .. Len(numbers)}
Rising(numbers) == \A i, j \in 1 .. Len(numbers) : i < j => numbers[i] < numbers[j]
Falling(numbers) == \A i, j \in 1 .. Len(numbers) : i < j => numbers[i] > numbers[j]

Sending == {"forwarding", "awaiting"}

\* What serve_connection and exchange keep at each stage.
Shape ==
    /\ pc \in {"accepted", "refused", "reading"} =>
           Len(batch) = 0 /\ Len(answers) = 0 /\ Len(held) = 0 /\ ~last
    /\ pc \in Sending => Len(deferred) = 0 /\ Len(batch) # 0 /\ Len(held) = 0
    /\ pc = "answering" => Len(deferred) = 0 /\ Len(batch) = 0
    /\ Len(pending) = (IF pc = "awaiting" THEN 1 ELSE 0)
    /\ pc # "ended" => outcome = "none" /\ ~fired

-----------------------------------------------------------------------------
\* The order of the requests.

Starts(decision) == decision \in {"allow", "delay", "corrupt"}
Passes(decision) == decision = "reorder" \/ Starts(decision)

\* The first of two requests goes before the second.
Before(choices, first, second) ==
    /\ first # second
    /\ first > second => \A q \in second .. first - 1 : ~Starts(choices[q])
    /\ first < second => \E q \in first .. second - 1 : Starts(choices[q])

WrittenInOrder ==
    /\ \A i, j \in 1 .. Len(written) : i < j => Before(decided, written[i], written[j])
    /\ \A r \in Among(written) : r \in 1 .. Len(decided) /\ Passes(decided[r])

\* Deferred requests wait for the next that starts an exchange.
DeferredWait ==
    pc # "ended" =>
        /\ Rising(deferred)
        /\ \A r \in Among(deferred) :
               /\ r \in 1 .. Len(decided) /\ Passes(decided[r])
               /\ \A q \in r .. Len(decided) : ~Starts(decided[q])

\* An exchange sends its newest request first, and what it sends goes after
\* what was sent before it and before what will be read after it.
BatchInOrder ==
    pc # "ended" =>
        /\ Falling(batch)
        /\ \A r \in Among(batch) : r \in 1 .. Len(decided) /\ Passes(decided[r])
        /\ \A r, s \in Among(batch) : r > s => Before(decided, r, s)
        /\ \A r \in Among(written), s \in Among(batch) :
               Before(decided, r, s) \/ (pc = "awaiting" /\ s = Head(batch))
        /\ ~last => \A r \in Among(written) \cup Among(batch) :
                        \E q \in r .. Len(decided) : Starts(decided[q])

OrderInv == WrittenInOrder /\ DeferredWait /\ BatchInOrder

-----------------------------------------------------------------------------
\* The order of the answers.

Settled == Among(Keys(responded))

\* A client gets an answer its fork passed on or put last.
GotInOrder ==
    /\ Rising(Keys(responded))
    /\ \A i, j \in 1 .. Len(got) :
           i < j => /\ got[i] # got[j]
                    /\ got[i] > got[j] =>
                           [request |-> got[j], decision |-> "reorder"] \in Among(responded)
    /\ \A r \in Among(got) :
           \E choice \in Among(responded) : choice.request = r /\ choice.decision # "drop"

HeldInOrder ==
    pc # "ended" =>
        /\ Rising(Keys(held))
        /\ \A r \in Among(Keys(held)) :
               r \notin Among(got) /\ [request |-> r, decision |-> "reorder"] \in Among(responded)

\* What was answered at its fork was asked before what was not.
AnswersInOrder ==
    pc # "ended" =>
        /\ pc \in Sending => /\ Falling(Keys(answers))
                             /\ \A r \in Among(Keys(answers)), s \in Among(batch) : r > s
        /\ pc = "answering" => Rising(Keys(answers))
        /\ \A r \in Settled \cup Among(Keys(answers)) : r \in 1 .. Len(decided)
        /\ \A r \in Settled, s \in Among(deferred) \cup Among(batch) \cup Among(Keys(answers)) :
               r < s

AnswersInv == GotInOrder /\ HeldInOrder /\ AnswersInOrder

-----------------------------------------------------------------------------
\* Nothing is lost.

DroppedAt(r) == [request |-> r, decision |-> "drop"] \in Among(responded)
Awaited == IF pc = "awaiting" THEN {Head(batch)} ELSE {}

\* A request that was not dropped is deferred, to be sent or sent, and one that
\* was sent has its answer somewhere, or had it dropped.
Accounted ==
    pc # "ended" =>
        /\ \A r \in 1 .. Len(decided) :
               decided[r] = "drop"
                   \/ r \in Among(deferred) \cup Among(batch) \cup Among(written)
        /\ Among(written) \subseteq
               {r \in 1 .. Len(decided) : DroppedAt(r)} \cup Among(got)
                   \cup Among(Keys(held)) \cup Among(Keys(answers)) \cup Awaited
        /\ Among(Keys(held)) \cup Among(Keys(answers)) \cup Awaited \cup Among(got)
               \subseteq Among(written)

HttpInv == Typed /\ Shape /\ OrderInv /\ AnswersInv /\ Accounted

-----------------------------------------------------------------------------
\* What the operators on sequences do to their members and their order.

LEMMA NumbersTyped ==
    ASSUME NEW s \in Seq(Nat)
    PROVE  /\ Len(s) \in Nat /\ \A i \in 1 .. Len(s) : s[i] \in Nat
           /\ Among(s) \subseteq Nat
           /\ s = <<>> <=> Len(s) = 0
           /\ Len(s) = 0 => Among(s) = {} /\ Rising(s) /\ Falling(s)
<1>1. Len(s) \in Nat /\ \A i \in 1 .. Len(s) : s[i] \in Nat
  BY LenProperties, ElementOfSeq
<1>2. s = <<>> <=> Len(s) = 0
  BY EmptySeq
<1>3. QED
  BY <1>1, <1>2 DEF Among, Rising, Falling

LEMMA NumbersAppended ==
    ASSUME NEW s \in Seq(Nat), NEW e \in Nat, NEW t, t = Append(s, e)
    PROVE  /\ t \in Seq(Nat) /\ Len(t) = Len(s) + 1
           /\ Among(t) = Among(s) \cup {e}
           /\ \A i \in 1 .. Len(s) : t[i] = s[i]
           /\ t[Len(s) + 1] = e
           /\ Rising(s) /\ (\A x \in Among(s) : x < e) => Rising(t)
           /\ Falling(s) /\ (\A x \in Among(s) : x > e) => Falling(t)
<1>1. /\ t \in Seq(Nat) /\ Len(t) = Len(s) + 1 /\ Len(s) \in Nat
      /\ \A i \in 1 .. Len(s) : t[i] = s[i]
      /\ t[Len(s) + 1] = e
  BY AppendProperties, LenProperties
<1>2. PICK k \in Nat : k = Len(s)
  BY <1>1
<1>3. 1 .. k + 1 = (1 .. k) \cup {k + 1}
  BY <1>2
<1>4. Among(t) = Among(s) \cup {e}
  BY <1>1, <1>2, <1>3 DEF Among
<1>5. ASSUME Rising(s), \A x \in Among(s) : x < e
      PROVE  Rising(t)
  BY <1>1, <1>2, <1>3, <1>5 DEF Among, Rising
<1>6. ASSUME Falling(s), \A x \in Among(s) : x > e
      PROVE  Falling(t)
  BY <1>1, <1>2, <1>3, <1>6 DEF Among, Falling
<1>7. QED
  BY <1>1, <1>4, <1>5, <1>6

LEMMA AmongAppended ==
    ASSUME NEW s \in Seq(Nat), NEW e \in Nat
    PROVE  Among(Append(s, e)) = Among(s) \cup {e}
<1>1. PICK t : t = Append(s, e)
  OBVIOUS
<1>2. Among(t) = Among(s) \cup {e}
  BY <1>1, NumbersAppended
<1>3. QED
  BY <1>1, <1>2

LEMMA NumbersTail ==
    ASSUME NEW s \in Seq(Nat), Len(s) # 0, NEW t, t = Tail(s)
    PROVE  /\ t \in Seq(Nat) /\ Len(t) = Len(s) - 1
           /\ Head(s) \in Nat /\ Among(s) = {Head(s)} \cup Among(t)
           /\ Rising(s) => Rising(t) /\ \A x \in Among(t) : Head(s) < x
           /\ Falling(s) => Falling(t) /\ \A x \in Among(t) : Head(s) > x
<1>1. PICK k \in Nat : k = Len(s) /\ k > 0
  BY LenProperties
<1>2. /\ t \in Seq(Nat) /\ Len(t) = k - 1 /\ Head(s) = s[1]
      /\ \A i \in 1 .. k - 1 : t[i] = s[i + 1]
  BY <1>1, EmptySeq, HeadTailProperties
<1>3. \A i \in 1 .. k : i = 1 \/ (i - 1 \in 1 .. k - 1 /\ t[i - 1] = s[i])
  <2>1. SUFFICES ASSUME NEW i \in 1 .. k, i # 1
                 PROVE  i - 1 \in 1 .. k - 1 /\ t[i - 1] = s[i]
    OBVIOUS
  <2>2. i - 1 \in 1 .. k - 1 /\ (i - 1) + 1 = i
    BY <1>1, <2>1
  <2>3. QED
    BY <1>2, <2>2
<1>4. Among(s) = {Head(s)} \cup Among(t)
  <2>1. \A x \in Among(s) : x \in {Head(s)} \cup Among(t)
    BY <1>1, <1>2, <1>3 DEF Among
  <2>2. \A x \in Among(t) : x \in Among(s)
    BY <1>1, <1>2 DEF Among
  <2>3. Head(s) \in Among(s)
    BY <1>1, <1>2 DEF Among
  <2>4. QED
    BY <2>1, <2>2, <2>3
<1>5. Rising(s) => Rising(t) /\ \A x \in Among(t) : Head(s) < x
  BY <1>1, <1>2 DEF Rising, Among
<1>6. Falling(s) => Falling(t) /\ \A x \in Among(t) : Head(s) > x
  BY <1>1, <1>2 DEF Falling, Among
<1>7. Head(s) \in Nat
  BY <1>1, <1>2, ElementOfSeq
<1>8. QED
  BY <1>1, <1>2, <1>4, <1>5, <1>6, <1>7

LEMMA NumbersFront ==
    ASSUME NEW s \in Seq(Nat), Len(s) # 0, NEW t, t = Front(s)
    PROVE  /\ t \in Seq(Nat) /\ Len(t) = Len(s) - 1
           /\ Last(s) \in Nat /\ Among(s) = {Last(s)} \cup Among(t)
           /\ Rising(s) => Rising(t) /\ \A x \in Among(t) : x < Last(s)
<1>1. PICK k \in Nat : k = Len(s) /\ k > 0
  BY LenProperties
<1>2. /\ t \in Seq(Nat) /\ Len(t) = k - 1 /\ Last(s) = s[k]
      /\ \A i \in 1 .. k - 1 : t[i] = s[i]
  BY <1>1, EmptySeq DEF Front, Last
<1>3. /\ \A i \in 1 .. k : i = k \/ i \in 1 .. k - 1
      /\ \A i \in 1 .. k - 1 : i \in 1 .. k /\ i < k
      /\ k \in 1 .. k
  BY <1>1
<1>4. Among(s) = {Last(s)} \cup Among(t)
  <2>1. \A x \in Among(s) : x \in {Last(s)} \cup Among(t)
    BY <1>1, <1>2, <1>3 DEF Among
  <2>2. \A x \in Among(t) : x \in Among(s)
    BY <1>1, <1>2, <1>3 DEF Among
  <2>3. Last(s) \in Among(s)
    BY <1>1, <1>2, <1>3 DEF Among
  <2>4. QED
    BY <2>1, <2>2, <2>3
<1>5. ASSUME Rising(s)
      PROVE  Rising(t) /\ \A x \in Among(t) : x < Last(s)
  <2>1. Rising(t)
    BY <1>1, <1>2, <1>3, <1>5 DEF Rising
  <2>2. ASSUME NEW x \in Among(t)
        PROVE  x < Last(s)
    <3>1. PICK i \in 1 .. k - 1 : x = s[i]
      BY <1>2, <2>2 DEF Among
    <3>2. QED
      BY <1>1, <1>2, <1>3, <1>5, <3>1 DEF Rising
  <2>3. QED
    BY <2>1, <2>2
<1>6. Last(s) \in Nat
  BY <1>1, <1>2, ElementOfSeq
<1>7. QED
  BY <1>1, <1>2, <1>4, <1>5, <1>6

LEMMA NumbersReversed ==
    ASSUME NEW s \in Seq(Nat), NEW t, t = Reverse(s)
    PROVE  /\ t \in Seq(Nat) /\ Len(t) = Len(s) /\ Among(t) = Among(s)
           /\ Rising(s) => Falling(t)
           /\ Falling(s) => Rising(t)
<1>1. PICK k \in Nat : k = Len(s)
  BY LenProperties
<1>2. \A i \in 1 .. k : (k - i) + 1 \in 1 .. k /\ s[(k - i) + 1] \in Nat
  BY <1>1, ElementOfSeq
<1>3. t = [i \in 1 .. k |-> s[(k - i) + 1]]
  BY <1>1 DEF Reverse
<1>4. t \in Seq(Nat) /\ Len(t) = k /\ \A i \in 1 .. k : t[i] = s[(k - i) + 1]
  BY <1>1, <1>2, <1>3, IsASeq
<1>5. \A i \in 1 .. k : t[(k - i) + 1] = s[i]
  <2>1. SUFFICES ASSUME NEW i \in 1 .. k
                 PROVE  t[(k - i) + 1] = s[i]
    OBVIOUS
  <2>2. (k - i) + 1 \in 1 .. k /\ (k - ((k - i) + 1)) + 1 = i
    OBVIOUS
  <2>3. QED
    BY <1>4, <2>2
<1>6. Among(t) = Among(s)
  <2>1. \A x \in Among(t) : x \in Among(s)
    BY <1>1, <1>2, <1>4 DEF Among
  <2>2. ASSUME NEW x \in Among(s)
        PROVE  x \in Among(t)
    <3>1. PICK i \in 1 .. k : x = s[i]
      BY <1>1, <2>2 DEF Among
    <3>2. (k - i) + 1 \in 1 .. k /\ t[(k - i) + 1] = x
      BY <1>2, <1>5, <3>1
    <3>3. QED
      BY <1>4, <3>2 DEF Among
  <2>3. QED
    BY <2>1, <2>2
<1>6a. ASSUME NEW i \in 1 .. k, NEW j \in 1 .. k, i < j
       PROVE  /\ (k - i) + 1 \in 1 .. k /\ (k - j) + 1 \in 1 .. k
              /\ (k - j) + 1 < (k - i) + 1
              /\ t[i] = s[(k - i) + 1] /\ t[j] = s[(k - j) + 1]
  BY <1>2, <1>4, <1>6a
<1>7. ASSUME Rising(s)
      PROVE  Falling(t)
  <2>1. SUFFICES ASSUME NEW i \in 1 .. k, NEW j \in 1 .. k, i < j
                 PROVE  t[i] > t[j]
    BY <1>4 DEF Falling
  <2>2. s[(k - j) + 1] < s[(k - i) + 1]
    BY <1>1, <1>6a, <1>7, <2>1 DEF Rising
  <2>3. QED
    BY <1>2, <1>6a, <2>1, <2>2
<1>8. ASSUME Falling(s)
      PROVE  Rising(t)
  <2>1. SUFFICES ASSUME NEW i \in 1 .. k, NEW j \in 1 .. k, i < j
                 PROVE  t[i] < t[j]
    BY <1>4 DEF Rising
  <2>2. s[(k - j) + 1] > s[(k - i) + 1]
    BY <1>1, <1>6a, <1>8, <2>1 DEF Falling
  <2>3. QED
    BY <1>2, <1>6a, <2>1, <2>2
<1>9. QED
  BY <1>1, <1>4, <1>6, <1>7, <1>8

LEMMA NumbersAfter ==
    ASSUME NEW s \in Seq(Nat), NEW e \in Nat, NEW t, t = <<e>> \o s
    PROVE  /\ t \in Seq(Nat) /\ Len(t) = Len(s) + 1 /\ Among(t) = {e} \cup Among(s)
           /\ Falling(s) /\ (\A x \in Among(s) : x < e) => Falling(t)
<1>1. PICK k \in Nat : k = Len(s)
  BY LenProperties
<1>2. <<e>> \in Seq(Nat) /\ Len(<<e>>) = 1 /\ <<e>>[1] = e
  OBVIOUS
<1>3. /\ t \in Seq(Nat) /\ Len(t) = 1 + k
      /\ \A i \in 1 .. 1 + k : t[i] = IF i <= 1 THEN <<e>>[i] ELSE s[i - 1]
  BY <1>1, <1>2, ConcatProperties
<1>4. /\ t \in Seq(Nat) /\ Len(t) = k + 1 /\ t[1] = e
      /\ \A i \in 2 .. k + 1 : t[i] = s[i - 1]
  BY <1>1, <1>2, <1>3
<1>5. \A i \in 1 .. k : t[i + 1] = s[i]
  <2>1. SUFFICES ASSUME NEW i \in 1 .. k
                 PROVE  t[i + 1] = s[i]
    OBVIOUS
  <2>2. i + 1 \in 2 .. k + 1 /\ (i + 1) - 1 = i
    OBVIOUS
  <2>3. QED
    BY <1>4, <2>2
<1>6. \A i \in 1 .. k + 1 : i = 1 \/ (i \in 2 .. k + 1 /\ i - 1 \in 1 .. k)
  OBVIOUS
<1>7. Among(t) = {e} \cup Among(s)
  <2>1. \A x \in Among(t) : x \in {e} \cup Among(s)
    BY <1>1, <1>4, <1>6 DEF Among
  <2>2. \A x \in Among(s) : x \in Among(t)
    BY <1>1, <1>4, <1>5 DEF Among
  <2>3. e \in Among(t)
    BY <1>4 DEF Among
  <2>4. QED
    BY <2>1, <2>2, <2>3
<1>8. ASSUME Falling(s), \A x \in Among(s) : x < e
      PROVE  Falling(t)
  <2>1. SUFFICES ASSUME NEW i \in 1 .. k + 1, NEW j \in 1 .. k + 1, i < j
                 PROVE  t[i] > t[j]
    BY <1>4 DEF Falling
  <2>2. j \in 2 .. k + 1 /\ j - 1 \in 1 .. k /\ t[j] = s[j - 1]
    BY <1>4, <2>1
  <2>3. CASE i = 1
    BY <1>1, <1>4, <1>8, <2>2, <2>3 DEF Among
  <2>4. CASE i # 1
    <3>1. i \in 2 .. k + 1 /\ i - 1 \in 1 .. k /\ i - 1 < j - 1 /\ t[i] = s[i - 1]
      BY <1>4, <2>1, <2>2, <2>4
    <3>2. QED
      BY <1>1, <1>8, <2>2, <3>1 DEF Falling
  <2>5. QED
    BY <2>3, <2>4
<1>9. QED
  BY <1>1, <1>4, <1>7, <1>8

\* The same of sequences of records, by the requests they are about.  A reply
\* and a response both have one.
Tagged == Replies \cup Responses

LEMMA InTagged ==
    /\ \A s \in Seq(Replies) : s \in Seq(Tagged)
    /\ \A s \in Seq(Responses) : s \in Seq(Tagged)
    /\ Replies \subseteq Tagged /\ Responses \subseteq Tagged
<1>1. ASSUME NEW set, NEW s \in Seq(set), set \subseteq Tagged
      PROVE  s \in Seq(Tagged)
  BY <1>1, ElementOfSeq, SeqDef
<1>2. Replies \subseteq Tagged /\ Responses \subseteq Tagged
  BY DEF Tagged
<1>3. QED
  BY <1>1, <1>2

LEMMA KeysTyped ==
    ASSUME NEW s \in Seq(Tagged)
    PROVE  /\ Keys(s) \in Seq(Nat) /\ Len(Keys(s)) = Len(s)
           /\ \A i \in 1 .. Len(s) : Keys(s)[i] = s[i].request
           /\ Len(s) = 0 => Among(s) = {}
           /\ s = <<>> <=> Len(s) = 0
<1>1. PICK k \in Nat : k = Len(s)
  BY LenProperties
<1>2. \A i \in 1 .. k : s[i].request \in Nat
  BY <1>1, ElementOfSeq DEF Tagged, Replies, Responses
<1>3. Keys(s) = [i \in 1 .. k |-> s[i].request]
  BY <1>1 DEF Keys
<1>4. Keys(s) \in Seq(Nat) /\ Len(Keys(s)) = k
  BY <1>2, <1>3, IsASeq
<1>5. QED
  BY <1>1, <1>3, <1>4, EmptySeq DEF Among

LEMMA KeysAppended ==
    ASSUME NEW s \in Seq(Tagged), NEW e \in Tagged, NEW t, t = Append(s, e)
    PROVE  /\ t \in Seq(Tagged) /\ Keys(t) = Append(Keys(s), e.request)
           /\ Among(t) = Among(s) \cup {e}
<1>1. PICK k \in Nat : k = Len(s)
  BY LenProperties
<1>2. /\ t \in Seq(Tagged) /\ Len(t) = k + 1
      /\ \A i \in 1 .. k : t[i] = s[i]
      /\ t[k + 1] = e
  BY <1>1, AppendProperties
<1>3. /\ \A i \in 1 .. k + 1 : i = k + 1 \/ i \in 1 .. k
      /\ \A i \in 1 .. k : i \in 1 .. k + 1
      /\ k + 1 \in 1 .. k + 1
  BY <1>1
<1>4. Among(t) = Among(s) \cup {e}
  <2>1. \A x \in Among(t) : x \in Among(s) \cup {e}
    BY <1>1, <1>2, <1>3 DEF Among
  <2>2. \A x \in Among(s) : x \in Among(t)
    BY <1>1, <1>2, <1>3 DEF Among
  <2>3. e \in Among(t)
    BY <1>2, <1>3 DEF Among
  <2>4. QED
    BY <2>1, <2>2, <2>3
<1>6. e.request \in Nat
  BY DEF Tagged, Replies, Responses
<1>7. PICK v : v = Append(Keys(s), e.request)
  OBVIOUS
<1>8. /\ v \in Seq(Nat) /\ Len(v) = k + 1 /\ v[k + 1] = e.request
      /\ \A i \in 1 .. k : v[i] = s[i].request
  BY <1>1, <1>6, <1>7, KeysTyped, AppendProperties
<1>9. /\ Keys(t) \in Seq(Nat) /\ Len(Keys(t)) = k + 1
      /\ \A i \in 1 .. k + 1 : Keys(t)[i] = t[i].request
  BY <1>2, KeysTyped
<1>10. \A i \in 1 .. k + 1 : Keys(t)[i] = v[i]
  BY <1>2, <1>3, <1>8, <1>9
<1>11. Keys(t) = v
  BY <1>8, <1>9, <1>10, SeqEqual
<1>12. QED
  BY <1>2, <1>4, <1>7, <1>11

LEMMA KeysTail ==
    ASSUME NEW s \in Seq(Replies), Len(s) # 0, NEW t, t = Tail(s)
    PROVE  /\ t \in Seq(Replies) /\ Keys(t) = Tail(Keys(s)) /\ Len(t) = Len(s) - 1
           /\ Head(s) \in Replies /\ Head(s).request = Head(Keys(s))
<1>1. PICK k \in Nat : k = Len(s) /\ k > 0
  BY LenProperties
<1>2. /\ t \in Seq(Replies) /\ Len(t) = k - 1 /\ Head(s) = s[1] /\ s[1] \in Replies
      /\ \A i \in 1 .. k - 1 : t[i] = s[i + 1]
  BY <1>1, EmptySeq, HeadTailProperties, ElementOfSeq
<1>3. s \in Seq(Tagged) /\ t \in Seq(Tagged)
  BY <1>1, <1>2, InTagged
<1>4. PICK u \in Seq(Nat) : u = Keys(s)
  BY <1>3, KeysTyped
<1>5. Len(u) = k /\ \A i \in 1 .. k : u[i] = s[i].request
  BY <1>1, <1>3, <1>4, KeysTyped
<1>6. /\ Tail(u) \in Seq(Nat) /\ Len(Tail(u)) = k - 1 /\ Head(u) = u[1]
      /\ \A i \in 1 .. k - 1 : Tail(u)[i] = u[i + 1]
  BY <1>1, <1>5, EmptySeq, HeadTailProperties
<1>7. /\ Keys(t) \in Seq(Nat) /\ Len(Keys(t)) = k - 1
      /\ \A i \in 1 .. k - 1 : Keys(t)[i] = t[i].request
  BY <1>2, <1>3, KeysTyped
<1>8. \A i \in 1 .. k - 1 : i + 1 \in 1 .. k
  BY <1>1
<1>9. \A i \in 1 .. k - 1 : Keys(t)[i] = Tail(u)[i]
  BY <1>2, <1>5, <1>6, <1>7, <1>8
<1>10. Keys(t) = Tail(u)
  BY <1>6, <1>7, <1>9, SeqEqual
<1>11. QED
  BY <1>1, <1>2, <1>4, <1>5, <1>6, <1>10

LEMMA KeysFront ==
    ASSUME NEW s \in Seq(Replies), Len(s) # 0, NEW t, t = Front(s)
    PROVE  /\ t \in Seq(Replies) /\ Keys(t) = Front(Keys(s)) /\ Len(t) = Len(s) - 1
           /\ Last(s) \in Replies /\ Last(s).request = Last(Keys(s))
<1>1. PICK k \in Nat : k = Len(s) /\ k > 0
  BY LenProperties
<1>2. /\ t \in Seq(Replies) /\ Len(t) = k - 1 /\ Last(s) = s[k] /\ s[k] \in Replies
      /\ \A i \in 1 .. k - 1 : t[i] = s[i]
  BY <1>1, EmptySeq, ElementOfSeq DEF Front, Last
<1>3. s \in Seq(Tagged) /\ t \in Seq(Tagged)
  BY <1>1, <1>2, InTagged
<1>4. PICK u \in Seq(Nat) : u = Keys(s)
  BY <1>3, KeysTyped
<1>5. Len(u) = k /\ \A i \in 1 .. k : u[i] = s[i].request
  BY <1>1, <1>3, <1>4, KeysTyped
<1>6. /\ Front(u) \in Seq(Nat) /\ Len(Front(u)) = k - 1 /\ Last(u) = u[k]
      /\ \A i \in 1 .. k - 1 : Front(u)[i] = u[i]
  BY <1>1, <1>5, EmptySeq DEF Front, Last
<1>7. /\ Keys(t) \in Seq(Nat) /\ Len(Keys(t)) = k - 1
      /\ \A i \in 1 .. k - 1 : Keys(t)[i] = t[i].request
  BY <1>2, <1>3, KeysTyped
<1>8. \A i \in 1 .. k - 1 : i \in 1 .. k
  BY <1>1
<1>9. \A i \in 1 .. k - 1 : Keys(t)[i] = Front(u)[i]
  BY <1>2, <1>5, <1>6, <1>7, <1>8
<1>10. Keys(t) = Front(u)
  BY <1>6, <1>7, <1>9, SeqEqual
<1>11. k \in 1 .. k
  BY <1>1
<1>12. QED
  BY <1>1, <1>2, <1>4, <1>5, <1>6, <1>10, <1>11

\* Replies collected newest first, as an exchange does, are put in the order
\* of their requests: the same replies, rising.
LEMMA SortingRises ==
    ASSUME NEW list \in Seq(Replies), Falling(Keys(list)), NEW t, t = InTheOrderAsked(list)
    PROVE  t \in Seq(Replies) /\ Rising(Keys(t)) /\ Among(Keys(t)) = Among(Keys(list))
<1>1. PICK k \in Nat : k = Len(list)
  BY LenProperties
<1>2. /\ DOMAIN list = 1 .. k /\ list \in Seq(Tagged)
      /\ \A i \in 1 .. k : list[i] \in Replies /\ (k - i) + 1 \in 1 .. k
  BY <1>1, LenProperties, ElementOfSeq, SeqDef DEF Tagged
<1>3. ToSet(list) = {list[i] : i \in 1 .. k}
  BY <1>2 DEF ToSet
<1>4. ASSUME NEW i \in 1 .. k, NEW j \in 1 .. k, i < j
      PROVE  list[i].request > list[j].request
  BY <1>1, <1>2, <1>4, KeysTyped DEF Falling
<1>5. PICK back : back = [i \in 1 .. k |-> list[(k - i) + 1]]
  OBVIOUS
<1>6. back \in [DOMAIN list -> ToSet(list)]
  BY <1>2, <1>3, <1>5
<1>7. \A i, j \in DOMAIN list : i < j => back[i].request < back[j].request
  <2>1. SUFFICES ASSUME NEW i \in 1 .. k, NEW j \in 1 .. k, i < j
                 PROVE  back[i].request < back[j].request
    BY <1>2
  <2>2. (k - i) + 1 \in 1 .. k /\ (k - j) + 1 \in 1 .. k /\ (k - j) + 1 < (k - i) + 1
    BY <1>2, <2>1
  <2>3. list[(k - j) + 1].request > list[(k - i) + 1].request
    BY <1>4, <2>2
  <2>4. /\ list[(k - i) + 1].request \in Nat /\ list[(k - j) + 1].request \in Nat
        /\ back[i] = list[(k - i) + 1] /\ back[j] = list[(k - j) + 1]
    BY <1>2, <1>5, <2>2 DEF Replies
  <2>5. QED
    BY <2>3, <2>4
<1>8. ToSet(back) = ToSet(list)
  <2>1. DOMAIN back = 1 .. k
    BY <1>5
  <2>2. \A x \in ToSet(back) : x \in ToSet(list)
    BY <1>2, <1>3, <1>5, <2>1 DEF ToSet
  <2>3. ASSUME NEW x \in ToSet(list)
        PROVE  x \in ToSet(back)
    <3>1. PICK i \in 1 .. k : x = list[i]
      BY <1>3
    <3>2. (k - i) + 1 \in 1 .. k /\ (k - ((k - i) + 1)) + 1 = i
      BY <1>2
    <3>3. back[(k - i) + 1] = x
      BY <1>5, <3>1, <3>2
    <3>4. QED
      BY <2>1, <3>2, <3>3 DEF ToSet
  <2>4. QED
    BY <2>2, <2>3
<1>9. /\ t \in [DOMAIN list -> ToSet(list)] /\ ToSet(t) = ToSet(list)
      /\ \A i, j \in DOMAIN list : i < j => t[i].request < t[j].request
  BY <1>6, <1>7, <1>8 DEF InTheOrderAsked
<1>10. t \in [1 .. k -> Replies]
  BY <1>2, <1>3, <1>9
<1>11. t \in Seq(Replies) /\ Len(t) = k
  BY <1>10, SeqDef, LenProperties
<1>12. t \in Seq(Tagged)
  BY <1>11, InTagged
<1>13. /\ Len(Keys(t)) = k /\ \A i \in 1 .. k : Keys(t)[i] = t[i].request
       /\ Len(Keys(list)) = k /\ \A i \in 1 .. k : Keys(list)[i] = list[i].request
  BY <1>1, <1>2, <1>11, <1>12, KeysTyped
<1>14. Rising(Keys(t))
  <2>1. SUFFICES ASSUME NEW i \in 1 .. k, NEW j \in 1 .. k, i < j
                 PROVE  Keys(t)[i] < Keys(t)[j]
    BY <1>13 DEF Rising
  <2>2. t[i].request < t[j].request
    BY <1>2, <1>9, <2>1
  <2>3. QED
    BY <1>13, <2>2
<1>15. {t[i] : i \in 1 .. k} = {list[i] : i \in 1 .. k}
  BY <1>3, <1>9, <1>10 DEF ToSet
<1>16. Among(Keys(t)) = Among(Keys(list))
  <2>1. ASSUME NEW i \in 1 .. k
        PROVE  /\ \E j \in 1 .. k : t[i] = list[j]
               /\ \E j \in 1 .. k : list[i] = t[j]
    BY <1>15
  <2>2. ASSUME NEW i \in 1 .. k
        PROVE  Keys(t)[i] \in Among(Keys(list)) /\ Keys(list)[i] \in Among(Keys(t))
    <3>1. PICK a \in 1 .. k : t[i] = list[a]
      BY <2>1, <2>2
    <3>2. PICK b \in 1 .. k : list[i] = t[b]
      BY <2>1, <2>2
    <3>3. Keys(t)[i] = Keys(list)[a] /\ Keys(list)[i] = Keys(t)[b]
      BY <1>13, <2>2, <3>1, <3>2
    <3>4. QED
      BY <1>13, <3>3 DEF Among
  <2>3. /\ \A x \in Among(Keys(t)) : \E i \in 1 .. k : x = Keys(t)[i]
        /\ \A x \in Among(Keys(list)) : \E i \in 1 .. k : x = Keys(list)[i]
    BY <1>13 DEF Among
  <2>4. \A x \in Among(Keys(t)) : x \in Among(Keys(list))
    BY <2>2, <2>3
  <2>5. \A x \in Among(Keys(list)) : x \in Among(Keys(t))
    BY <2>2, <2>3
  <2>6. QED
    BY <2>4, <2>5
<1>17. QED
  BY <1>11, <1>14, <1>16

-----------------------------------------------------------------------------
\* The steps, told by what they do to the requests and the answers.

Requested == <<decided, deferred, batch, last, written>>
Passed == <<answers, held, responded, got>>
Observed == <<outcome, pending, fired>>

Stays == UNCHANGED <<Requested, Passed, Observed, pc>>
Turns ==
    /\ UNCHANGED <<Requested, Passed, Observed>>
    /\ \/ pc = "accepted" /\ pc' \in {"refused", "reading"}
       \/ pc = "answering" /\ answers = <<>> /\ held = <<>> /\ ~last /\ pc' = "reading"
Quits ==
    /\ UNCHANGED <<Requested, Passed>> /\ pc \notin {"refused", "ended"}
    /\ \/ End("error")
       \/ End("ok") /\ (pc = "reading" /\ deferred = <<>>)
       \/ End("ok") /\ (pc = "answering" /\ answers = <<>> /\ held = <<>>)

\* A request is read, and its fork decides.
CutsRead ==
    /\ pc = "reading" /\ decided' = Append(decided, "close")
    /\ UNCHANGED <<deferred, batch, last, written, Passed>> /\ End("ok")
Defers ==
    /\ pc = "reading" /\ decided' = Append(decided, "reorder")
    /\ deferred' = Append(deferred, Len(decided) + 1)
    /\ UNCHANGED <<batch, last, written, Passed, Observed, pc>>
Withholds ==
    /\ pc = "reading" /\ decided' = Append(decided, "drop")
    /\ UNCHANGED <<deferred, batch, last, written, Passed, Observed, pc>>
Begins(decision) ==
    /\ pc = "reading" /\ decided' = Append(decided, decision)
    /\ StartExchange(<<Len(decided) + 1>> \o Reverse(deferred), FALSE)
    /\ UNCHANGED <<written, Passed, Observed>>
Flushes ==
    /\ pc = "reading" /\ StartExchange(Reverse(deferred), TRUE) /\ deferred # <<>>
    /\ UNCHANGED <<decided, written, Passed, Observed>>

\* An answer comes to its fork.
Settles(decision) ==
    /\ pc = "answering" /\ answers # <<>> /\ answers' = Tail(answers)
    /\ responded' = Append(responded, [request |-> Head(answers).request, decision |-> decision])
    /\ UNCHANGED Requested
CutsAnswer == Settles("close") /\ UNCHANGED <<held, got>> /\ End("ok")
PutsOff ==
    /\ Settles("reorder") /\ held' = Append(held, Head(answers))
    /\ UNCHANGED <<got, Observed, pc>>
DropsAnswer == Settles("drop") /\ UNCHANGED <<held, got, Observed, pc>>
PassesOn(decision) ==
    /\ Settles(decision) /\ got' = Append(got, Head(answers).request)
    /\ UNCHANGED <<held, Observed, pc>>

Reads ==
    \/ Defers \/ Withholds \/ Flushes
    \/ \E decision \in {"allow", "delay", "corrupt"} : Begins(decision)
Answering ==
    PutsOff \/ DropsAnswer \/ \E decision \in {"allow", "delay", "corrupt"} : PassesOn(decision)

LEMMA StepCases ==
    ASSUME Next
    PROVE  Stays \/ Turns \/ Quits \/ CutsRead \/ Reads \/ Forward \/ Answered
              \/ CutsAnswer \/ Answering \/ WriteHeld
<1> USE DEF client, upstream, loop, replies, forks, checker, Requested, Passed, Observed
<1>1. CASE Send \/ HalfClose \/ Vanish \/ Cancel \/ Service
  BY <1>1 DEF Send, HalfClose, Vanish, Cancel, Service, ServiceAnswers, ServiceDies, Stays
<1>2. CASE Refuse \/ Connect
  BY <1>2 DEF Refuse, Connect, Turns
<1>3. CASE ConnectFails \/ ReadFails \/ ForwardFails \/ NoAnswer \/ RespondFails
  BY <1>3 DEF ConnectFails, ReadFails, ForwardFails, NoAnswer, RespondFails, Quits
<1>4. CASE Read
  <2>1. PICK decision \in Table!Answers(Permitted, "deliver") :
            /\ decided' = Append(decided, decision)
            /\ \/ decision = "reorder" /\ Defer(Len(decided) + 1)
               \/ decision = "drop" /\ Withhold(Len(decided) + 1)
               \/ decision = "close" /\ End("ok") /\ UNCHANGED loop
               \/ /\ decision \in {"allow", "delay", "corrupt"}
                  /\ StartExchange(<<Len(decided) + 1>> \o Release(deferred), FALSE)
                  /\ UNCHANGED checker
    BY <1>4 DEF Read
  <2>2. pc = "reading" /\ UNCHANGED <<client, upstream, cancelled, replies, responded>>
    BY <1>4 DEF Read
  <2>3. CASE decision = "reorder" /\ Defer(Len(decided) + 1)
    BY <2>1, <2>2, <2>3 DEF Defer, Defers, Reads
  <2>4. CASE decision = "drop" /\ Withhold(Len(decided) + 1)
    BY <2>1, <2>2, <2>4 DEF Withhold, Withholds, Reads
  <2>5. CASE decision = "close" /\ End("ok") /\ UNCHANGED loop
    BY <2>1, <2>2, <2>5 DEF CutsRead
  <2>6. CASE /\ decision \in {"allow", "delay", "corrupt"}
             /\ StartExchange(<<Len(decided) + 1>> \o Release(deferred), FALSE)
             /\ UNCHANGED checker
    BY <2>1, <2>2, <2>6 DEF Begins, Reads, Release
  <2>7. QED
    BY <2>1, <2>3, <2>4, <2>5, <2>6
<1>5. CASE StopReading
  BY <1>5 DEF StopReading, Stop, Release, Quits, Flushes, Reads
<1>6. CASE Respond
  <2>1. PICK decision \in Table!Answers(Permitted, "response") :
            /\ responded' = Append(responded,
                                [request |-> Head(answers).request, decision |-> decision])
            /\ \/ /\ decision = "reorder"
                  /\ held' = Append(held, Head(answers))
                  /\ UNCHANGED <<got, alive, pc, checker>>
               \/ decision = "drop" /\ UNCHANGED <<got, held, alive, pc, checker>>
               \/ decision = "close" /\ End("ok") /\ UNCHANGED <<got, held, alive>>
               \/ /\ decision \in {"allow", "delay", "corrupt"}
                  /\ Write(Head(answers))
                  /\ UNCHANGED <<held, pc, checker>>
    BY <1>6 DEF Respond
  <2>2. /\ pc = "answering" /\ answers # <<>> /\ answers' = Tail(answers)
        /\ UNCHANGED <<sent, halfClosed, gone, upstream, cancelled, loop, decided>>
    BY <1>6 DEF Respond
  <2>3. Settles(decision)
    BY <2>1, <2>2 DEF Settles
  <2>4. QED
    BY <2>1, <2>2, <2>3 DEF PutsOff, DropsAnswer, CutsAnswer, PassesOn, Write, Answering
<1>7. CASE Return
  BY <1>7 DEF Return, Turns, Quits
<1>8. QED
  BY <1>1, <1>2, <1>3, <1>4, <1>5, <1>6, <1>7 DEF Next, Adapter

-----------------------------------------------------------------------------
\* Every variable keeps its type, and every stage its shape.

LEMMA NoneOfEmpty ==
    /\ <<>> \in Seq(Nat) /\ <<>> \in Seq(Replies) /\ <<>> \in Seq(Responses)
    /\ <<>> \in Seq(Verdicts) /\ Len(<<>>) = 0
<1>1. QED
  BY EmptySeq

LEMMA QueueTyped ==
    ASSUME Typed, Shape, pc = "awaiting"
    PROVE  Replied(pending) \in Seq(Nat) /\ Len(Replied(pending)) = 0 /\ Len(batch) \in Nat
<1>1. QED
  BY NumbersTyped, NumbersTail DEF Typed, Shape, Replied

LEMMA TypedStarts ==
    ASSUME Init
    PROVE  Typed /\ Shape
<1>1. Typed
  BY NoneOfEmpty DEF Init, Typed, Stages
<1>2. Shape
  <2>1. Len(batch) = 0 /\ Len(answers) = 0 /\ Len(held) = 0 /\ Len(pending) = 0
    BY NoneOfEmpty DEF Init
  <2>2. pc = "accepted" /\ ~last /\ outcome = "none" /\ ~fired
    BY DEF Init
  <2>3. QED
    BY <2>1, <2>2 DEF Shape, Sending
<1>3. QED
  BY <1>1, <1>2

LEMMA PeersTyped ==
    ASSUME Typed, Next
    PROVE  sent' \in Nat /\ reply' \in {"none", "stay", "close", "refused"} /\ alive' \in BOOLEAN
           /\ service' \in {"open", "busy", "parted", "dead"}
<1> USE DEF Typed, client, upstream, loop, replies, forks, checker
<1>1. CASE Send \/ HalfClose \/ Vanish \/ Cancel \/ Service
  BY <1>1 DEF Send, HalfClose, Vanish, Cancel, Service, ServiceAnswers, ServiceDies
<1>2. CASE Refuse \/ Connect \/ ConnectFails \/ Read \/ ReadFails \/ StopReading
  BY <1>2 DEF Refuse, Connect, ConnectFails, Read, ReadFails, StopReading
<1>3. CASE Forward \/ ForwardFails \/ Answered \/ NoAnswer \/ RespondFails \/ Return
  BY <1>3 DEF Forward, ForwardFails, Answered, NoAnswer, RespondFails, Return
<1>4. CASE Respond \/ WriteHeld
  <2>1. alive' \in BOOLEAN
    BY <1>4, Zenon DEF Respond, WriteHeld, Write
  <2>2. QED
    BY <1>4, <2>1 DEF Respond, WriteHeld
<1>5. QED
  BY <1>1, <1>2, <1>3, <1>4 DEF Next, Adapter

LEMMA EndTyped ==
    ASSUME NEW result \in {"ok", "error"}, End(result)
    PROVE  /\ pc' = "ended" /\ outcome' = result /\ pending' \in Seq(Nat) /\ Len(pending') = 0
           /\ fired' \in BOOLEAN
<1>1. QED
  BY NoneOfEmpty DEF End

\* The variables whose type a step of the adapter may put at risk.
Kinds ==
    /\ got \in Seq(Nat) /\ written \in Seq(Nat)
    /\ deferred \in Seq(Nat) /\ batch \in Seq(Nat) /\ pending \in Seq(Nat)
    /\ answers \in Seq(Replies) /\ held \in Seq(Replies)
    /\ decided \in Seq(Verdicts) /\ responded \in Seq(Responses)
    /\ pc \in Stages /\ outcome \in {"none", "ok", "error"}
    /\ last \in BOOLEAN /\ fired \in BOOLEAN

LEMMA SettlesTyped ==
    ASSUME Typed, NEW decision \in Verdicts, Settles(decision)
    PROVE  /\ answers' \in Seq(Replies) /\ Keys(answers)' = Tail(Keys(answers))
           /\ Head(answers) \in Replies /\ Head(answers).request = Head(Keys(answers))
           /\ Head(answers).request \in Nat
           /\ responded' \in Seq(Responses)
           /\ Keys(responded)' = Append(Keys(responded), Head(answers).request)
           /\ Among(responded)' = Among(responded) \cup
                  {[request |-> Head(answers).request, decision |-> decision]}
           /\ Len(Keys(answers)) # 0
           /\ UNCHANGED <<decided, deferred, batch, last, written>>
<1>1. answers \in Seq(Replies) /\ responded \in Seq(Responses) /\ answers # <<>>
  BY DEF Typed, Settles
<1>2. Len(answers) # 0
  BY <1>1, EmptySeq
<1>3. /\ answers' \in Seq(Replies) /\ Keys(answers') = Tail(Keys(answers))
      /\ Head(answers) \in Replies /\ Head(answers).request = Head(Keys(answers))
  BY <1>1, <1>2, KeysTail DEF Settles
<1>4. Head(answers).request \in Nat
  BY <1>3 DEF Replies
<1>5. PICK e \in Responses : e = [request |-> Head(answers).request, decision |-> decision]
  BY <1>4 DEF Responses
<1>6. e.request = Head(answers).request /\ responded' = Append(responded, e)
  BY <1>5 DEF Settles
<1>7. responded' \in Seq(Responses)
  BY <1>1, <1>6, AppendProperties
<1>8. /\ Keys(responded') = Append(Keys(responded), e.request)
      /\ Among(responded') = Among(responded) \cup {e}
  BY <1>1, <1>6, InTagged, KeysAppended
<1>9. Len(Keys(answers)) = Len(answers)
  BY <1>1, InTagged, KeysTyped
<1>10. /\ Keys(answers)' = Keys(answers')
       /\ Keys(responded)' = Keys(responded')
       /\ Among(responded)' = Among(responded')
  BY DEF Keys, Among
<1>11. QED
  BY <1>2, <1>3, <1>4, <1>5, <1>6, <1>7, <1>8, <1>9, <1>10 DEF Settles, Requested

LEMMA AnsweredTyped ==
    ASSUME Typed, Shape, AnswersInOrder, Answered, NEW all,
           all = Append(answers, [request |-> Head(batch), closes |-> reply = "close"])
    PROVE  /\ all \in Seq(Replies) /\ Keys(all) = Append(Keys(answers), Head(batch))
           /\ Head(batch) \in Nat /\ batch' = Tail(batch) /\ batch' \in Seq(Nat)
           /\ Len(batch) # 0 /\ Len(batch) \in Nat /\ Len(batch') = Len(batch) - 1
           /\ Falling(Keys(all))
<1>1. answers \in Seq(Replies) /\ batch \in Seq(Nat)
  BY DEF Typed
<1>2. Len(batch) # 0 /\ batch' = Tail(batch)
  BY DEF Shape, Answered, Sending
<1>3. Head(batch) \in Nat /\ batch' \in Seq(Nat) /\ Len(batch') = Len(batch) - 1
  BY <1>1, <1>2, NumbersTail
<1>4a. PICK b \in BOOLEAN : b = (reply = "close")
  OBVIOUS
<1>4. PICK e \in Replies : e = [request |-> Head(batch), closes |-> b]
  BY <1>3 DEF Replies
<1>5. all = Append(answers, e) /\ e.request = Head(batch)
  BY <1>4, <1>4a
<1>6a. all \in Seq(Replies)
  BY <1>1, <1>5, AppendProperties
<1>6b. Keys(all) = Append(Keys(answers), e.request)
  BY <1>1, <1>5, InTagged, KeysAppended
<1>6. all \in Seq(Replies) /\ Keys(all) = Append(Keys(answers), e.request)
  BY <1>6a, <1>6b
<1>7. Falling(Keys(answers)) /\ \A r \in Among(Keys(answers)) : r > Head(batch)
  <2>1. Head(batch) \in Among(batch)
    BY <1>1, <1>2, NumbersTail
  <2>2. pc = "awaiting"
    BY DEF Answered
  <2>3. Falling(Keys(answers)) /\ \A r \in Among(Keys(answers)), s \in Among(batch) : r > s
    BY <2>2 DEF AnswersInOrder, Sending
  <2>4. QED
    BY <2>1, <2>3
<1>8. Keys(answers) \in Seq(Nat)
  BY <1>1, InTagged, KeysTyped
<1>9. Falling(Keys(all))
  BY <1>3, <1>5, <1>6, <1>7, <1>8, NumbersAppended
<1>10. QED
  BY <1>1, <1>2, <1>3, <1>5, <1>6, <1>9, NumbersTyped

LEMMA DecidedTyped ==
    ASSUME Typed, NEW decision \in Verdicts, NEW choices, choices = Append(decided, decision)
    PROVE  /\ choices \in Seq(Verdicts) /\ Len(choices) = Len(decided) + 1 /\ Len(decided) \in Nat
           /\ \A i \in 1 .. Len(decided) : choices[i] = decided[i]
           /\ choices[Len(decided) + 1] = decision
<1>1. QED
  BY AppendProperties, LenProperties DEF Typed

LEMMA StartsTyped ==
    ASSUME Typed, NEW request \in Nat
    PROVE  /\ Reverse(deferred) \in Seq(Nat) /\ <<request>> \o Reverse(deferred) \in Seq(Nat)
           /\ Len(Reverse(deferred)) = Len(deferred)
           /\ Len(<<request>> \o Reverse(deferred)) # 0
           /\ deferred # <<>> <=> Len(deferred) # 0
<1>1. Reverse(deferred) \in Seq(Nat) /\ Len(Reverse(deferred)) = Len(deferred)
  BY NumbersReversed DEF Typed
<1>2. Len(Reverse(deferred)) \in Nat
  BY <1>1, NumbersTyped
<1>3. /\ <<request>> \o Reverse(deferred) \in Seq(Nat)
      /\ Len(<<request>> \o Reverse(deferred)) = Len(Reverse(deferred)) + 1
  BY <1>1, NumbersAfter
<1>4. QED
  BY <1>1, <1>2, <1>3, NumbersTyped DEF Typed

\* Append at the end of the sequences a step adds to.
LEMMA NumberAdded ==
    ASSUME NEW s \in Seq(Nat), NEW e \in Nat
    PROVE  Append(s, e) \in Seq(Nat) /\ Len(Append(s, e)) = Len(s) + 1 /\ Len(s) \in Nat
<1>1. QED
  BY NumbersAppended, NumbersTyped

LEMMA KindsKept ==
    ASSUME Typed, Shape, AnswersInOrder, Next
    PROVE  Kinds' /\ Shape'
<1> USE DEF Typed, Kinds, Shape
<1>1. CASE Stays
  BY <1>1 DEF Stays, Requested, Passed, Observed
<1>2. CASE Turns
  <2>1. Kinds'
    BY <1>2 DEF Turns, Requested, Passed, Observed, Stages
  <2>2. Shape'
    BY <1>2, EmptySeq DEF Turns, Requested, Passed, Observed, Sending
  <2>3. QED
    BY <2>1, <2>2
<1>3. CASE Quits
  <2>1. PICK result \in {"ok", "error"} : End(result)
    BY <1>3 DEF Quits
  <2>2. QED
    BY <1>3, <2>1, EndTyped DEF Quits, Requested, Passed, Stages, Sending
<1>4. CASE CutsRead
  <2>1. decided' \in Seq(Verdicts) /\ End("ok")
    BY <1>4, DecidedTyped DEF CutsRead, Verdicts
  <2>2. QED
    BY <1>4, <2>1, EndTyped DEF CutsRead, Passed, Stages, Sending
<1>5. CASE Defers
  <2>1. decided' \in Seq(Verdicts) /\ Len(decided) + 1 \in Nat
    BY <1>5, DecidedTyped DEF Defers, Verdicts
  <2>2. deferred' \in Seq(Nat)
    BY <1>5, <2>1, NumberAdded DEF Defers
  <2>3. QED
    BY <1>5, <2>1, <2>2 DEF Defers, Passed, Observed, Sending
<1>6. CASE Withholds
  <2>1. decided' \in Seq(Verdicts)
    BY <1>6, DecidedTyped DEF Withholds, Verdicts
  <2>2. QED
    BY <1>6, <2>1 DEF Withholds, Passed, Observed, Sending
<1>7. ASSUME NEW decision \in {"allow", "delay", "corrupt"}, Begins(decision)
      PROVE  Kinds' /\ Shape'
  <2>1. decided' \in Seq(Verdicts) /\ Len(decided) + 1 \in Nat
    BY <1>7, DecidedTyped DEF Begins, Verdicts
  <2>2. /\ batch' \in Seq(Nat)
        /\ Len(batch') # 0
        /\ deferred' = <<>>
        /\ pc' = "forwarding"
        /\ last' = FALSE
    BY <1>7, <2>1, StartsTyped DEF Begins, StartExchange
  <2>3. UNCHANGED <<written, Passed, Observed>> /\ pc = "reading"
    BY <1>7 DEF Begins
  <2>4. QED
    BY <2>1, <2>2, <2>3, NoneOfEmpty DEF Passed, Observed, Sending, Stages
<1>8. CASE Flushes
  <2>1. /\ batch' \in Seq(Nat)
        /\ Len(batch') # 0
        /\ deferred' = <<>>
        /\ pc' = "forwarding"
        /\ last' = TRUE
    BY <1>8, StartsTyped DEF Flushes, StartExchange
  <2>2. UNCHANGED <<decided, written, Passed, Observed>> /\ pc = "reading"
    BY <1>8 DEF Flushes
  <2>3. QED
    BY <2>1, <2>2, NoneOfEmpty DEF Passed, Observed, Sending, Stages
<1>9. CASE Forward
  <2>1. Len(batch) # 0 /\ pc = "forwarding" /\ pc' = "awaiting" /\ Len(pending) = 0
    BY <1>9 DEF Forward, Sending
  <2>2. Head(batch) \in Nat
    BY <2>1, NumbersTail
  <2>3. written' \in Seq(Nat) /\ pending' \in Seq(Nat) /\ Len(pending') = 1
    BY <1>9, <2>1, <2>2, NumberAdded DEF Forward, Asked
  <2>4. UNCHANGED <<loop, replies, forks, outcome, fired, got>>
    BY <1>9 DEF Forward, client
  <2>5. QED
    BY <2>1, <2>3, <2>4 DEF loop, replies, forks, Sending, Stages
<1>10. CASE Answered
  <2>1. PICK all : all = Append(answers, [request |-> Head(batch), closes |-> reply = "close"])
    OBVIOUS
  <2>2. /\ all \in Seq(Replies) /\ batch' \in Seq(Nat) /\ Len(batch) # 0 /\ Len(batch) \in Nat
        /\ Len(batch') = Len(batch) - 1 /\ Falling(Keys(all))
    BY <1>10, <2>1, AnsweredTyped
  <2>3. pending' \in Seq(Nat) /\ Len(pending') = 0 /\ pc = "awaiting"
    BY <1>10, QueueTyped DEF Answered
  <2>4. UNCHANGED <<written, deferred, last, held, forks, outcome, fired, got>>
    BY <1>10 DEF Answered, client
  <2>5. CASE Len(batch) > 1
    <3>1. pc' = "forwarding" /\ answers' = all
      BY <1>10, <2>1, <2>5 DEF Answered
    <3>2. Len(batch') # 0
      <4>1. PICK k \in Nat : k = Len(batch)
        BY <2>2
      <4>2. Len(batch') = k - 1 /\ k > 1
        BY <2>2, <2>5, <4>1
      <4>3. QED
        BY <4>2
    <3>3. Kinds'
      BY <2>2, <2>3, <2>4, <3>1 DEF forks, Stages
    <3>4. Shape'
      BY <1>10, <2>3, <2>4, <3>1, <3>2 DEF Sending
    <3>5. QED
      BY <3>3, <3>4
  <2>6. CASE ~(Len(batch) > 1)
    <3>1. pc' = "answering" /\ answers' = InTheOrderAsked(all)
      BY <1>10, <2>1, <2>6 DEF Answered
    <3>2. answers' \in Seq(Replies)
      BY <2>2, <3>1, SortingRises
    <3>3. QED
      BY <2>2, <2>3, <2>4, <2>6, <3>1, <3>2 DEF forks, Sending, Stages
  <2>7. QED
    BY <2>5, <2>6
<1>11. CASE CutsAnswer
  <2>1. answers' \in Seq(Replies) /\ responded' \in Seq(Responses) /\ End("ok")
    BY <1>11, SettlesTyped DEF CutsAnswer, Verdicts
  <2>2. QED
    BY <1>11, <2>1, EndTyped DEF CutsAnswer, Settles, Requested, Stages, Sending
<1>12. CASE PutsOff
  <2>1. answers' \in Seq(Replies) /\ responded' \in Seq(Responses) /\ Head(answers) \in Replies
    BY <1>12, SettlesTyped DEF PutsOff, Verdicts
  <2>2. held' \in Seq(Replies)
    BY <1>12, <2>1, AppendProperties DEF PutsOff
  <2>3. QED
    BY <1>12, <2>1, <2>2 DEF PutsOff, Settles, Requested, Observed, Sending
<1>13. CASE DropsAnswer
  <2>1. answers' \in Seq(Replies) /\ responded' \in Seq(Responses)
    BY <1>13, SettlesTyped DEF DropsAnswer, Verdicts
  <2>2. QED
    BY <1>13, <2>1 DEF DropsAnswer, Settles, Requested, Observed, Sending
<1>14. ASSUME NEW decision \in {"allow", "delay", "corrupt"}, PassesOn(decision)
       PROVE  Kinds' /\ Shape'
  <2>1. answers' \in Seq(Replies) /\ responded' \in Seq(Responses) /\ Head(answers).request \in Nat
    BY <1>14, SettlesTyped DEF PassesOn, Verdicts
  <2>2. got' \in Seq(Nat)
    BY <1>14, <2>1, NumberAdded DEF PassesOn
  <2>3. QED
    BY <1>14, <2>1, <2>2 DEF PassesOn, Settles, Requested, Observed, Sending
<1>15. CASE WriteHeld
  <2>1. Len(held) # 0
    BY <1>15, EmptySeq DEF WriteHeld
  <2>2. held' \in Seq(Replies) /\ Last(held) \in Replies
    BY <1>15, <2>1, KeysFront DEF WriteHeld
  <2>3. got' \in Seq(Nat)
    BY <1>15, <2>2, NumberAdded DEF WriteHeld, Write, Replies
  <2>4. UNCHANGED <<written, loop, answers, forks, checker, pc>> /\ pc = "answering"
    BY <1>15 DEF WriteHeld, upstream
  <2>5. QED
    BY <2>2, <2>3, <2>4 DEF loop, forks, checker, Sending
<1>16. QED
  BY <1>1, <1>2, <1>3, <1>4, <1>5, <1>6, <1>7, <1>8, <1>9, <1>10, <1>11, <1>12, <1>13, <1>14,
     <1>15, StepCases DEF Reads, Answering

-----------------------------------------------------------------------------
\* The order of the requests is kept.

\* What the fork of a later request decides does not matter.
LEMMA BeforeKept ==
    ASSUME NEW n \in Nat, NEW choices, NEW more, \A i \in 1 .. n : more[i] = choices[i],
           NEW first \in 1 .. n, NEW second \in 1 .. n
    PROVE  Before(choices, first, second) => Before(more, first, second)
<1>1. \A q \in second .. first - 1 : q \in 1 .. n
  OBVIOUS
<1>2. \A q \in first .. second - 1 : q \in 1 .. n
  OBVIOUS
<1>3. QED
  BY <1>1, <1>2 DEF Before

LEMMA WrittenKept ==
    ASSUME Typed, WrittenInOrder, NEW decision \in Verdicts, UNCHANGED written,
           decided' = Append(decided, decision)
    PROVE  WrittenInOrder'
<1>1. PICK n \in Nat : n = Len(decided)
  BY LenProperties DEF Typed
<1>2. Len(decided') = n + 1 /\ \A i \in 1 .. n : decided'[i] = decided[i]
  BY <1>1, DecidedTyped
<1>3. \A i \in 1 .. Len(written) : written[i] \in 1 .. n /\ Passes(decided[written[i]])
  BY <1>1 DEF WrittenInOrder, Among
<1>4. \A i, j \in 1 .. Len(written) : i < j => Before(decided', written[i], written[j])
  BY <1>2, <1>3, BeforeKept DEF WrittenInOrder
<1>5. \A r \in Among(written) : r \in 1 .. n + 1 /\ Passes(decided'[r])
  BY <1>2, <1>3 DEF Among
<1>6. QED
  BY <1>2, <1>4, <1>5 DEF WrittenInOrder

\* Steps that leave the requests where they are.
LEMMA OrderStays ==
    ASSUME OrderInv, UNCHANGED Requested,
           pc' # "ended" => pc' = pc \/ (pc # "ended" /\ pc # "awaiting")
    PROVE  OrderInv'
<1>1. UNCHANGED <<decided, deferred, batch, last, written>>
  BY DEF Requested
<1>2. WrittenInOrder'
  BY <1>1 DEF OrderInv, WrittenInOrder
<1>3. DeferredWait'
  BY <1>1 DEF OrderInv, DeferredWait
<1>4. BatchInOrder'
  BY <1>1 DEF OrderInv, BatchInOrder
<1>5. QED
  BY <1>2, <1>3, <1>4 DEF OrderInv

LEMMA OrderAtDefer ==
    ASSUME Typed, Shape, OrderInv, Defers \/ Withholds
    PROVE  OrderInv'
<1>1. PICK n \in Nat : n = Len(decided)
  BY LenProperties DEF Typed
<1>2. PICK decision \in {"reorder", "drop"} :
          /\ decided' = Append(decided, decision)
          /\ Defers => decision = "reorder"
          /\ Withholds => decision = "drop"
  BY DEF Defers, Withholds
<1>3. /\ Len(decided') = n + 1 /\ \A i \in 1 .. n : decided'[i] = decided[i]
      /\ decided'[n + 1] = decision
  BY <1>1, <1>2, DecidedTyped DEF Verdicts
<1>4. /\ UNCHANGED <<written, batch, last>>
      /\ pc' = "reading"
      /\ pc = "reading"
      /\ Len(batch) = 0
      /\ ~last
  BY DEF Defers, Withholds, Shape
<1>5. WrittenInOrder'
  BY <1>2, <1>4, WrittenKept DEF OrderInv, Verdicts
<1>6. /\ \A r \in Among(deferred) : r \in 1 .. n /\ Passes(decided[r])
      /\ \A r \in Among(deferred), q \in 1 .. n : q >= r => ~Starts(decided[q])
      /\ Rising(deferred) /\ deferred \in Seq(Nat)
  BY <1>1, <1>4 DEF OrderInv, DeferredWait, Typed
<1>7. /\ Rising(deferred')
      /\ Among(deferred') \subseteq Among(deferred) \cup (IF Defers THEN {n + 1} ELSE {})
  <2>1. CASE Defers
    <3>1. PICK new : new = Append(deferred, n + 1)
      OBVIOUS
    <3>2. n + 1 \in Nat /\ \A x \in Among(deferred) : x < n + 1
      BY <1>1, <1>6
    <3>3. Rising(new) /\ Among(new) = Among(deferred) \cup {n + 1}
      BY <1>6, <3>1, <3>2, NumbersAppended
    <3>4. deferred' = new
      BY <1>1, <2>1, <3>1 DEF Defers
    <3>5. QED
      BY <2>1, <3>3, <3>4
  <2>2. CASE ~Defers
    BY <1>6, <2>2 DEF Withholds
  <2>3. QED
    BY <2>1, <2>2
<1>8. ASSUME NEW r \in Among(deferred')
      PROVE  /\ r \in 1 .. n + 1 /\ Passes(decided'[r])
             /\ \A q \in r .. n + 1 : ~Starts(decided'[q])
  <2>1. ~Starts(decided'[n + 1])
    BY <1>3 DEF Starts
  <2>2. CASE r \in Among(deferred)
    <3>1. r \in 1 .. n /\ Passes(decided'[r])
      BY <1>3, <1>6, <2>2
    <3>2. ASSUME NEW q \in r .. n + 1
          PROVE  ~Starts(decided'[q])
      <4>1. q = n + 1 \/ (q \in 1 .. n /\ q >= r)
        BY <3>1
      <4>2. QED
        BY <1>3, <1>6, <2>1, <2>2, <4>1
    <3>3. QED
      BY <3>1, <3>2
  <2>3. CASE r = n + 1 /\ Defers
    <3>1. Passes(decided'[r])
      BY <1>2, <1>3, <2>3 DEF Passes
    <3>2. \A q \in r .. n + 1 : q = n + 1
      BY <2>3
    <3>3. QED
      BY <2>1, <2>3, <3>1, <3>2
  <2>4. QED
    BY <1>7, <1>8, <2>2, <2>3
<1>9. DeferredWait'
  BY <1>3, <1>7, <1>8 DEF DeferredWait
<1>10. BatchInOrder'
  <2>1. Among(batch') = {} /\ Falling(batch')
    BY <1>4, NumbersTyped DEF Typed
  <2>2. \A r \in Among(written) : \E q \in r .. n : Starts(decided[q])
    BY <1>1, <1>4 DEF OrderInv, BatchInOrder
  <2>3. ASSUME NEW r \in Among(written)
        PROVE  \E q \in r .. n + 1 : Starts(decided'[q])
    <3>1. PICK q \in r .. n : Starts(decided[q])
      BY <2>2
    <3>2. r \in 1 .. n
      BY <1>1 DEF OrderInv, WrittenInOrder
    <3>3. q \in r .. n + 1 /\ q \in 1 .. n
      BY <3>2
    <3>4. QED
      BY <1>3, <3>1, <3>3
  <2>4. QED
    BY <1>3, <1>4, <2>1, <2>3 DEF BatchInOrder
<1>11. QED
  BY <1>5, <1>9, <1>10 DEF OrderInv

\* Where an exchange starts: what was written goes before what was deferred,
\* as some request in between started an exchange.
LEMMA WrittenBeforeDeferred ==
    ASSUME Typed, OrderInv, ~last, pc = "reading",
           NEW r \in Among(written), NEW s \in Among(deferred)
    PROVE  Before(decided, r, s)
<1>1. PICK n \in Nat : n = Len(decided)
  BY LenProperties DEF Typed
<1>2. r \in 1 .. n /\ s \in 1 .. n /\ \A q \in s .. n : ~Starts(decided[q])
  BY <1>1 DEF OrderInv, WrittenInOrder, DeferredWait
<1>3. PICK q \in r .. n : Starts(decided[q])
  BY <1>1 DEF OrderInv, BatchInOrder
<1>4. q < s /\ r < s /\ q \in r .. s - 1
  BY <1>2, <1>3
<1>5. QED
  BY <1>2, <1>3, <1>4 DEF Before

LEMMA OrderAtBegin ==
    ASSUME Typed, Shape, OrderInv, NEW decision \in {"allow", "delay", "corrupt"}, Begins(decision)
    PROVE  OrderInv'
<1>1. PICK n \in Nat : n = Len(decided)
  BY LenProperties DEF Typed
<1>2. /\ decided' = Append(decided, decision) /\ decision \in Verdicts
      /\ pc = "reading" /\ pc' = "forwarding" /\ ~last /\ written' = written
      /\ batch' = <<n + 1>> \o Reverse(deferred) /\ deferred' = <<>>
  BY <1>1 DEF Begins, StartExchange, Shape, Verdicts
<1>3. /\ Len(decided') = n + 1 /\ \A i \in 1 .. n : decided'[i] = decided[i]
      /\ decided'[n + 1] = decision
  BY <1>1, <1>2, DecidedTyped
<1>4. WrittenInOrder'
  BY <1>2, WrittenKept DEF OrderInv
<1>5. DeferredWait'
  <2>1. Among(deferred') = {} /\ Rising(deferred')
    BY <1>2, NoneOfEmpty, NumbersTyped
  <2>2. QED
    BY <2>1 DEF DeferredWait
<1>6. /\ \A r \in Among(deferred) : r \in 1 .. n /\ Passes(decided[r])
      /\ \A r \in Among(deferred), q \in 1 .. n : q >= r => ~Starts(decided[q])
      /\ Rising(deferred) /\ deferred \in Seq(Nat)
  BY <1>1, <1>2 DEF OrderInv, DeferredWait, Typed
<1>7. PICK back : back = Reverse(deferred)
  OBVIOUS
<1>7a. back \in Seq(Nat) /\ Falling(back) /\ Among(back) = Among(deferred)
  BY <1>6, <1>7, NumbersReversed
<1>7b. PICK new : new = <<n + 1>> \o back
  OBVIOUS
<1>7c. n + 1 \in Nat /\ \A x \in Among(back) : x < n + 1
  BY <1>6, <1>7a
<1>7d. Falling(new) /\ Among(new) = {n + 1} \cup Among(back)
  BY <1>7a, <1>7b, <1>7c, NumbersAfter
<1>8. Falling(batch') /\ Among(batch') = {n + 1} \cup Among(deferred)
  BY <1>2, <1>7, <1>7a, <1>7b, <1>7d
<1>9. \A r \in Among(batch') : r \in 1 .. n + 1 /\ Passes(decided'[r])
  BY <1>3, <1>6, <1>8 DEF Passes, Starts
<1>10. ASSUME NEW r \in Among(batch'), NEW s \in Among(batch'), r > s
       PROVE  Before(decided', r, s)
  <2>1. r \in 1 .. n + 1 /\ s \in Among(deferred) /\ s \in 1 .. n
    BY <1>6, <1>8, <1>10
  <2>2. ASSUME NEW q \in s .. r - 1
        PROVE  ~Starts(decided'[q])
    <3>1. q \in 1 .. n /\ q >= s
      BY <2>1
    <3>2. QED
      BY <1>3, <1>6, <2>1, <3>1
  <2>3. r # s /\ ~(r < s)
    BY <1>10, <2>1
  <2>4. QED
    BY <2>2, <2>3 DEF Before
<1>11. ASSUME NEW r \in Among(written'), NEW s \in Among(batch')
       PROVE  Before(decided', r, s)
  <2>1. r \in Among(written) /\ r \in 1 .. n
    BY <1>1, <1>2 DEF OrderInv, WrittenInOrder
  <2>2. CASE s = n + 1
    <3>1. PICK q \in r .. n : Starts(decided[q])
      BY <1>1, <1>2, <2>1 DEF OrderInv, BatchInOrder
    <3>2. r < s /\ q \in r .. s - 1 /\ q \in 1 .. n
      BY <2>1, <2>2
    <3>3. r # s /\ ~(r > s)
      BY <2>1, <2>2
    <3>4. QED
      BY <1>3, <3>1, <3>2, <3>3 DEF Before
  <2>3. CASE s \in Among(deferred)
    <3>1. Before(decided, r, s) /\ s \in 1 .. n
      BY <1>2, <1>6, <2>1, <2>3, WrittenBeforeDeferred
    <3>2. QED
      BY <1>3, <2>1, <3>1, BeforeKept
  <2>4. QED
    BY <1>8, <2>2, <2>3
<1>12. ASSUME NEW r \in Among(written') \cup Among(batch')
       PROVE  \E q \in r .. n + 1 : Starts(decided'[q])
  <2>1. r \in 1 .. n + 1
    BY <1>3, <1>4, <1>9 DEF WrittenInOrder
  <2>2. n + 1 \in r .. n + 1 /\ Starts(decided'[n + 1])
    BY <1>3, <2>1 DEF Starts
  <2>3. QED
    BY <2>2
<1>13. BatchInOrder'
  BY <1>3, <1>8, <1>9, <1>10, <1>11, <1>12 DEF BatchInOrder
<1>14. QED
  BY <1>4, <1>5, <1>13 DEF OrderInv

LEMMA OrderAtFlush ==
    ASSUME Typed, Shape, OrderInv, Flushes
    PROVE  OrderInv'
<1>1. PICK n \in Nat : n = Len(decided)
  BY LenProperties DEF Typed
<1>2. /\ UNCHANGED <<decided, written>>
      /\ pc = "reading"
      /\ pc' = "forwarding"
      /\ ~last
      /\ last' = TRUE
      /\ batch' = Reverse(deferred) /\ deferred' = <<>>
  BY DEF Flushes, StartExchange, Shape
<1>3. WrittenInOrder'
  BY <1>2 DEF OrderInv, WrittenInOrder
<1>4. DeferredWait'
  <2>1. Among(deferred') = {} /\ Rising(deferred')
    BY <1>2, NoneOfEmpty, NumbersTyped
  <2>2. QED
    BY <2>1 DEF DeferredWait
<1>5. /\ \A r \in Among(deferred) : r \in 1 .. n /\ Passes(decided[r])
      /\ \A r \in Among(deferred), q \in 1 .. n : q >= r => ~Starts(decided[q])
      /\ Rising(deferred) /\ deferred \in Seq(Nat)
  BY <1>1, <1>2 DEF OrderInv, DeferredWait, Typed
<1>6a. PICK back : back = Reverse(deferred)
  OBVIOUS
<1>6b. Falling(back) /\ Among(back) = Among(deferred)
  BY <1>5, <1>6a, NumbersReversed
<1>6. Falling(batch') /\ Among(batch') = Among(deferred)
  BY <1>2, <1>6a, <1>6b
<1>7. ASSUME NEW r \in Among(deferred), NEW s \in Among(deferred), r > s
      PROVE  Before(decided, r, s)
  <2>1. r \in 1 .. n /\ s \in 1 .. n /\ r # s /\ ~(r < s)
    BY <1>5, <1>7
  <2>2. \A q \in s .. r - 1 : q \in 1 .. n /\ q >= s
    BY <2>1
  <2>3. QED
    BY <1>5, <2>1, <2>2 DEF Before
<1>8. \A r \in Among(written), s \in Among(deferred) : Before(decided, r, s)
  BY <1>2, WrittenBeforeDeferred
<1>9. BatchInOrder'
  BY <1>1, <1>2, <1>5, <1>6, <1>7, <1>8 DEF BatchInOrder
<1>10. QED
  BY <1>3, <1>4, <1>9 DEF OrderInv

LEMMA OrderAtForward ==
    ASSUME Typed, Shape, OrderInv, Forward
    PROVE  OrderInv'
<1>1. PICK n \in Nat : n = Len(decided)
  BY LenProperties DEF Typed
<1>2. PICK h \in Nat, rest \in Seq(Nat) :
          /\ h = Head(batch) /\ rest = Tail(batch) /\ Among(batch) = {h} \cup Among(rest)
          /\ Falling(batch) => \A x \in Among(rest) : h > x
  BY NumbersTail DEF Typed, Shape, Forward, Sending
<1>3. /\ UNCHANGED <<decided, deferred, batch, last>> /\ pc = "forwarding" /\ pc' = "awaiting"
      /\ written' = Append(written, h)
  BY <1>2 DEF Forward, loop, forks
<1>4. PICK k \in Nat : k = Len(written)
  BY NumbersTyped DEF Typed
<1>4a. PICK new : new = Append(written, h)
  OBVIOUS
<1>4b. /\ Len(new) = k + 1 /\ Among(new) = Among(written) \cup {h}
       /\ \A i \in 1 .. k : new[i] = written[i]
       /\ new[k + 1] = h
  <2>1. written \in Seq(Nat) /\ h \in Nat
    BY <1>2 DEF Typed
  <2>2a. Len(new) = Len(written) + 1
    BY <1>4a, <2>1, NumbersAppended
  <2>2b. Among(new) = Among(written) \cup {h}
    BY <1>4a, <2>1, NumbersAppended
  <2>2c. \A i \in 1 .. Len(written) : new[i] = written[i]
    BY <1>4a, <2>1, NumbersAppended
  <2>2d. new[Len(written) + 1] = h
    BY <1>4a, <2>1, NumbersAppended
  <2>3. QED
    BY <1>4, <2>2a, <2>2b, <2>2c, <2>2d
<1>5. /\ Len(written') = k + 1 /\ Among(written') = Among(written) \cup {h}
      /\ \A i \in 1 .. k : written'[i] = written[i]
      /\ written'[k + 1] = h
  BY <1>3, <1>4a, <1>4b
<1>6. /\ h \in 1 .. n /\ Passes(decided[h])
      /\ \A r \in Among(written) : Before(decided, r, h)
      /\ \A r \in Among(rest) : Before(decided, h, r)
  BY <1>1, <1>2, <1>3 DEF OrderInv, BatchInOrder
<1>7. WrittenInOrder'
  <2>1. ASSUME NEW i \in 1 .. k + 1, NEW j \in 1 .. k + 1, i < j
        PROVE  Before(decided, written'[i], written'[j])
    <3>1. i \in 1 .. k /\ written'[i] = written[i] /\ written[i] \in Among(written)
      BY <1>4, <1>5, <2>1 DEF Among
    <3>2. j = k + 1 \/ (j \in 1 .. k /\ written'[j] = written[j])
      BY <1>5
    <3>3. QED
      BY <1>4, <1>5, <1>6, <2>1, <3>1, <3>2 DEF OrderInv, WrittenInOrder
  <2>2. \A r \in Among(written') : r \in 1 .. n /\ Passes(decided[r])
    BY <1>1, <1>5, <1>6 DEF OrderInv, WrittenInOrder
  <2>3. QED
    BY <1>1, <1>3, <1>5, <2>1, <2>2 DEF WrittenInOrder
<1>8. DeferredWait'
  BY <1>3 DEF OrderInv, DeferredWait
<1>9. BatchInOrder'
  <2>1. ASSUME NEW r \in Among(written'), NEW s \in Among(batch)
        PROVE  Before(decided, r, s) \/ s = h
    BY <1>2, <1>3, <1>5, <1>6, <2>1 DEF OrderInv, BatchInOrder
  <2>2. Among(written') \cup Among(batch) = Among(written) \cup Among(batch)
    BY <1>2, <1>5
  <2>3. QED
    BY <1>2, <1>3, <2>1, <2>2 DEF OrderInv, BatchInOrder
<1>10. QED
  BY <1>7, <1>8, <1>9 DEF OrderInv

LEMMA OrderAtAnswer ==
    ASSUME Typed, Shape, OrderInv, Answered
    PROVE  OrderInv'
<1>1. PICK h \in Nat, rest \in Seq(Nat) :
          /\ h = Head(batch) /\ rest = Tail(batch) /\ Among(batch) = {h} \cup Among(rest)
          /\ Falling(batch) => Falling(rest) /\ \A x \in Among(rest) : h > x
  BY NumbersTail DEF Typed, Shape, Answered, Sending
<1>2. /\ UNCHANGED <<decided, deferred, last, written>> /\ pc = "awaiting" /\ pc' # "awaiting"
      /\ pc' # "ended" /\ batch' = rest
  BY <1>1 DEF Answered, forks
<1>3. WrittenInOrder' /\ DeferredWait'
  BY <1>2 DEF OrderInv, WrittenInOrder, DeferredWait
<1>4. \A s \in Among(rest) : s # h
  BY <1>1, <1>2, NumbersTyped DEF OrderInv, BatchInOrder
<1>5. BatchInOrder'
  BY <1>1, <1>2, <1>4 DEF OrderInv, BatchInOrder
<1>6. QED
  BY <1>3, <1>5 DEF OrderInv

LEMMA OrderKept ==
    ASSUME Typed, Shape, OrderInv, Next
    PROVE  OrderInv'
<1>1. CASE Stays \/ Turns \/ Quits \/ CutsAnswer \/ Answering
  BY <1>1, OrderStays DEF Stays, Turns, Quits, CutsAnswer, Answering, PutsOff, DropsAnswer,
     PassesOn, Settles, End
<1>2. CASE WriteHeld
  BY <1>2, OrderStays DEF WriteHeld, Requested, upstream, loop, forks
<1>3. CASE CutsRead
  <2>1. pc' = "ended" /\ WrittenInOrder'
    BY <1>3, WrittenKept DEF CutsRead, End, OrderInv, Verdicts
  <2>2. QED
    BY <2>1 DEF OrderInv, DeferredWait, BatchInOrder
<1>4. QED
  BY <1>1, <1>2, <1>3, StepCases, OrderAtDefer, OrderAtBegin, OrderAtFlush, OrderAtForward,
     OrderAtAnswer DEF Reads

-----------------------------------------------------------------------------
\* The order of the answers is kept.

\* What the client got, and what is on hold, was answered at its fork.
LEMMA GotSettled ==
    ASSUME Typed, GotInOrder
    PROVE  /\ Keys(responded) \in Seq(Nat)
           /\ Settled \subseteq Nat
           /\ \A choice \in Among(responded) : choice.request \in Settled
           /\ \A r \in Among(got) : r \in Settled
<1>1. PICK k \in Nat : k = Len(responded)
  BY LenProperties DEF Typed
<1>2. /\ Keys(responded) \in Seq(Nat) /\ Len(Keys(responded)) = k
      /\ \A i \in 1 .. k : Keys(responded)[i] = responded[i].request
  BY <1>1, InTagged, KeysTyped DEF Typed
<1>3. Settled \subseteq Nat
  BY <1>2, NumbersTyped DEF Settled
<1>4. \A choice \in Among(responded) : choice.request \in Settled
  BY <1>1, <1>2 DEF Settled, Among
<1>5. QED
  BY <1>2, <1>3, <1>4 DEF GotInOrder

\* The next answer a client gets.
LEMMA GotGrows ==
    ASSUME Typed, GotInOrder, NEW x \in Nat, got' = Append(got, x),
           Rising(Keys(responded)'), Among(responded) \subseteq Among(responded)',
           \A r \in Among(got) :
               r # x /\ (r > x => [request |-> x, decision |-> "reorder"] \in Among(responded)'),
           \E choice \in Among(responded)' : choice.request = x /\ choice.decision # "drop"
    PROVE  GotInOrder'
<1>1. PICK k \in Nat : k = Len(got)
  BY NumbersTyped DEF Typed
<1>2. PICK new : new = Append(got, x)
  OBVIOUS
<1>3. got \in Seq(Nat)
  BY DEF Typed
<1>4. Len(new) = Len(got) + 1 /\ \A i \in 1 .. Len(got) : new[i] = got[i]
  BY <1>2, <1>3, NumbersAppended
<1>5a. new[Len(got) + 1] = x
  BY <1>2, <1>3, NumbersAppended
<1>5. Among(new) = Among(got) \cup {x}
  <2>1. Among(Append(got, x)) = Among(got) \cup {x}
    BY <1>3, AmongAppended
  <2>2. QED
    BY <1>2, <2>1
<1>6. ASSUME NEW i \in 1 .. k + 1, NEW j \in 1 .. k + 1, i < j
      PROVE  /\ new[i] # new[j]
             /\ new[i] > new[j] =>
                    [request |-> new[j], decision |-> "reorder"] \in Among(responded)'
  <2>1. i \in 1 .. k /\ new[i] = got[i] /\ got[i] \in Among(got)
    BY <1>1, <1>4, <1>6 DEF Among
  <2>2. CASE j = k + 1
    BY <1>1, <1>5a, <2>1, <2>2
  <2>3. CASE j \in 1 .. k
    <3>1. new[j] = got[j]
      BY <1>1, <1>4, <2>3
    <3>2. /\ got[i] # got[j]
          /\ got[i] > got[j] =>
                 [request |-> got[j], decision |-> "reorder"] \in Among(responded)
      BY <1>1, <1>6, <2>1, <2>3 DEF GotInOrder
    <3>3. QED
      BY <2>1, <3>1, <3>2
  <2>4. QED
    BY <2>2, <2>3
<1>7. \A r \in Among(new) :
          \E choice \in Among(responded)' : choice.request = r /\ choice.decision # "drop"
  BY <1>5 DEF GotInOrder
<1>8. Len(new) = k + 1 /\ got' = new
  BY <1>1, <1>2, <1>4
<1>9. QED
  BY <1>6, <1>7, <1>8 DEF GotInOrder

\* Steps that answer nothing and put nothing new before what was answered.
LEMMA AnswersStay ==
    ASSUME Typed, AnswersInv, UNCHANGED Passed,
           \/ pc' = "ended"
           \/ /\ pc # "ended"
              /\ pc' \in Sending => pc \in Sending \/ Len(answers) = 0
              /\ pc' = "answering" => pc = "answering"
              /\ UNCHANGED <<decided, deferred, batch>>
    PROVE  AnswersInv'
<1>1. UNCHANGED <<answers, held, responded, got>>
  BY DEF Passed
<1>2. GotInOrder'
  BY <1>1 DEF AnswersInv, GotInOrder
<1>3. CASE pc' = "ended"
  BY <1>2, <1>3 DEF AnswersInv, HeldInOrder, AnswersInOrder
<1>4. CASE /\ pc # "ended"
           /\ pc' \in Sending => pc \in Sending \/ Len(answers) = 0
           /\ pc' = "answering" => pc = "answering"
           /\ UNCHANGED <<decided, deferred, batch>>
  <2>1. HeldInOrder'
    BY <1>1, <1>4 DEF AnswersInv, HeldInOrder
  <2>2a. /\ Among(deferred)' = Among(deferred) /\ Among(batch)' = Among(batch)
         /\ Keys(answers)' = Keys(answers) /\ Settled' = Settled
    BY <1>1, <1>4 DEF Settled, Keys, Among
  <2>2b. Len(answers) = 0 =>
             Falling(Keys(answers)) /\ \A r \in Among(Keys(answers)), s \in Among(batch) : r > s
    BY InTagged, KeysTyped, NumbersTyped DEF Typed
  <2>2. AnswersInOrder'
    BY <1>1, <1>4, <2>2a, <2>2b DEF AnswersInv, AnswersInOrder
  <2>3. QED
    BY <1>2, <2>1, <2>2 DEF AnswersInv
<1>5. QED
  BY <1>3, <1>4

\* Requests that are read, deferred or put into a batch.
LEMMA AnswersAtRead ==
    ASSUME Typed, AnswersInv, UNCHANGED Passed, pc = "reading", Len(answers) = 0,
           pc' \in {"reading", "forwarding"},
           NEW n \in Nat, n = Len(decided), NEW m \in Nat, m = Len(decided)', n <= m,
           \A s \in Among(deferred)' \cup Among(batch)' :
               s = n + 1 \/ s \in Among(deferred) \cup Among(batch)
    PROVE  AnswersInv'
<1>1. UNCHANGED <<answers, held, responded, got>>
  BY DEF Passed
<1>2. GotInOrder' /\ HeldInOrder'
  BY <1>1 DEF AnswersInv, GotInOrder, HeldInOrder
<1>3. /\ Among(Keys(answers)) = {} /\ Among(Keys(answers))' = {}
      /\ Falling(Keys(answers))' /\ Settled' = Settled
  <2>1. Among(Keys(answers)) = {} /\ Falling(Keys(answers))
    BY InTagged, KeysTyped, NumbersTyped DEF Typed
  <2>2. QED
    BY <1>1, <2>1 DEF Among, Keys, Falling, Settled
<1>4. \A r \in Settled : r \in 1 .. n
  BY DEF AnswersInv, AnswersInOrder
<1>5. \A r \in Settled, s \in Among(deferred) \cup Among(batch) : r < s
  BY DEF AnswersInv, AnswersInOrder
<1>6. \A r \in Settled, s \in Among(deferred)' \cup Among(batch)' : r < s
  BY <1>4, <1>5
<1>7. \A r \in Settled : r \in 1 .. m
  BY <1>4
<1>8. AnswersInOrder'
  BY <1>3, <1>6, <1>7 DEF AnswersInOrder
<1>9. QED
  BY <1>2, <1>8 DEF AnswersInv

LEMMA AnswersAtAnswer ==
    ASSUME Typed, Shape, OrderInv, AnswersInv, Answered
    PROVE  AnswersInv'
<1>1. PICK all : all = Append(answers, [request |-> Head(batch), closes |-> reply = "close"])
  OBVIOUS
<1>2. AnswersInOrder
  BY DEF AnswersInv
<1>3. PICK h \in Nat : h = Head(batch)
  BY <1>1, <1>2, AnsweredTyped
<1>4. all \in Seq(Replies) /\ Keys(all) = Append(Keys(answers), h) /\ Falling(Keys(all))
  BY <1>1, <1>2, <1>3, AnsweredTyped
<1>5. PICK rest : rest = Tail(batch)
  OBVIOUS
<1>6. batch \in Seq(Nat) /\ Len(batch) # 0 /\ batch' = rest
  BY <1>1, <1>2, <1>5, AnsweredTyped DEF Typed
<1>7. Among(batch) = {h} \cup Among(rest) /\ (Falling(batch) => \A x \in Among(rest) : h > x)
  BY <1>3, <1>5, <1>6, NumbersTail
<1>8. pc = "awaiting" /\ UNCHANGED <<decided, deferred, held, responded, got>>
  BY DEF Answered, forks, client
<1>9. /\ Falling(batch) /\ \A s \in Among(batch) : s \in 1 .. Len(decided)
  BY <1>8 DEF OrderInv, BatchInOrder
<1>10. PICK old \in Seq(Nat) : old = Keys(answers)
  BY InTagged, KeysTyped DEF Typed
<1>11. PICK new : new = Append(old, h)
  OBVIOUS
<1>12. Among(new) = Among(old) \cup {h}
  BY <1>10, <1>11, NumbersAppended
<1>13. /\ \A r \in Among(old), s \in Among(batch) : r > s
       /\ \A r \in Settled \cup Among(old) : r \in 1 .. Len(decided)
       /\ \A r \in Settled, s \in Among(deferred) \cup Among(batch) \cup Among(old) : r < s
  BY <1>8, <1>10 DEF AnswersInv, AnswersInOrder, Sending
<1>14. /\ pc' # "ended" /\ Among(Keys(answers)') = Among(new)
       /\ pc' \in Sending => Falling(Keys(answers)')
       /\ pc' = "answering" => Rising(Keys(answers)')
  <2>1. CASE Len(batch) > 1
    <3>1. pc' = "forwarding" /\ answers' = all
      BY <1>1, <2>1 DEF Answered
    <3>2. Keys(answers)' = Keys(all)
      BY <3>1 DEF Keys
    <3>3. QED
      BY <1>4, <1>10, <1>11, <3>1, <3>2
  <2>2. CASE ~(Len(batch) > 1)
    <3>1. pc' = "answering" /\ answers' = InTheOrderAsked(all)
      BY <1>1, <2>2 DEF Answered
    <3>2. PICK sorted : sorted = InTheOrderAsked(all)
      OBVIOUS
    <3>3. Rising(Keys(sorted)) /\ Among(Keys(sorted)) = Among(Keys(all))
      BY <1>4, <3>2, SortingRises
    <3>4. Keys(answers)' = Keys(sorted)
      BY <3>1, <3>2 DEF Keys
    <3>5. QED
      BY <1>4, <1>10, <1>11, <3>1, <3>3, <3>4 DEF Sending
  <2>3. QED
    BY <2>1, <2>2
<1>15. Settled' = Settled
  BY <1>8 DEF Settled, Keys, Among
<1>16. \A r \in Among(new), s \in Among(rest) : r > s
  BY <1>7, <1>9, <1>12, <1>13
<1>17. \A r \in Settled \cup Among(new) : r \in 1 .. Len(decided)
  BY <1>7, <1>9, <1>12, <1>13
<1>18. \A r \in Settled, s \in Among(deferred) \cup Among(rest) \cup Among(new) : r < s
  BY <1>7, <1>12, <1>13
<1>19. AnswersInOrder'
  BY <1>6, <1>8, <1>14, <1>15, <1>16, <1>17, <1>18 DEF AnswersInOrder
<1>20. GotInOrder'
  BY <1>8 DEF AnswersInv, GotInOrder
<1>21. HeldInOrder'
  BY <1>8 DEF AnswersInv, HeldInOrder
<1>22. QED
  BY <1>19, <1>20, <1>21 DEF AnswersInv

\* An answer at its fork was asked after all that were there before it.
LEMMA SettlesInOrder ==
    ASSUME Typed, Shape, AnswersInv, NEW decision \in Verdicts, Settles(decision),
           pc' \in {"answering", "ended"}, NEW h, h = Head(answers).request
    PROVE  /\ h \in Nat /\ \A r \in Settled : r < h
           /\ \A r \in Among(got) : r \in Settled /\ r < h
           /\ Rising(Keys(responded)') /\ Among(responded) \subseteq Among(responded)'
           /\ [request |-> h, decision |-> decision] \in Among(responded)'
           /\ pc' # "ended" => AnswersInOrder'
<1>1. PICK old \in Seq(Nat) : old = Keys(answers)
  BY InTagged, KeysTyped DEF Typed
<1>2. PICK new : new = Tail(old)
  OBVIOUS
<1>3. /\ h \in Nat /\ h = Head(old) /\ Keys(answers)' = new /\ Len(old) # 0
      /\ Keys(responded)' = Append(Keys(responded), h)
      /\ Among(responded)' = Among(responded) \cup {[request |-> h, decision |-> decision]}
  BY <1>1, <1>2, SettlesTyped
<1>4. /\ UNCHANGED <<decided, deferred, batch>>
      /\ pc = "answering"
      /\ Len(deferred) = 0
      /\ Len(batch) = 0
  BY DEF Settles, Requested, Shape
<1>4a. h \in Nat /\ h = Head(old) /\ Len(old) # 0
  BY <1>3
<1>5a. Among(old) = {Head(old)} \cup Among(new)
  BY <1>1, <1>2, <1>4a, NumbersTail
<1>5b. Rising(old) => Rising(new) /\ \A x \in Among(new) : Head(old) < x
  BY <1>1, <1>2, <1>4a, NumbersTail
<1>5. /\ Among(old) = {h} \cup Among(new)
      /\ (Rising(old) => Rising(new) /\ \A x \in Among(new) : h < x)
  BY <1>4a, <1>5a, <1>5b
<1>6. /\ Rising(old)
      /\ \A r \in Settled \cup Among(old) : r \in 1 .. Len(decided)
      /\ \A r \in Settled, s \in Among(old) : r < s
  BY <1>1, <1>4 DEF AnswersInv, AnswersInOrder
<1>7. \A r \in Settled : r < h
  BY <1>5, <1>6
<1>8. GotInOrder
  BY DEF AnswersInv
<1>9. PICK was \in Seq(Nat) : was = Keys(responded)
  BY <1>8, GotSettled
<1>10. PICK now : now = Append(was, h)
  OBVIOUS
<1>11. Among(now) = Among(was) \cup {h}
  BY <1>4a, <1>9, <1>10, NumbersAppended
<1>12. Rising(was) /\ \A x \in Among(was) : x < h
  BY <1>7, <1>8, <1>9 DEF GotInOrder, Settled
<1>13. Rising(now)
  BY <1>4a, <1>9, <1>10, <1>12, NumbersAppended
<1>14. Keys(responded)' = now /\ Settled' = Settled \cup {h}
  BY <1>3, <1>9, <1>10, <1>11 DEF Settled
<1>15. Among(deferred) = {} /\ Among(batch) = {}
  BY <1>4, NumbersTyped DEF Typed
<1>16. ASSUME pc' # "ended"
       PROVE  AnswersInOrder'
  <2>1. Rising(new) /\ pc' = "answering"
    BY <1>5, <1>6, <1>16 DEF AnswersInOrder
  <2>2. \A r \in Settled' \cup Among(new) : r \in 1 .. Len(decided)
    BY <1>5, <1>6, <1>14
  <2>3. \A r \in Settled', s \in Among(new) : r < s
    BY <1>5, <1>6, <1>14
  <2>4. Among(deferred)' = {} /\ Among(batch)' = {}
    BY <1>4, <1>15
  <2>5. QED
    BY <1>3, <1>4, <2>1, <2>2, <2>3, <2>4 DEF AnswersInOrder, Sending
<1>17. \A r \in Among(got) : r \in Settled /\ r < h
  BY <1>7, <1>8, GotSettled
<1>18. QED
  BY <1>3, <1>7, <1>13, <1>14, <1>16, <1>17

\* The client gets the answer, or it is put on hold, or dropped.
LEMMA AnswersAtRespond ==
    ASSUME Typed, Shape, AnswersInv, Answering \/ CutsAnswer
    PROVE  AnswersInv'
<1>1. PICK decision \in Verdicts :
          /\ Settles(decision)
          /\ \/ decision = "close" /\ CutsAnswer
             \/ decision = "reorder" /\ PutsOff
             \/ decision = "drop" /\ DropsAnswer
             \/ decision \in {"allow", "delay", "corrupt"} /\ PassesOn(decision)
  BY DEF Answering, CutsAnswer, PutsOff, DropsAnswer, PassesOn, Verdicts
<1>2. PICK h : h = Head(answers).request
  OBVIOUS
<1>3. pc = "answering" /\ (pc' = "answering" \/ pc' = "ended") /\ (~CutsAnswer => pc' = "answering")
  BY DEF Answering, CutsAnswer, PutsOff, DropsAnswer, PassesOn, Settles, End
<1>4. /\ h \in Nat /\ \A r \in Settled : r < h
      /\ \A r \in Among(got) : r \in Settled /\ r < h
      /\ Rising(Keys(responded)') /\ Among(responded) \subseteq Among(responded)'
      /\ [request |-> h, decision |-> decision] \in Among(responded)'
      /\ pc' # "ended" => AnswersInOrder'
  BY <1>1, <1>2, <1>3, SettlesInOrder
<1>5. pc' = "ended" => HeldInOrder' /\ AnswersInOrder'
  BY DEF HeldInOrder, AnswersInOrder
<1>6. ASSUME UNCHANGED got
      PROVE  GotInOrder'
  BY <1>4, <1>6 DEF AnswersInv, GotInOrder
<1>7. ASSUME UNCHANGED <<got, held>>
      PROVE  HeldInOrder'
  <2>1. Keys(held)' = Keys(held) /\ Among(got)' = Among(got)
    BY <1>7 DEF Keys, Among
  <2>2. QED
    BY <1>3, <1>4, <2>1 DEF AnswersInv, HeldInOrder
<1>8. CASE CutsAnswer \/ DropsAnswer
  BY <1>4, <1>5, <1>6, <1>7, <1>8 DEF CutsAnswer, DropsAnswer, AnswersInv, End
<1>9. CASE decision = "reorder" /\ PutsOff
  <2>1. GotInOrder'
    BY <1>6, <1>9 DEF PutsOff
  <2>2. /\ Head(answers) \in Tagged /\ Head(answers).request = h /\ held \in Seq(Tagged)
        /\ held' = Append(held, Head(answers))
    BY <1>1, <1>2, <1>9, SettlesTyped, InTagged DEF PutsOff, Typed
  <2>3. PICK was \in Seq(Nat) : was = Keys(held)
    BY <2>2, KeysTyped
  <2>4. PICK now : now = Append(was, h)
    OBVIOUS
  <2>5. Keys(held)' = now
    <3>1. PICK e \in Tagged : e = Head(answers)
      BY <2>2
    <3>1a. PICK more : more = Append(held, e)
      OBVIOUS
    <3>2. Keys(more) = Append(Keys(held), e.request)
      BY <2>2, <3>1a, KeysAppended
    <3>3. Keys(held)' = Keys(more)
      BY <2>2, <3>1, <3>1a DEF Keys
    <3>4. QED
      BY <2>2, <2>3, <2>4, <3>1, <3>2, <3>3
  <2>6. /\ Rising(was)
        /\ \A r \in Among(was) :
               r \notin Among(got) /\ [request |-> r, decision |-> "reorder"] \in Among(responded)
    BY <1>3, <2>3 DEF AnswersInv, HeldInOrder
  <2>7. \A r \in Among(was) : r < h
    <3>1. GotInOrder
      BY DEF AnswersInv
    <3>2. ASSUME NEW r \in Among(was)
          PROVE  r \in Settled
      <4>1. PICK choice : choice = [request |-> r, decision |-> "reorder"]
        OBVIOUS
      <4>2. choice \in Among(responded) /\ choice.request = r
        BY <2>6, <3>2, <4>1
      <4>3. QED
        BY <3>1, <4>2, GotSettled
    <3>3. QED
      BY <1>4, <3>2
  <2>8. h \in Nat
    BY <1>4
  <2>9. Rising(now)
    BY <2>3, <2>4, <2>6, <2>7, <2>8, NumbersAppended
  <2>10. Among(now) = Among(was) \cup {h}
    BY <2>3, <2>4, <2>8, AmongAppended
  <2>11. got' = got /\ h \notin Among(got)
    BY <1>4, <1>9 DEF PutsOff
  <2>12. HeldInOrder'
    BY <1>4, <1>9, <2>5, <2>6, <2>9, <2>10, <2>11 DEF HeldInOrder
  <2>13. QED
    BY <1>3, <1>4, <1>9, <2>1, <2>12 DEF AnswersInv, PutsOff
<1>10. CASE decision \in {"allow", "delay", "corrupt"} /\ PassesOn(decision)
  <2>1. got' = Append(got, h) /\ held' = held /\ pc' = "answering"
    BY <1>2, <1>3, <1>10 DEF PassesOn
  <2>2. \E choice \in Among(responded)' : choice.request = h /\ choice.decision # "drop"
    <3>1. PICK choice : choice = [request |-> h, decision |-> decision]
      OBVIOUS
    <3>2. choice \in Among(responded)' /\ choice.request = h /\ choice.decision # "drop"
      BY <1>4, <1>10, <3>1
    <3>3. QED
      BY <3>2
  <2>3. \A r \in Among(got) : r # h /\ ~(r > h)
    <3>1. GotInOrder
      BY DEF AnswersInv
    <3>2. Settled \subseteq Nat
      BY <3>1, GotSettled
    <3>3. ASSUME NEW r \in Among(got)
          PROVE  r # h /\ ~(r > h)
      <4>1. r \in Nat /\ r < h /\ h \in Nat
        BY <1>4, <3>2, <3>3
      <4>2. QED
        BY <4>1
    <3>4. QED
      BY <3>3
  <2>4. GotInOrder
    BY DEF AnswersInv
  <2>5. GotInOrder'
    BY <1>4, <2>1, <2>2, <2>3, <2>4, GotGrows
  <2>6. /\ Rising(Keys(held))
        /\ \A r \in Among(Keys(held)) :
               r \notin Among(got) /\ [request |-> r, decision |-> "reorder"] \in Among(responded)
    BY <1>3 DEF AnswersInv, HeldInOrder
  <2>7. \A r \in Among(Keys(held)) : r # h
    <3>1. ASSUME NEW r \in Among(Keys(held))
          PROVE  r \in Settled
      <4>1. PICK choice : choice = [request |-> r, decision |-> "reorder"]
        OBVIOUS
      <4>2. choice \in Among(responded) /\ choice.request = r
        BY <2>6, <3>1, <4>1
      <4>3. QED
        BY <2>4, <4>2, GotSettled
    <3>2. QED
      BY <1>4, <3>1
  <2>8. got \in Seq(Nat) /\ h \in Nat
    BY <1>4 DEF Typed
  <2>9. Among(got)' = Among(got) \cup {h}
    <3>1. Among(Append(got, h)) = Among(got) \cup {h}
      BY <2>8, AmongAppended
    <3>2. QED
      BY <2>1, <3>1 DEF Among
  <2>10. HeldInOrder'
    <3>1. Keys(held)' = Keys(held)
      BY <2>1 DEF Keys
    <3>2. QED
      BY <1>4, <2>6, <2>7, <2>9, <3>1 DEF HeldInOrder
  <2>11. QED
    BY <1>4, <2>1, <2>5, <2>10 DEF AnswersInv
<1>11. QED
  BY <1>1, <1>8, <1>9, <1>10

\* What was put on hold is passed on, the last first.
LEMMA AnswersAtHeld ==
    ASSUME Typed, Shape, AnswersInv, WriteHeld
    PROVE  AnswersInv'
<1>1. held \in Seq(Replies) /\ held # <<>>
  BY DEF Typed, WriteHeld
<1>2. Len(held) # 0
  BY <1>1, EmptySeq
<1>3. PICK front : front = Front(held)
  OBVIOUS
<1>4. /\ Keys(front) = Front(Keys(held)) /\ Last(held).request = Last(Keys(held))
      /\ Len(Keys(held)) = Len(held) /\ Keys(held) \in Seq(Nat)
  BY <1>1, <1>2, <1>3, KeysFront, InTagged, KeysTyped
<1>5. PICK was, now, x : /\ was \in Seq(Nat) /\ was = Keys(held)
                     /\ now = Front(was) /\ x = Last(was)
  BY <1>4
<1>6. Len(was) # 0
  BY <1>2, <1>4, <1>5
<1>7a. Last(was) \in Nat /\ Among(was) = {Last(was)} \cup Among(now)
  BY <1>5, <1>6, NumbersFront
<1>7b. Rising(was) => Rising(now) /\ \A y \in Among(now) : y < Last(was)
  BY <1>5, <1>6, NumbersFront
<1>7. /\ x \in Nat /\ Among(was) = {x} \cup Among(now)
      /\ Rising(was) => Rising(now) /\ \A y \in Among(now) : y < x
  BY <1>5, <1>7a, <1>7b
<1>8. /\ pc = "answering" /\ pc' = "answering" /\ held' = front /\ got' = Append(got, x)
      /\ UNCHANGED <<answers, responded, decided, deferred, batch>>
  BY <1>3, <1>4, <1>5 DEF WriteHeld, Write, loop, forks
<1>9. /\ Rising(was)
      /\ \A r \in Among(was) :
             r \notin Among(got) /\ [request |-> r, decision |-> "reorder"] \in Among(responded)
  BY <1>5, <1>8 DEF AnswersInv, HeldInOrder
<1>10. GotInOrder
  BY DEF AnswersInv
<1>11. Among(responded)' = Among(responded) /\ Keys(responded)' = Keys(responded)
  BY <1>8 DEF Keys, Among
<1>12. [request |-> x, decision |-> "reorder"] \in Among(responded) /\ x \notin Among(got)
  BY <1>7, <1>9
<1>13. GotInOrder'
  <2>1. Rising(Keys(responded)')
    BY <1>10, <1>11 DEF GotInOrder
  <2>2. PICK choice : choice = [request |-> x, decision |-> "reorder"]
    OBVIOUS
  <2>3. choice.request = x /\ choice.decision # "drop" /\ choice \in Among(responded)'
    BY <1>11, <1>12, <2>2
  <2>4. \A r \in Among(got) :
            r # x /\ (r > x => [request |-> x, decision |-> "reorder"] \in Among(responded)')
    BY <1>11, <1>12
  <2>5. Among(responded) \subseteq Among(responded)'
    BY <1>11
  <2>6. QED
    BY <1>7, <1>8, <1>10, <2>1, <2>3, <2>4, <2>5, GotGrows
<1>14. Among(got)' = Among(got) \cup {x}
  <2>1. Among(Append(got, x)) = Among(got) \cup {x}
    BY <1>7, AmongAppended DEF Typed
  <2>2. QED
    BY <1>8, <2>1 DEF Among
<1>15. HeldInOrder'
  <2>1. Keys(held)' = now
    BY <1>4, <1>5, <1>8 DEF Keys
  <2>2. \A r \in Among(now) : r # x
    BY <1>7, <1>9
  <2>3. QED
    BY <1>7, <1>9, <1>11, <1>14, <2>1, <2>2 DEF HeldInOrder
<1>16. AnswersInOrder'
  <2>1. /\ Keys(answers)' = Keys(answers) /\ Settled' = Settled
        /\ Among(deferred)' = Among(deferred) /\ Among(batch)' = Among(batch)
    BY <1>8 DEF Keys, Among, Settled
  <2>2. QED
    BY <1>8, <2>1 DEF AnswersInv, AnswersInOrder
<1>17. QED
  BY <1>13, <1>15, <1>16 DEF AnswersInv

LEMMA AnswersKept ==
    ASSUME Typed, Shape, OrderInv, AnswersInv, Next
    PROVE  AnswersInv'
<1>1. CASE Stays \/ Turns \/ Quits \/ CutsRead
  BY <1>1, AnswersStay DEF Stays, Turns, Quits, CutsRead, End, Requested, Sending
<1>2. CASE Forward
  BY <1>2, AnswersStay DEF Forward, Passed, client, replies, forks, loop, Sending
<1>3. CASE Defers \/ Withholds
  <2>1. PICK n \in Nat : n = Len(decided)
    BY LenProperties DEF Typed
  <2>2. Len(decided)' = n + 1
    <3>1. PICK decision \in Verdicts : decided' = Append(decided, decision)
      BY <1>3 DEF Defers, Withholds, Verdicts
    <3>2. QED
      BY <2>1, <3>1, DecidedTyped
  <2>3. /\ UNCHANGED <<Passed, batch>> /\ pc = "reading" /\ pc' = "reading" /\ Len(answers) = 0
        /\ deferred' = deferred \/ deferred' = Append(deferred, n + 1)
    BY <1>3, <2>1 DEF Defers, Withholds, Shape
  <2>4. Among(Append(deferred, n + 1)) = Among(deferred) \cup {n + 1}
    <3>1. n + 1 \in Nat /\ deferred \in Seq(Nat)
      BY DEF Typed
    <3>2. QED
      BY <3>1, AmongAppended
  <2>5. Among(batch)' = Among(batch) /\ Among(deferred)' \subseteq Among(deferred) \cup {n + 1}
    BY <2>3, <2>4 DEF Among
  <2>6. QED
    BY <2>1, <2>2, <2>3, <2>5, AnswersAtRead
<1>4. ASSUME NEW decision \in {"allow", "delay", "corrupt"}, Begins(decision)
      PROVE  AnswersInv'
  <2>1. PICK n \in Nat : n = Len(decided)
    BY LenProperties DEF Typed
  <2>2. Len(decided)' = n + 1
    BY <1>4, <2>1, DecidedTyped DEF Begins, Verdicts
  <2>3. PICK back, new : back = Reverse(deferred) /\ new = <<n + 1>> \o back
    OBVIOUS
  <2>4. /\ UNCHANGED Passed /\ pc = "reading" /\ pc' = "forwarding" /\ Len(answers) = 0
        /\ deferred' = <<>> /\ batch' = new
    BY <1>4, <2>1, <2>3 DEF Begins, StartExchange, Shape
  <2>5. back \in Seq(Nat) /\ Among(back) = Among(deferred)
    BY <2>3, NumbersReversed DEF Typed
  <2>5a. n + 1 \in Nat /\ back \in Seq(Nat) /\ new = <<n + 1>> \o back
    BY <2>3, <2>5
  <2>6. Among(new) = {n + 1} \cup Among(back)
    BY <2>5a, NumbersAfter
  <2>7. Among(deferred)' = {} /\ Among(batch)' = {n + 1} \cup Among(deferred)
    <3>1. Among(deferred') = {} /\ Among(batch') = {n + 1} \cup Among(deferred)
      BY <2>4, <2>5, <2>6, NoneOfEmpty, NumbersTyped
    <3>2. QED
      BY <3>1 DEF Among
  <2>8. QED
    BY <2>1, <2>2, <2>4, <2>7, AnswersAtRead
<1>5. CASE Flushes
  <2>1. PICK n \in Nat : n = Len(decided)
    BY LenProperties DEF Typed
  <2>2. PICK back : back = Reverse(deferred)
    OBVIOUS
  <2>3. /\ UNCHANGED Passed /\ pc = "reading" /\ pc' = "forwarding" /\ Len(answers) = 0
        /\ deferred' = <<>> /\ batch' = back /\ Len(decided)' = n
    BY <1>5, <2>1, <2>2 DEF Flushes, StartExchange, Shape
  <2>4. Among(back) = Among(deferred)
    BY <2>2, NumbersReversed DEF Typed
  <2>5. Among(deferred)' = {} /\ Among(batch)' = Among(deferred)
    <3>1. Among(deferred') = {} /\ Among(batch') = Among(deferred)
      BY <2>3, <2>4, NoneOfEmpty, NumbersTyped
    <3>2. QED
      BY <3>1 DEF Among
  <2>6. QED
    BY <2>1, <2>3, <2>5, AnswersAtRead
<1>6. QED
  BY <1>1, <1>2, <1>3, <1>4, <1>5, StepCases, AnswersAtAnswer, AnswersAtRespond, AnswersAtHeld
     DEF Reads

-----------------------------------------------------------------------------
\* Nothing is lost on the way.

\* Steps that move no request and no answer.
LEMMA AccountedStays ==
    ASSUME Accounted,
           \/ pc' = "ended"
           \/ /\ UNCHANGED <<Requested, Passed>> /\ pc # "ended"
              /\ pc' = pc \/ (pc # "awaiting" /\ pc' # "awaiting")
    PROVE  Accounted'
<1>1. CASE pc' = "ended"
  BY <1>1 DEF Accounted
<1>2. CASE /\ UNCHANGED <<Requested, Passed>> /\ pc # "ended"
           /\ pc' = pc \/ (pc # "awaiting" /\ pc' # "awaiting")
  <2>1. /\ UNCHANGED <<decided, responded>> /\ Among(deferred)' = Among(deferred)
        /\ Among(batch)' = Among(batch) /\ Among(written)' = Among(written)
        /\ Among(got)' = Among(got) /\ Keys(held)' = Keys(held) /\ Keys(answers)' = Keys(answers)
    BY <1>2 DEF Requested, Passed, Among, Keys
  <2>2. Awaited' = Awaited /\ \A r : DroppedAt(r)' = DroppedAt(r)
    BY <1>2, <2>1 DEF Awaited, DroppedAt, Requested
  <2>3. QED
    BY <1>2, <2>1, <2>2 DEF Accounted
<1>3. QED
  BY <1>1, <1>2

\* A request is read: it is withheld, deferred or put into a batch.
LEMMA AccountedAtRead ==
    ASSUME Typed, Accounted, UNCHANGED <<Passed, written>>, pc = "reading",
           pc' \in {"reading", "forwarding"},
           NEW decision \in Verdicts, decided' = Append(decided, decision),
           NEW n \in Nat, n = Len(decided),
           Among(deferred) \cup Among(batch) \subseteq Among(deferred)' \cup Among(batch)',
           decision = "drop" \/ n + 1 \in Among(deferred)' \cup Among(batch)'
    PROVE  Accounted'
<1>1. /\ Len(decided') = n + 1
      /\ decided'[n + 1] = decision
      /\ \A i \in 1 .. n : decided'[i] = decided[i]
  BY DecidedTyped
<1>2. /\ responded' = responded /\ Among(written)' = Among(written) /\ Among(got)' = Among(got)
      /\ Keys(held)' = Keys(held) /\ Keys(answers)' = Keys(answers)
  BY DEF Passed, Among, Keys
<1>3. Awaited = {} /\ Awaited' = {} /\ \A r : DroppedAt(r)' = DroppedAt(r)
  BY <1>2 DEF Awaited, DroppedAt
<1>4. /\ \A r \in 1 .. n :
             decided[r] = "drop" \/ r \in Among(deferred) \cup Among(batch) \cup Among(written)
      /\ \A r \in Among(written) :
             \/ r \in 1 .. n /\ DroppedAt(r)
             \/ r \in Among(got) \cup Among(Keys(held)) \cup Among(Keys(answers))
      /\ Among(Keys(held)) \cup Among(Keys(answers)) \cup Among(got) \subseteq Among(written)
  BY <1>3 DEF Accounted
<1>5. ASSUME NEW r \in 1 .. n + 1
      PROVE  decided'[r] = "drop"
                 \/ r \in Among(deferred)' \cup Among(batch)' \cup Among(written)
  <2>1. r = n + 1 \/ r \in 1 .. n
    OBVIOUS
  <2>2. QED
    BY <1>1, <1>4, <2>1
<1>6. \A r \in 1 .. n : r \in 1 .. n + 1
  OBVIOUS
<1>7. QED
  BY <1>1, <1>2, <1>3, <1>4, <1>5, <1>6 DEF Accounted

LEMMA AccountedAtForward ==
    ASSUME Typed, Shape, OrderInv, Accounted, Forward
    PROVE  Accounted'
<1>1. PICK h : h = Head(batch)
  OBVIOUS
<1>2. /\ UNCHANGED <<decided, deferred, batch, responded, got, held, answers>>
      /\ pc = "forwarding" /\ pc' = "awaiting" /\ written' = Append(written, h)
  BY <1>1 DEF Forward, loop, forks, client, replies
<1>3. h \in Nat /\ Among(batch) = {h} \cup Among(Tail(batch))
  BY <1>1, <1>2, NumbersTail DEF Typed, Shape, Sending
<1>4. Among(written)' = Among(written) \cup {h}
  <2>1. Among(Append(written, h)) = Among(written) \cup {h}
    BY <1>3, AmongAppended DEF Typed
  <2>2. QED
    BY <1>2, <2>1 DEF Among
<1>5. /\ Among(deferred)' = Among(deferred) /\ Among(batch)' = Among(batch)
      /\ Among(got)' = Among(got) /\ Keys(held)' = Keys(held) /\ Keys(answers)' = Keys(answers)
  BY <1>2 DEF Among, Keys
<1>6. Awaited = {} /\ Awaited' = {h} /\ \A r : DroppedAt(r)' = DroppedAt(r)
  BY <1>1, <1>2 DEF Awaited, DroppedAt, Among
<1>7. QED
  BY <1>2, <1>4, <1>5, <1>6 DEF Accounted

LEMMA AccountedAtAnswer ==
    ASSUME Typed, Shape, AnswersInv, Accounted, Answered
    PROVE  Accounted'
<1>1. PICK all : all = Append(answers, [request |-> Head(batch), closes |-> reply = "close"])
  OBVIOUS
<1>2. AnswersInOrder
  BY DEF AnswersInv
<1>3. PICK h \in Nat : h = Head(batch)
  BY <1>1, <1>2, AnsweredTyped
<1>4. all \in Seq(Replies) /\ Keys(all) = Append(Keys(answers), h) /\ Falling(Keys(all))
  BY <1>1, <1>2, <1>3, AnsweredTyped
<1>5. PICK rest : rest = Tail(batch)
  OBVIOUS
<1>6. batch \in Seq(Nat) /\ Len(batch) # 0 /\ batch' = rest
  BY <1>1, <1>2, <1>5, AnsweredTyped DEF Typed
<1>7. Among(batch) = {h} \cup Among(rest)
  BY <1>3, <1>5, <1>6, NumbersTail
<1>8. /\ UNCHANGED <<decided, deferred, written, responded, got, held>>
      /\ pc = "awaiting" /\ pc' # "awaiting"
  BY DEF Answered, forks, client
<1>9. Among(Keys(all)) = Among(Keys(answers)) \cup {h}
  <2>1. PICK was \in Seq(Nat) : was = Keys(answers)
    BY InTagged, KeysTyped DEF Typed
  <2>2. QED
    BY <1>4, <2>1, AmongAppended
<1>10. Among(Keys(answers)') = Among(Keys(all))
  <2>1. CASE Len(batch) > 1
    BY <1>1, <2>1 DEF Answered, Keys
  <2>2. CASE ~(Len(batch) > 1)
    <3>1. PICK sorted : sorted = InTheOrderAsked(all)
      OBVIOUS
    <3>2. Among(Keys(sorted)) = Among(Keys(all))
      BY <1>4, <3>1, SortingRises
    <3>3. Keys(answers)' = Keys(sorted)
      BY <1>1, <2>2, <3>1 DEF Answered, Keys
    <3>4. QED
      BY <3>2, <3>3
  <2>3. QED
    BY <2>1, <2>2
<1>11. /\ Among(deferred)' = Among(deferred) /\ Among(batch)' = Among(rest)
       /\ Among(got)' = Among(got) /\ Keys(held)' = Keys(held) /\ Among(written)' = Among(written)
  BY <1>6, <1>8 DEF Among, Keys
<1>12. Awaited = {h} /\ Awaited' = {} /\ \A r : DroppedAt(r)' = DroppedAt(r)
  BY <1>3, <1>8 DEF Awaited, DroppedAt, Among
<1>13. /\ \A r \in 1 .. Len(decided) :
              decided[r] = "drop"
                  \/ r \in Among(deferred) \cup Among(batch) \cup Among(written)
       /\ Among(written) \subseteq
              {r \in 1 .. Len(decided) : DroppedAt(r)} \cup Among(got)
                  \cup Among(Keys(held)) \cup Among(Keys(answers)) \cup {h}
       /\ Among(Keys(held)) \cup Among(Keys(answers)) \cup {h} \cup Among(got)
              \subseteq Among(written)
  BY <1>8, <1>12 DEF Accounted
<1>14. QED
  BY <1>7, <1>8, <1>9, <1>10, <1>11, <1>12, <1>13 DEF Accounted

LEMMA AccountedAtRespond ==
    ASSUME Typed, Shape, AnswersInv, Accounted, Answering
    PROVE  Accounted'
<1>1. PICK decision \in Verdicts :
          /\ Settles(decision)
          /\ \/ decision = "reorder" /\ PutsOff
             \/ decision = "drop" /\ DropsAnswer
             \/ decision \in {"allow", "delay", "corrupt"} /\ PassesOn(decision)
  BY DEF Answering, PutsOff, DropsAnswer, PassesOn, Verdicts
<1>2. PICK old \in Seq(Nat) : old = Keys(answers)
  BY InTagged, KeysTyped DEF Typed
<1>3. PICK new, h : new = Tail(old) /\ h = Head(old)
  OBVIOUS
<1>4. /\ h \in Nat /\ h = Head(answers).request /\ Keys(answers)' = new /\ Len(old) # 0
      /\ Among(responded)' = Among(responded) \cup {[request |-> h, decision |-> decision]}
  BY <1>1, <1>2, <1>3, SettlesTyped
<1>5. Among(old) = {h} \cup Among(new)
  <2>1. Len(old) # 0
    BY <1>4
  <2>2. QED
    BY <1>2, <1>3, <2>1, NumbersTail
<1>6. /\ UNCHANGED <<decided, deferred, batch, written>> /\ pc = "answering" /\ pc' = "answering"
  BY <1>1 DEF Settles, Requested, PutsOff, DropsAnswer, PassesOn
<1>7. /\ Among(deferred)' = Among(deferred) /\ Among(batch)' = Among(batch)
      /\ Among(written)' = Among(written) /\ Awaited = {} /\ Awaited' = {}
  BY <1>6 DEF Among, Awaited
<1>8. \A r : DroppedAt(r) => DroppedAt(r)'
  BY <1>4 DEF DroppedAt
<1>9. /\ \A r \in 1 .. Len(decided) :
             decided[r] = "drop"
                 \/ r \in Among(deferred) \cup Among(batch) \cup Among(written)
      /\ \A r \in Among(written) :
             \/ r \in 1 .. Len(decided) /\ DroppedAt(r)
             \/ r \in Among(got) \cup Among(Keys(held)) \cup Among(old)
      /\ Among(Keys(held)) \cup Among(old) \cup Among(got) \subseteq Among(written)
  BY <1>2, <1>6, <1>7 DEF Accounted
<1>10. h \in 1 .. Len(decided)
  BY <1>2, <1>5, <1>6 DEF AnswersInv, AnswersInOrder
<1>11. /\ Among(Keys(held)) \cup Among(got) \subseteq Among(Keys(held)') \cup Among(got)'
       /\ Among(Keys(held)') \cup Among(got)' \subseteq Among(Keys(held)) \cup Among(got) \cup {h}
       /\ DroppedAt(h)' \/ h \in Among(Keys(held)') \cup Among(got)'
  <2>1. CASE decision = "drop" /\ DropsAnswer
    <3>1. DroppedAt(h)'
      BY <1>4, <2>1 DEF DroppedAt
    <3>2. Keys(held)' = Keys(held) /\ Among(got)' = Among(got)
      BY <2>1 DEF DropsAnswer, Keys, Among
    <3>3. QED
      BY <3>1, <3>2
  <2>2. CASE decision = "reorder" /\ PutsOff
    <3>1. Among(got)' = Among(got)
      BY <2>2 DEF PutsOff, Among
    <3>2. PICK e \in Tagged : e = Head(answers)
      BY <1>1, SettlesTyped, InTagged
    <3>3. PICK more : more = Append(held, e)
      OBVIOUS
    <3>4. held \in Seq(Tagged)
      BY InTagged DEF Typed
    <3>5. Keys(more) = Append(Keys(held), e.request)
      BY <3>3, <3>4, KeysAppended
    <3>6. Keys(held)' = Keys(more) /\ e.request = h
      BY <1>4, <2>2, <3>2, <3>3 DEF PutsOff, Keys
    <3>7. Keys(held) \in Seq(Nat)
      BY <3>4, KeysTyped
    <3>8. Among(Keys(more)) = Among(Keys(held)) \cup {h}
      BY <1>4, <3>5, <3>6, <3>7, AmongAppended
    <3>9. QED
      BY <3>1, <3>6, <3>8
  <2>3. CASE decision \in {"allow", "delay", "corrupt"} /\ PassesOn(decision)
    <3>1. Keys(held)' = Keys(held)
      BY <2>3 DEF PassesOn, Keys
    <3>2. Among(Append(got, h)) = Among(got) \cup {h}
      BY <1>4, AmongAppended DEF Typed
    <3>3. Among(got)' = Among(got) \cup {h}
      BY <1>4, <2>3, <3>2 DEF PassesOn, Among
    <3>4. QED
      BY <3>1, <3>3
  <2>4. QED
    BY <1>1, <2>1, <2>2, <2>3
<1>12. ASSUME NEW r \in Among(written)
       PROVE  \/ r \in 1 .. Len(decided) /\ DroppedAt(r)'
              \/ r \in Among(got)' \cup Among(Keys(held)') \cup Among(new)
  BY <1>5, <1>8, <1>9, <1>10, <1>11
<1>13. Among(Keys(held)') \cup Among(new) \cup Among(got)' \subseteq Among(written)
  BY <1>5, <1>9, <1>11
<1>14. QED
  BY <1>4, <1>6, <1>7, <1>9, <1>12, <1>13 DEF Accounted

LEMMA AccountedAtHeld ==
    ASSUME Typed, Shape, Accounted, WriteHeld
    PROVE  Accounted'
<1>1. held \in Seq(Replies) /\ held # <<>>
  BY DEF Typed, WriteHeld
<1>2. Len(held) # 0
  BY <1>1, EmptySeq
<1>3. PICK front : front = Front(held)
  OBVIOUS
<1>4. /\ Keys(front) = Front(Keys(held)) /\ Last(held).request = Last(Keys(held))
      /\ Len(Keys(held)) = Len(held) /\ Keys(held) \in Seq(Nat)
  BY <1>1, <1>2, <1>3, KeysFront, InTagged, KeysTyped
<1>5. PICK was, now, x : /\ was \in Seq(Nat) /\ was = Keys(held)
                     /\ now = Front(was) /\ x = Last(was)
  BY <1>4
<1>6. Len(was) # 0
  BY <1>2, <1>4, <1>5
<1>7a. Last(was) \in Nat /\ Among(was) = {Last(was)} \cup Among(now)
  BY <1>5, <1>6, NumbersFront
<1>7. x \in Nat /\ Among(was) = {x} \cup Among(now)
  BY <1>5, <1>7a
<1>8. /\ pc = "answering" /\ pc' = "answering" /\ held' = front /\ got' = Append(got, x)
      /\ UNCHANGED <<answers, responded, decided, deferred, batch, written>>
  BY <1>3, <1>4, <1>5 DEF WriteHeld, Write, loop, forks, upstream
<1>9. Among(got)' = Among(got) \cup {x}
  <2>1. Among(Append(got, x)) = Among(got) \cup {x}
    BY <1>7, AmongAppended DEF Typed
  <2>2. QED
    BY <1>8, <2>1 DEF Among
<1>10. /\ Among(deferred)' = Among(deferred) /\ Among(batch)' = Among(batch)
       /\ Among(written)' = Among(written) /\ Keys(answers)' = Keys(answers)
       /\ Keys(held)' = now
  BY <1>4, <1>5, <1>8 DEF Among, Keys
<1>11. Awaited = {} /\ Awaited' = {} /\ \A r : DroppedAt(r)' = DroppedAt(r)
  BY <1>8 DEF Awaited, DroppedAt, Among
<1>12. Among(was) = Among(Keys(held))
  BY <1>5
<1>13. QED
  BY <1>7, <1>8, <1>9, <1>10, <1>11, <1>12 DEF Accounted

LEMMA AccountedKept ==
    ASSUME Typed, Shape, OrderInv, AnswersInv, Accounted, Next
    PROVE  Accounted'
<1>1. CASE Stays \/ Turns \/ Quits \/ CutsRead \/ CutsAnswer
  <2>1. CASE pc = "ended" /\ UNCHANGED pc
    BY <2>1 DEF Accounted
  <2>2. CASE ~(pc = "ended" /\ UNCHANGED pc)
    BY <1>1, <2>2, AccountedStays DEF Stays, Turns, Quits, CutsRead, CutsAnswer, End
  <2>3. QED
    BY <2>1, <2>2
<1>2. CASE Defers \/ Withholds
  <2>1. PICK n \in Nat : n = Len(decided)
    BY LenProperties DEF Typed
  <2>2. PICK decision \in Verdicts :
            /\ decided' = Append(decided, decision)
            /\ \/ decision = "drop" /\ deferred' = deferred
               \/ deferred' = Append(deferred, n + 1)
    BY <1>2, <2>1 DEF Defers, Withholds, Verdicts
  <2>3. UNCHANGED <<Passed, written, batch>> /\ pc = "reading" /\ pc' = "reading"
    BY <1>2 DEF Defers, Withholds
  <2>4. Among(Append(deferred, n + 1)) = Among(deferred) \cup {n + 1}
    <3>1. n + 1 \in Nat /\ deferred \in Seq(Nat)
      BY DEF Typed
    <3>2. QED
      BY <3>1, AmongAppended
  <2>5. /\ Among(batch)' = Among(batch)
        /\ Among(deferred) \subseteq Among(deferred)'
        /\ decision = "drop" \/ n + 1 \in Among(deferred)'
    <3>1. /\ Among(deferred) \subseteq Among(deferred')
          /\ decision = "drop" \/ n + 1 \in Among(deferred')
      BY <2>2, <2>4
    <3>2. QED
      BY <2>3, <3>1 DEF Among
  <2>6. QED
    BY <2>1, <2>2, <2>3, <2>5, AccountedAtRead
<1>3. ASSUME NEW decision \in {"allow", "delay", "corrupt"}, Begins(decision)
      PROVE  Accounted'
  <2>1. PICK n \in Nat : n = Len(decided)
    BY LenProperties DEF Typed
  <2>2. PICK back, new : back = Reverse(deferred) /\ new = <<n + 1>> \o back
    OBVIOUS
  <2>3. /\ UNCHANGED <<Passed, written>> /\ pc = "reading" /\ pc' = "forwarding"
        /\ batch' = new /\ Len(batch) = 0 /\ decided' = Append(decided, decision)
        /\ decision \in Verdicts
    BY <1>3, <2>1, <2>2 DEF Begins, StartExchange, Shape, Verdicts
  <2>4. back \in Seq(Nat) /\ Among(back) = Among(deferred)
    BY <2>2, NumbersReversed DEF Typed
  <2>5. n + 1 \in Nat /\ back \in Seq(Nat) /\ new = <<n + 1>> \o back
    BY <2>2, <2>4
  <2>6. Among(new) = {n + 1} \cup Among(back)
    BY <2>5, NumbersAfter
  <2>7. Among(batch)' = {n + 1} \cup Among(deferred) /\ Among(batch) = {}
    <3>1. Among(batch') = {n + 1} \cup Among(deferred) /\ Among(batch) = {}
      BY <2>3, <2>4, <2>6, NumbersTyped DEF Typed
    <3>2. QED
      BY <3>1 DEF Among
  <2>8. QED
    BY <2>1, <2>3, <2>7, AccountedAtRead
<1>4. CASE Flushes
  <2>1. PICK back : back = Reverse(deferred)
    OBVIOUS
  <2>2. /\ UNCHANGED <<decided, Passed, written>> /\ pc = "reading" /\ pc' = "forwarding"
        /\ batch' = back
    BY <1>4, <2>1 DEF Flushes, StartExchange
  <2>3. Among(back) = Among(deferred)
    BY <2>1, NumbersReversed DEF Typed
  <2>4. Among(batch)' = Among(deferred) /\ Among(batch) = {}
    <3>1. Among(batch') = Among(deferred) /\ Among(batch) = {}
      BY <2>2, <2>3, NumbersTyped DEF Typed, Shape
    <3>2. QED
      BY <3>1 DEF Among
  <2>5. /\ UNCHANGED responded /\ Among(written)' = Among(written) /\ Among(got)' = Among(got)
        /\ Keys(held)' = Keys(held) /\ Keys(answers)' = Keys(answers)
    BY <2>2 DEF Passed, Among, Keys
  <2>6. Awaited = {} /\ Awaited' = {} /\ \A r : DroppedAt(r)' = DroppedAt(r)
    BY <2>2, <2>5 DEF Awaited, DroppedAt
  <2>7. QED
    BY <2>2, <2>4, <2>5, <2>6 DEF Accounted
<1>5. QED
  BY <1>1, <1>2, <1>3, <1>4, StepCases, AccountedAtForward, AccountedAtAnswer,
     AccountedAtRespond,
     AccountedAtHeld DEF Reads

-----------------------------------------------------------------------------

LEMMA InvStarts ==
    ASSUME Init
    PROVE  HttpInv
<1>1. Typed /\ Shape
  BY TypedStarts
<1>2. /\ Among(written) = {} /\ Among(got) = {} /\ Among(deferred) = {} /\ Among(batch) = {}
      /\ Rising(deferred) /\ Falling(batch) /\ Len(written) = 0 /\ Len(got) = 0 /\ Len(decided) = 0
  BY NoneOfEmpty, NumbersTyped DEF Init
<1>3. Keys(<<>>) \in Seq(Nat) /\ Len(Keys(<<>>)) = 0
  BY NoneOfEmpty, InTagged, KeysTyped
<1>4. Among(Keys(<<>>)) = {} /\ Rising(Keys(<<>>))
  BY <1>3, NumbersTyped
<1>5. /\ Rising(Keys(responded)) /\ Settled = {} /\ Rising(Keys(held)) /\ Among(Keys(held)) = {}
      /\ Among(Keys(answers)) = {}
  BY <1>4 DEF Init, Settled
<1>6. pc = "accepted"
  BY DEF Init
<1>7. OrderInv
  BY <1>2, <1>6 DEF OrderInv, WrittenInOrder, DeferredWait, BatchInOrder
<1>8. AnswersInv
  BY <1>2, <1>5, <1>6 DEF AnswersInv, GotInOrder, HeldInOrder, AnswersInOrder, Sending
<1>9. Accounted
  BY <1>2, <1>5, <1>6 DEF Accounted, Awaited
<1>10. QED
  BY <1>1, <1>7, <1>8, <1>9 DEF HttpInv

LEMMA InvKept ==
    ASSUME HttpInv, [Next]_vars
    PROVE  HttpInv'
<1>1. CASE UNCHANGED vars
  <2>1. UNCHANGED <<sent, got, service, reply, pc, deferred, batch, last, answers, held, alive,
                    decided, responded, written, outcome, pending, fired>>
    BY <1>1 DEF vars, client, upstream, loop, replies, forks, checker
  <2>2. Typed' /\ Shape'
    BY <2>1 DEF HttpInv, Typed, Shape
  <2>3. UNCHANGED Requested /\ UNCHANGED Passed /\ UNCHANGED pc
    BY <2>1 DEF Requested, Passed
  <2>4. OrderInv'
    BY <2>3, OrderStays DEF HttpInv
  <2>5. AnswersInv'
    BY <2>1, <2>3, AnswersStay DEF HttpInv
  <2>6. Accounted'
    BY <2>3, AccountedStays DEF HttpInv, Accounted
  <2>7. QED
    BY <2>2, <2>4, <2>5, <2>6 DEF HttpInv
<1>2. CASE Next
  <2>1. Typed /\ Shape /\ OrderInv /\ AnswersInv /\ AnswersInOrder /\ Accounted
    BY DEF HttpInv, AnswersInv
  <2>2. Kinds' /\ Shape'
    BY <1>2, <2>1, KindsKept
  <2>3. /\ sent' \in Nat /\ reply' \in {"none", "stay", "close", "refused"} /\ alive' \in BOOLEAN
        /\ service' \in {"open", "busy", "parted", "dead"}
    BY <1>2, <2>1, PeersTyped
  <2>4. Typed'
    BY <2>2, <2>3 DEF Kinds, Typed
  <2>5. OrderInv' /\ AnswersInv' /\ Accounted'
    BY <1>2, <2>1, OrderKept, AnswersKept, AccountedKept
  <2>6. QED
    BY <2>2, <2>4, <2>5 DEF HttpInv
<1>3. QED
  BY <1>1, <1>2

LEMMA Invariant == Spec => []HttpInv
<1>1. Init => HttpInv
  BY InvStarts
<1>2. HttpInv /\ [Next]_vars => HttpInv'
  BY InvKept
<1>3. QED
  BY <1>1, <1>2, PTL DEF Spec

\* Only requests the client sent are read, and only those the adapter read are
\* anywhere.
Known ==
    /\ sent \in 0 .. MaxRequests /\ Len(decided) <= sent
    /\ \A r \in Among(got) \cup Among(written) \cup Among(deferred) \cup Among(batch)
                    \cup Among(pending) :
           r \in 1 .. Len(decided)

\* Until the task ends, all of it follows but what the checker waits for.
LEMMA KnownWhileRunning ==
    ASSUME HttpInv, pc # "ended",
           NEW r \in Among(got) \cup Among(written) \cup Among(deferred) \cup Among(batch)
    PROVE  r \in 1 .. Len(decided)
<1>1. WrittenInOrder /\ DeferredWait /\ BatchInOrder /\ Accounted
  BY DEF HttpInv, OrderInv
<1>2. Among(got) \subseteq Among(written)
  BY <1>1 DEF Accounted
<1>3. QED
  BY <1>1, <1>2 DEF WrittenInOrder, DeferredWait, BatchInOrder

LEMMA ReadOnlySent ==
    ASSUME HttpInv, Known, Next
    PROVE  /\ sent' \in 0 .. MaxRequests /\ Len(decided') <= sent'
           /\ \A r \in 1 .. Len(decided) : r \in 1 .. Len(decided')
<1>1. PICK n \in Nat : n = Len(decided)
  BY LenProperties DEF HttpInv, Typed
<1>2. sent \in 0 .. MaxRequests /\ n <= sent
  BY <1>1 DEF Known
<1>3. CASE Send
  BY <1>1, <1>2, <1>3, MaxRequestsAssumption DEF Send, forks
<1>4. CASE Read
  <2>1. PICK decision \in Verdicts : decided' = Append(decided, decision)
    BY <1>4 DEF Read, Verdicts
  <2>2. Typed
    BY DEF HttpInv
  <2>3. Len(decided') = n + 1
    BY <1>1, <2>1, <2>2, DecidedTyped
  <2>4. n + 1 <= sent /\ sent' = sent
    BY <1>1, <1>4 DEF Read, client
  <2>5. QED
    BY <1>1, <1>2, <2>3, <2>4
<1>5. CASE ~Send /\ ~Read
  BY <1>1, <1>2, <1>5 DEF Next, Adapter, Service, HalfClose, Vanish, Cancel, ServiceAnswers,
     ServiceDies, Refuse, Connect, ConnectFails, ReadFails, StopReading, Forward, ForwardFails,
     Answered, NoAnswer, Respond, WriteHeld, RespondFails, Return, client, forks
<1>6. QED
  BY <1>3, <1>4, <1>5

LEMMA KnownKept ==
    ASSUME HttpInv, Known, [Next]_vars
    PROVE  Known'
<1>1. CASE UNCHANGED vars
  BY <1>1 DEF vars, client, upstream, loop, forks, checker, Known, Among
<1>2. CASE Next
  <2>1. Typed /\ Shape /\ HttpInv'
    BY <1>2, InvKept DEF HttpInv
  <2>2. /\ sent' \in 0 .. MaxRequests /\ Len(decided') <= sent'
        /\ \A r \in 1 .. Len(decided) : r \in 1 .. Len(decided')
    BY <1>2, ReadOnlySent
  <2>3. ASSUME NEW r \in Among(pending')
        PROVE  r \in 1 .. Len(decided')
    <3>1. CASE Forward
      <4>1. PICK h : h = Head(batch)
        OBVIOUS
      <4>2. /\ batch \in Seq(Nat) /\ Len(batch) # 0 /\ pending \in Seq(Nat)
            /\ pending' = Append(pending, h) /\ decided' = decided /\ pc # "ended"
        BY <2>1, <3>1, <4>1 DEF Typed, Shape, Forward, Sending, Asked, forks
      <4>3. h \in Nat /\ h \in Among(batch)
        <5>1. Head(batch) \in Nat /\ Among(batch) = {Head(batch)} \cup Among(Tail(batch))
          <6>1. batch \in Seq(Nat) /\ Len(batch) # 0
            BY <4>2
          <6>2. PICK rest : rest = Tail(batch)
            OBVIOUS
          <6>3. QED
            BY <6>1, <6>2, NumbersTail
        <5>2. QED
          BY <4>1, <5>1
      <4>4. Among(Append(pending, h)) = Among(pending) \cup {h}
        BY <4>2, <4>3, AmongAppended
      <4>5. h \in 1 .. Len(decided)
        BY <4>2, <4>3, KnownWhileRunning
      <4>6. QED
        BY <2>3, <4>2, <4>4, <4>5 DEF Known
    <3>2. CASE ~Forward
      <4>1. pending' = pending \/ Among(pending') = {}
        <5>1. \A s \in Seq(Nat) : Len(s) = 0 => Among(s) = {}
          BY NumbersTyped
        <5>2. Answered => pending' \in Seq(Nat) /\ Len(pending') = 0
          BY <2>1, QueueTyped DEF Answered
        <5>3. \A result \in {"ok", "error"} :
                  End(result) => pending' \in Seq(Nat) /\ Len(pending') = 0
          BY EndTyped
        <5>4. Answered \/ End("ok") \/ End("error") \/ pending' = pending
          BY <1>2, <3>2, StepCases DEF Stays, Turns, Quits, CutsRead, Reads, Defers, Withholds,
             Begins, Flushes, CutsAnswer, Answering, PutsOff, DropsAnswer, PassesOn, Observed,
             WriteHeld, checker
        <5>5. QED
          BY <5>1, <5>2, <5>3, <5>4
      <4>2. QED
        BY <2>2, <2>3, <4>1 DEF Known
    <3>3. QED
      BY <3>1, <3>2
  <2>4. ASSUME NEW r \in Among(got') \cup Among(written') \cup Among(deferred') \cup Among(batch')
        PROVE  r \in 1 .. Len(decided')
    <3>1. CASE pc' # "ended"
      <4>1. HttpInv' /\ pc' # "ended" /\
            (r \in Among(got') \cup Among(written') \cup Among(deferred') \cup Among(batch'))
        BY <2>1, <2>4, <3>1
      <4>2. WrittenInOrder' /\ DeferredWait' /\ BatchInOrder' /\ Accounted'
        BY <4>1 DEF HttpInv, OrderInv
      <4>3. Among(got') \subseteq Among(written')
        BY <4>1, <4>2 DEF Accounted
      <4>4. QED
        BY <4>1, <4>2, <4>3 DEF WrittenInOrder, DeferredWait, BatchInOrder
    <3>2. CASE pc' = "ended"
      <4>1. UNCHANGED <<got, written, deferred, batch>>
        BY <1>2, <3>2, StepCases DEF Stays, Turns, Quits, CutsRead, Reads, Defers, Withholds,
           Begins, Flushes, CutsAnswer, Answering, PutsOff, DropsAnswer, PassesOn, Requested,
           Passed, Settles, StartExchange, Forward, Answered, WriteHeld
      <4>2. QED
        BY <2>2, <2>4, <4>1 DEF Known
    <3>3. QED
      BY <3>1, <3>2
  <2>5. /\ Among(got)' = Among(got') /\ Among(written)' = Among(written')
        /\ Among(deferred)' = Among(deferred') /\ Among(batch)' = Among(batch')
        /\ Among(pending)' = Among(pending')
    BY DEF Among
  <2>6. QED
    BY <2>2, <2>3, <2>4, <2>5 DEF Known
<1>3. QED
  BY <1>1, <1>2

LEMMA Bounded ==
    ASSUME NEW s \in Seq(Nat), NEW n \in Nat, n <= MaxRequests, \A r \in Among(s) : r \in 1 .. n
    PROVE  s \in Seq(Requests)
<1>1. PICK k \in Nat : k = Len(s)
  BY LenProperties
<1>2. \A i \in 1 .. k : s[i] \in 1 .. n
  BY <1>1 DEF Among
<1>3. \A i \in 1 .. k : s[i] \in Requests
  BY <1>2, MaxRequestsAssumption DEF Requests
<1>4. s \in [1 .. k -> Requests]
  BY <1>1, <1>3, LenProperties
<1>5. QED
  BY <1>4, SeqDef

\* Every variable holds what the code's types allow, only requests the client
\* sent are read, and only requests that were read are kept, sent or answered,
\* however many there are.
THEOREM TypeCorrect == Spec => []TypeOK
<1>1. Init => Known
  <2>1. SUFFICES ASSUME Init
                 PROVE  Known
    OBVIOUS
  <2>2. \A s \in Seq(Nat) : Len(s) = 0 => Among(s) = {}
    BY NumbersTyped
  <2>3. Among(<<>>) = {} /\ Len(<<>>) = 0
    BY <2>2, NoneOfEmpty
  <2>4. /\ got = <<>> /\ written = <<>> /\ deferred = <<>> /\ batch = <<>> /\ pending = <<>>
        /\ decided = <<>> /\ sent = 0
    BY <2>1 DEF Init
  <2>5. QED
    BY <2>3, <2>4, MaxRequestsAssumption DEF Known
<1>2. HttpInv /\ Known /\ [Next]_vars => Known'
  BY KnownKept
<1>3. HttpInv /\ Known => TypeOK
  <2>1. SUFFICES ASSUME HttpInv, Known
                 PROVE  TypeOK
    OBVIOUS
  <2>2. PICK n \in Nat : n = Len(decided)
    BY <2>1, LenProperties DEF HttpInv, Typed
  <2>3. n <= MaxRequests
    BY <2>1, <2>2, MaxRequestsAssumption DEF Known
  <2>4. /\ got \in Seq(Requests) /\ written \in Seq(Requests) /\ deferred \in Seq(Requests)
        /\ batch \in Seq(Requests) /\ pending \in Seq(Requests)
    BY <2>1, <2>2, <2>3, Bounded DEF HttpInv, Typed, Known
  <2>5. pc \in {"forwarding", "awaiting"} <=> batch # <<>> /\ ~Over
    <3>1. batch # <<>> <=> Len(batch) # 0
      BY <2>1, NumbersTyped DEF HttpInv, Typed
    <3>2. QED
      BY <2>1, <3>1 DEF HttpInv, Typed, Shape, Sending, Stages, Over
  <2>6. QED
    BY <2>1, <2>4, <2>5 DEF HttpInv, Typed, Known, TypeOK, Stages
<1>4. QED
  BY <1>1, <1>2, <1>3, Invariant, PTL DEF Spec

\* An answer comes to its fork once.
LEMMA OneResponse ==
    ASSUME Typed, Rising(Keys(responded)), NEW r, NEW decision,
           [request |-> r, decision |-> decision] \in Among(responded)
    PROVE  ResponseTo(r) = {decision}
<1>1. PICK k \in Nat : k = Len(responded)
  BY LenProperties DEF Typed
<1>2. DOMAIN responded = 1 .. k /\ \A i \in 1 .. k : responded[i].request \in Nat
  <2>1. responded \in Seq(Responses)
    BY DEF Typed
  <2>2. DOMAIN responded = 1 .. k /\ \A i \in 1 .. k : responded[i] \in Responses
    BY <1>1, <2>1, LenProperties, ElementOfSeq
  <2>3. QED
    BY <2>2 DEF Responses
<1>3. Len(Keys(responded)) = k /\ \A i \in 1 .. k : Keys(responded)[i] = responded[i].request
  BY <1>1, InTagged, KeysTyped DEF Typed
<1>4. PICK i \in 1 .. k : responded[i] = [request |-> r, decision |-> decision]
  BY <1>1 DEF Among
<1>5. responded[i].request = r /\ responded[i].decision = decision
  BY <1>4
<1>6. ASSUME NEW j \in 1 .. k, responded[j].request = r
      PROVE  j = i
  <2>1. i < j => responded[i].request < responded[j].request
    BY <1>3 DEF Rising
  <2>2. j < i => responded[j].request < responded[i].request
    BY <1>3 DEF Rising
  <2>3. QED
    BY <1>2, <1>5, <1>6, <2>1, <2>2
<1>7. {j \in DOMAIN responded : responded[j].request = r} = {i}
  BY <1>2, <1>5, <1>6
<1>8. QED
  BY <1>5, <1>7 DEF ResponseTo

\* The service and the client each see the order the forks decided: of two
\* requests in a row the later goes first exactly when the fork of the earlier
\* answered reorder, and answers come in the order of the requests but for
\* those whose own fork answered reorder (serve_connection's stack of deferred
\* requests, exchange's sort).
THEOREM InTheDecidedOrder == Spec => []OrderAsDecided
<1>1. HttpInv => OrderAsDecided
  <2>1. SUFFICES ASSUME HttpInv
                 PROVE  OrderAsDecided
    OBVIOUS
  <2>2. ReorderLetsTheNextGoFirst
    <3>1. SUFFICES ASSUME NEW r \in ToSet(written), r + 1 \in ToSet(written)
                   PROVE  Place(r + 1) < Place(r) <=> decided[r] = "reorder"
      BY DEF ReorderLetsTheNextGoFirst
    <3>2a. written \in Seq(Nat)
      BY <2>1 DEF HttpInv, Typed
    <3>2. PICK k \in Nat : k = Len(written)
      BY <3>2a, NumbersTyped
    <3>3. DOMAIN written = 1 .. k /\ ToSet(written) = Among(written)
      BY <2>1, <3>2, LenProperties DEF HttpInv, Typed, ToSet, Among
    <3>4a. WrittenInOrder
      BY <2>1 DEF HttpInv, OrderInv
    <3>4b. r \in Among(written)
      BY <3>1, <3>3
    <3>4c. r \in 1 .. Len(decided) /\ Passes(decided[r])
      BY <3>4a, <3>4b DEF WrittenInOrder
    <3>4. /\ \A i, j \in 1 .. k : i < j => Before(decided, written[i], written[j])
          /\ r \in Nat /\ Passes(decided[r])
      BY <3>2, <3>4a, <3>4c DEF WrittenInOrder
    <3>5. PICK a, b : a = Place(r) /\ b = Place(r + 1)
      OBVIOUS
    <3>6. a \in 1 .. k /\ written[a] = r
      BY <3>1, <3>3, <3>5 DEF Place, ToSet
    <3>7. b \in 1 .. k /\ written[b] = r + 1
      BY <3>1, <3>3, <3>5 DEF Place, ToSet
    <3>8. a # b
      BY <3>4, <3>6, <3>7
    <3>9. ASSUME b < a
          PROVE  decided[r] = "reorder"
      <4>1. Before(decided, r + 1, r)
        BY <3>4, <3>6, <3>7, <3>9
      <4>2. r + 1 > r /\ r \in r .. (r + 1) - 1
        BY <3>4
      <4>3. ~Starts(decided[r])
        BY <4>1, <4>2 DEF Before
      <4>4. QED
        BY <3>4, <4>3 DEF Passes
    <3>10. ASSUME a < b
           PROVE  decided[r] # "reorder"
      <4>1. Before(decided, r, r + 1)
        BY <3>4, <3>6, <3>7, <3>10
      <4>2. r < r + 1 /\ \A q \in r .. (r + 1) - 1 : q = r
        BY <3>4
      <4>3. Starts(decided[r])
        BY <4>1, <4>2 DEF Before
      <4>4. QED
        BY <4>3 DEF Starts
    <3>11. a < b \/ b < a
      BY <3>6, <3>7, <3>8
    <3>12. QED
      BY <3>5, <3>9, <3>10, <3>11
  <2>3. AnswersInTheOrderAsked
    <3>1. SUFFICES ASSUME NEW i \in DOMAIN got, NEW j \in DOMAIN got, i < j
                   PROVE  /\ got[i] # got[j]
                          /\ got[i] > got[j] => ResponseTo(got[j]) = {"reorder"}
      BY DEF AnswersInTheOrderAsked
    <3>2. DOMAIN got = 1 .. Len(got)
      BY <2>1, LenProperties DEF HttpInv, Typed
    <3>2a. GotInOrder /\ Typed
      BY <2>1 DEF HttpInv, AnswersInv
    <3>3. /\ got[i] # got[j] /\ Rising(Keys(responded)) /\ Typed
          /\ got[i] > got[j] => [request |-> got[j], decision |-> "reorder"] \in Among(responded)
      BY <3>1, <3>2, <3>2a DEF GotInOrder
    <3>4. QED
      BY <3>3, OneResponse
  <2>4. QED
    BY <2>2, <2>3 DEF OrderAsDecided
<1>2. QED
  BY <1>1, Invariant, PTL

\* A service that is asked has not answered yet, and its answer is waited for
\* or left where it is.
ReplyAwaited ==
    /\ service = "busy" => pc = "awaiting" /\ reply = "none"
    /\ reply # "none" => pc \in {"awaiting", "ended"}
TheServicesDoing == FiresOnlyForTheService /\ ReplyAwaited

\* A checker's verdict is the service's doing.
LEMMA FiresKept ==
    ASSUME Typed, Shape, TheServicesDoing, [Next]_vars
    PROVE  TheServicesDoing'
<1> USE DEF client, upstream, loop, replies, forks, checker, FiresOnlyForTheService,
        ReplyAwaited, TheServicesDoing
<1>1. CASE UNCHANGED vars
  BY <1>1 DEF vars
<1>2. pc # "awaiting" /\ pc # "ended" => pending = <<>>
  BY NumbersTyped DEF Typed, Shape
<1>3. CASE Send \/ HalfClose \/ Vanish \/ Cancel \/ Service
  BY <1>3 DEF Send, HalfClose, Vanish, Cancel, Service, ServiceAnswers, ServiceDies, Shape
<1>4. CASE ConnectFails \/ ReadFails \/ ForwardFails \/ RespondFails
  BY <1>2, <1>4 DEF ConnectFails, ReadFails, ForwardFails, RespondFails, End
<1>5. CASE NoAnswer
  BY <1>5 DEF NoAnswer, End
<1>6. CASE Refuse \/ Connect \/ Forward \/ Answered \/ WriteHeld
  BY <1>6 DEF Refuse, Connect, Forward, Answered, WriteHeld, Shape
<1>7. CASE Read \/ StopReading \/ Respond \/ Return
  <2>1. UNCHANGED <<service, reply>> /\ pc # "awaiting" /\ pc # "ended"
    BY <1>7 DEF Read, StopReading, Respond, Return
  <2>2. UNCHANGED fired \/ End("ok")
    BY <1>7 DEF Read, StopReading, Stop, Respond, Return, Defer, Withhold
  <2>3. ~fired
    BY <2>1 DEF Shape
  <2>4. ~fired'
    BY <1>2, <2>1, <2>2, <2>3 DEF End
  <2>5. QED
    BY <2>1, <2>4
<1>8. QED
  BY <1>1, <1>3, <1>4, <1>5, <1>6, <1>7 DEF Next, Adapter

\* EveryRequestReachesTerminalState fires only on a connection whose service
\* went away before it answered, or answered what read_response refuses; never
\* for what the schedule did, and never for what the client did.
THEOREM StrandedByService == Spec => []FiresOnlyForTheService
<1>1. Init => TheServicesDoing
  BY DEF Init, TheServicesDoing, FiresOnlyForTheService, ReplyAwaited
<1>2. HttpInv /\ TheServicesDoing /\ [Next]_vars => TheServicesDoing'
  BY FiresKept DEF HttpInv
<1>3. TheServicesDoing => FiresOnlyForTheService
  BY DEF TheServicesDoing
<1>4. QED
  BY <1>1, <1>2, <1>3, Invariant, PTL DEF Spec

\* Where a task may end well, all that was read was sent or dropped, and every
\* answer passed on or dropped.
LEMMA NothingLeft ==
    ASSUME HttpInv, pc # "ended", pc # "awaiting", Len(deferred) = 0, Len(batch) = 0,
           Len(answers) = 0, Len(held) = 0
    PROVE  \A r \in DOMAIN decided :
               /\ decided[r] # "drop" <=> r \in ToSet(written)
               /\ r \in ToSet(got) <=> r \in ToSet(written) /\ ResponseTo(r) # {"drop"}
<1>1. /\ DOMAIN decided = 1 .. Len(decided) /\ ToSet(written) = Among(written)
      /\ ToSet(got) = Among(got)
  BY LenProperties DEF HttpInv, Typed, ToSet, Among
<1>2. /\ Among(deferred) = {} /\ Among(batch) = {} /\ Among(Keys(held)) = {}
      /\ Among(Keys(answers)) = {} /\ Awaited = {}
  BY InTagged, KeysTyped, NumbersTyped DEF HttpInv, Typed, Awaited
<1>3. /\ \A r \in 1 .. Len(decided) : decided[r] = "drop" \/ r \in Among(written)
      /\ \A r \in Among(written) : DroppedAt(r) \/ r \in Among(got)
      /\ Among(got) \subseteq Among(written)
  BY <1>2 DEF HttpInv, Accounted
<1>4. \A r \in Among(written) : decided[r] # "drop"
  BY DEF HttpInv, OrderInv, WrittenInOrder, Passes, Starts
<1>5. Typed /\ Rising(Keys(responded))
  BY DEF HttpInv, AnswersInv, GotInOrder
<1>6. ASSUME NEW r \in Among(got)
      PROVE  ResponseTo(r) # {"drop"}
  <2>1. PICK choice \in Among(responded) : choice.request = r /\ choice.decision # "drop"
    BY <1>6 DEF HttpInv, AnswersInv, GotInOrder
  <2>2. choice \in Responses
    BY <1>5, ElementOfSeq DEF Typed, Among
  <2>3. choice = [request |-> r, decision |-> choice.decision]
    BY <2>1, <2>2 DEF Responses
  <2>4. ResponseTo(r) = {choice.decision}
    BY <1>5, <2>3, OneResponse
  <2>5. QED
    BY <2>1, <2>4
<1>7. \A r \in Among(written) : DroppedAt(r) => ResponseTo(r) = {"drop"}
  BY <1>5, OneResponse DEF DroppedAt
<1>8. QED
  BY <1>1, <1>3, <1>4, <1>6, <1>7

LEMMA NothingLostKept ==
    ASSUME HttpInv, NothingLost, [Next]_vars
    PROVE  NothingLost'
<1>1. CASE UNCHANGED <<outcome, decided, responded, written, got>>
  BY <1>1 DEF NothingLost, ResponseTo, ToSet
<1>2. CASE pc # "ended" /\ outcome' = outcome
  BY <1>2 DEF HttpInv, Shape, NothingLost
<1>3. CASE outcome' = "error"
  BY <1>3 DEF NothingLost
<1>4. CASE CutsRead
  <2>1. PICK n \in Nat : n = Len(decided)
    BY LenProperties DEF HttpInv, Typed
  <2>2. decided' \in Seq(Verdicts) /\ Len(decided') = n + 1 /\ decided'[n + 1] = "close"
    BY <1>4, <2>1, DecidedTyped DEF CutsRead, Verdicts, HttpInv
  <2>3. "close" \in ToSet(decided')
    BY <2>2, LenProperties DEF ToSet
  <2>4. QED
    BY <2>3 DEF NothingLost
<1>5. CASE CutsAnswer
  <2>1. PICK h : h = Head(answers).request
    OBVIOUS
  <2>2. responded' \in Seq(Responses) /\ [request |-> h, decision |-> "close"] \in Among(responded)'
    BY <1>5, <2>1, SettlesTyped DEF CutsAnswer, Verdicts, HttpInv
  <2>3. DOMAIN responded' = 1 .. Len(responded')
    BY <2>2, LenProperties
  <2>4. PICK i \in DOMAIN responded' : responded'[i] = [request |-> h, decision |-> "close"]
    BY <2>2, <2>3 DEF Among
  <2>5. responded'[i].decision = "close"
    BY <2>4
  <2>6. QED
    BY <2>4, <2>5 DEF NothingLost
<1>6. CASE Quits /\ outcome' # "error"
  <2>1. UNCHANGED <<Requested, Passed>> /\ pc # "ended"
    BY <1>6 DEF Quits
  <2>2. /\ Len(deferred) = 0 /\ Len(batch) = 0 /\ Len(answers) = 0 /\ Len(held) = 0
        /\ pc # "awaiting"
    BY <1>6, NoneOfEmpty DEF Quits, End, HttpInv, Shape
  <2>3. \A r \in DOMAIN decided :
            /\ decided[r] # "drop" <=> r \in ToSet(written)
            /\ r \in ToSet(got) <=> r \in ToSet(written) /\ ResponseTo(r) # {"drop"}
    BY <2>1, <2>2, NothingLeft
  <2>4. UNCHANGED <<decided, responded, written, got>>
    BY <2>1 DEF Requested, Passed
  <2>5. QED
    BY <2>3, <2>4 DEF NothingLost, ResponseTo, ToSet
<1>7. CASE Stays
  BY <1>1, <1>7 DEF Stays, Requested, Passed, Observed
<1>8. CASE Turns \/ Reads \/ Forward \/ Answered \/ Answering \/ WriteHeld
  BY <1>2, <1>8 DEF Turns, Reads, Defers, Withholds, Begins, Flushes, Forward, Answered,
     Answering, PutsOff, DropsAnswer, PassesOn, Settles, WriteHeld, Observed, checker
<1>9. CASE UNCHANGED vars
  BY <1>1, <1>9 DEF vars, checker, forks, upstream, client
<1>10. QED
  BY <1>3, <1>4, <1>5, <1>6, <1>7, <1>8, <1>9, StepCases

\* Unless the schedule cut the connection, a task that ends well forwarded or
\* dropped every request it read, and passed on or dropped every answer.
THEOREM NothingGoesMissing == Spec => []NothingLost
<1>1. Init => NothingLost
  BY DEF Init, NothingLost
<1>2. HttpInv /\ NothingLost /\ [Next]_vars => NothingLost'
  BY NothingLostKept
<1>3. QED
  BY <1>1, <1>2, Invariant, PTL DEF Spec

-----------------------------------------------------------------------------
\* The two checkers over the observations of a whole run: a fold is the chain
\* of the states it goes through, one event after another.

LEMMA IntervalSize ==
    ASSUME NEW n \in Nat
    PROVE  IsFiniteSet(1 .. n) /\ Cardinality(1 .. n) = n
<1>1. n \in Int /\ 1 \in Int
  OBVIOUS
<1>2. IsFiniteSet(1 .. n) /\ Cardinality(1 .. n) = IF 1 > n THEN 0 ELSE n - 1 + 1
  BY <1>1, FS_Interval
<1>3. QED
  BY <1>2

LEMMA LeastExists ==
    ASSUME NEW set \in SUBSET Nat, set # {}
    PROVE  \E m \in set : \A n \in set : m <= n
<1>1. PICK m \in set : \A n \in set : ~ (<<n, m>> \in OpToRel(<, Nat))
  BY WFMin, NatLessThanWellFounded, Zenon
<1>2. \A n \in set : m <= n
  <2>1. \A n \in set : ~(n < m)
    BY <1>1, Zenon DEF OpToRel
  <2>2. QED
    BY <2>1
<1>3. QED
  BY <1>2

LEMMA MaxIs ==
    ASSUME NEW n \in Nat, NEW set \in SUBSET (1 .. n), set # {}
    PROVE  Max(set) \in set /\ \A x \in set : x <= Max(set)
<1>1. PICK short : short = {n - x : x \in set}
  OBVIOUS
<1>2. short \in SUBSET Nat /\ short # {}
  <2>1. \A x \in set : n - x \in Nat
    OBVIOUS
  <2>2. QED
    BY <1>1, <2>1
<1>3. PICK m \in short : \A y \in short : m <= y
  BY <1>2, LeastExists
<1>4. PICK x \in set : m = n - x
  BY <1>1, <1>3
<1>5. \A y \in set : x >= y
  <2>1. \A y \in set : m <= n - y
    BY <1>1, <1>3
  <2>2. QED
    BY <1>4, <2>1
<1>6. \E y \in set : \A z \in set : y >= z
  BY <1>5
<1>7. Max(set) \in set /\ \A y \in set : Max(set) >= y
  BY <1>6 DEF Max
<1>8. QED
  BY <1>7

\* What a fold makes of each set of places.
FoldsShown(g, sets, base, list) ==
    g = [s \in sets |-> IF s = {} THEN base ELSE Observe(g[s \ {Max(s)}], list[Max(s)])]

ShownAll(base, list) == FoldLeft(Observe, base, list)

\* One state after another.
ShownSteps(base, list, n) ==
    \E f : /\ f[0] = base /\ ShownAll(base, list) = f[n]
           /\ \A k \in 1 .. n : f[k] = Observe(f[k - 1], list[k])

LEMMA ShownFolds ==
    ASSUME NEW n \in Nat, NEW list, DOMAIN list = 1 .. n, NEW base
    PROVE  ShownSteps(base, list, n)
<1> DEFINE Small(m) == {s \in SUBSET (1 .. n) : Cardinality(s) <= m}
<1>1. \A s \in SUBSET (1 .. n) : IsFiniteSet(s) /\ Cardinality(s) \in Nat /\ Cardinality(s) <= n
  <2>1. PICK all : all = 1 .. n
    OBVIOUS
  <2>2. IsFiniteSet(all) /\ Cardinality(all) = n
    BY <2>1, IntervalSize
  <2>3. \A s \in SUBSET all : IsFiniteSet(s) /\ Cardinality(s) <= n
    BY <2>2, FS_Subset
  <2>4. \A s \in SUBSET all : Cardinality(s) \in Nat
    BY <2>3, FS_CardinalityType
  <2>5. QED
    BY <2>1, <2>3, <2>4
<1>2. \A s \in SUBSET (1 .. n) : s # {} =>
          /\ Max(s) \in s /\ s \ {Max(s)} \in SUBSET (1 .. n)
          /\ Cardinality(s \ {Max(s)}) = Cardinality(s) - 1
  BY <1>1, MaxIs, FS_RemoveElement
<1>3. Small(0) = {{}}
  BY <1>1, FS_EmptySet
<1>4. \E g : FoldsShown(g, Small(0), base, list)
  <2>1. PICK g : g = [s \in Small(0) |-> base]
    OBVIOUS
  <2>2. g = [s \in Small(0) |-> IF s = {} THEN base ELSE Observe(g[s \ {Max(s)}], list[Max(s)])]
    BY <1>3, <2>1
  <2>3. QED
    BY <2>2 DEF FoldsShown
<1>5. ASSUME NEW m \in Nat, NEW g, FoldsShown(g, Small(m), base, list)
      PROVE  \E h : FoldsShown(h, Small(m + 1), base, list)
  <2>1. PICK h : h = [s \in Small(m + 1) |->
                         IF s = {} THEN base ELSE Observe(g[s \ {Max(s)}], list[Max(s)])]
    OBVIOUS
  <2>2. \A s \in Small(m) : s \in Small(m + 1) /\ h[s] = g[s]
    <3>1. \A s \in Small(m) : s \in Small(m + 1)
      BY <1>1
    <3>2. \A s \in Small(m) :
              g[s] = IF s = {} THEN base ELSE Observe(g[s \ {Max(s)}], list[Max(s)])
      BY <1>5 DEF FoldsShown
    <3>3. \A s \in Small(m + 1) :
              h[s] = IF s = {} THEN base ELSE Observe(g[s \ {Max(s)}], list[Max(s)])
      BY <2>1
    <3>4. QED
      BY <3>1, <3>2, <3>3
  <2>3. ASSUME NEW s \in Small(m + 1), s # {}
        PROVE  s \ {Max(s)} \in Small(m)
    <3>1. PICK rest : rest = s \ {Max(s)}
      OBVIOUS
    <3>2. rest \in SUBSET (1 .. n) /\ Cardinality(rest) = Cardinality(s) - 1
      BY <1>2, <2>3, <3>1
    <3>3. Cardinality(s) \in Nat /\ Cardinality(s) <= m + 1
      BY <1>1
    <3>4. Cardinality(rest) <= m
      BY <3>2, <3>3
    <3>5. QED
      BY <3>1, <3>2, <3>4
  <2>4. h = [s \in Small(m + 1) |->
                IF s = {} THEN base ELSE Observe(h[s \ {Max(s)}], list[Max(s)])]
    BY <2>1, <2>2, <2>3
  <2>5. QED
    BY <2>4 DEF FoldsShown
<1>6. \A m \in Nat : \E g : FoldsShown(g, Small(m), base, list)
  <2>1. SUFFICES ASSUME \E m \in Nat : ~ \E g : FoldsShown(g, Small(m), base, list) PROVE FALSE
    OBVIOUS
  <2>2. PICK bad : bad = {m \in Nat : ~ \E g : FoldsShown(g, Small(m), base, list)}
    OBVIOUS
  <2>3. bad \in SUBSET Nat /\ bad # {}
    BY <2>1, <2>2
  <2>4. PICK m \in bad : \A k \in bad : m <= k
    BY <2>3, LeastExists
  <2>5. m \in Nat /\ m # 0
    BY <1>4, <2>2
  <2>6. PICK k \in Nat : m = k + 1
    BY <2>5
  <2>7. k \notin bad
    BY <2>4, <2>6
  <2>8. \E g : FoldsShown(g, Small(k), base, list)
    BY <2>2, <2>7
  <2>9. QED
    BY <1>5, <2>2, <2>6, <2>8
<1>7. Small(n) = SUBSET (1 .. n)
  BY <1>1
<1>8. PICK iter : /\ iter = CHOOSE g : FoldsShown(g, SUBSET (1 .. n), base, list)
                  /\ FoldsShown(iter, SUBSET (1 .. n), base, list)
  BY <1>6, <1>7
<1>9. ShownAll(base, list) = iter[1 .. n]
  BY <1>8 DEF ShownAll, FoldLeft, MapThenFoldSet, FoldsShown
<1>10. PICK f : f = [k \in 0 .. n |-> iter[1 .. k]]
  OBVIOUS
<1>11. f[0] = base /\ f[n] = iter[1 .. n]
  <2>1. f[0] = iter[1 .. 0] /\ f[n] = iter[1 .. n]
    BY <1>10
  <2>2. 1 .. 0 = {} /\ {} \in SUBSET (1 .. n)
    OBVIOUS
  <2>3. iter[{}] = base
    BY <1>8, <2>2 DEF FoldsShown
  <2>4. QED
    BY <2>1, <2>2, <2>3
<1>12. ASSUME NEW k \in 1 .. n
       PROVE  f[k] = Observe(f[k - 1], list[k])
  <2>1. 1 .. k \in SUBSET (1 .. n) /\ 1 .. k # {} /\ k \in 1 .. k
    <3>1. k \in Nat /\ 1 <= k /\ k <= n
      OBVIOUS
    <3>2. \A i \in 1 .. k : i \in 1 .. n
      BY <3>1
    <3>3. k \in 1 .. k
      BY <3>1
    <3>4. QED
      BY <3>2, <3>3
  <2>2. Max(1 .. k) = k
    <3>1. PICK m : m = Max(1 .. k) /\ m \in 1 .. k /\ k <= m
      BY <2>1, MaxIs
    <3>2. QED
      BY <3>1
  <2>3. (1 .. k) \ {k} = 1 .. k - 1
    OBVIOUS
  <2>4. iter[1 .. k] = Observe(iter[1 .. k - 1], list[k])
    BY <1>8, <2>1, <2>2, <2>3 DEF FoldsShown
  <2>5. QED
    BY <1>10, <2>4
<1>13. QED
  BY <1>9, <1>11, <1>12 DEF ShownSteps


\* What a step of one event does to the last events of the connections.
Grows(events, k) ==
    /\ Latest(events, k + 1, events[k + 1].connection) = {k + 1}
    /\ \A d : d # events[k + 1].connection => Latest(events, k + 1, d) = Latest(events, k, d)
    /\ Previous(events, k + 1) = Latest(events, k, events[k + 1].connection)

LEMMA LatestGrows ==
    ASSUME NEW events, NEW k \in Nat
    PROVE  Grows(events, k)
<1>1. PICK c : c = events[k + 1].connection
  OBVIOUS
<1>2. Latest(events, k + 1, c) = {k + 1}
  <2>1. \A i \in 1 .. k + 1 : i # k + 1 => k + 1 \in i + 1 .. k + 1
    OBVIOUS
  <2>2. k + 1 \in 1 .. k + 1 /\ (k + 1) + 1 .. k + 1 = {}
    OBVIOUS
  <2>3. QED
    BY <1>1, <2>1, <2>2 DEF Latest
<1>3. ASSUME NEW d, d # c
      PROVE  Latest(events, k + 1, d) = Latest(events, k, d)
  <2>1. ASSUME NEW i \in Latest(events, k + 1, d)
        PROVE  i \in Latest(events, k, d)
    <3>1. /\ i \in 1 .. k + 1 /\ events[i].connection = d
          /\ \A j \in i + 1 .. k + 1 : events[j].connection # d
      BY <2>1 DEF Latest
    <3>2. i \in 1 .. k
      BY <1>1, <1>3, <3>1
    <3>3. \A j \in i + 1 .. k : events[j].connection # d
      BY <3>1
    <3>4. QED
      BY <3>1, <3>2, <3>3 DEF Latest
  <2>2. ASSUME NEW i \in Latest(events, k, d)
        PROVE  i \in Latest(events, k + 1, d)
    <3>1. /\ i \in 1 .. k /\ events[i].connection = d
          /\ \A j \in i + 1 .. k : events[j].connection # d
      BY <2>2 DEF Latest
    <3>2. \A j \in i + 1 .. k + 1 : j \in i + 1 .. k \/ j = k + 1
      BY <3>1
    <3>3. \A j \in i + 1 .. k + 1 : events[j].connection # d
      BY <1>1, <1>3, <3>1, <3>2
    <3>4. i \in 1 .. k + 1
      BY <3>1
    <3>5. QED
      BY <3>1, <3>3, <3>4 DEF Latest
  <2>3. QED
    BY <2>1, <2>2
<1>4. Previous(events, k + 1) = Latest(events, k, c)
  <2>1. (k + 1) - 1 = k
    OBVIOUS
  <2>2. QED
    BY <1>1, <2>1 DEF Previous
<1>5. QED
  BY <1>1, <1>2, <1>3, <1>4 DEF Grows

LEMMA LatestIsOne ==
    ASSUME NEW events, NEW n \in Nat, NEW c,
           NEW i \in Latest(events, n, c), NEW j \in Latest(events, n, c)
    PROVE  i = j
<1>1. /\ i \in 1 .. n /\ events[i].connection = c
      /\ \A k \in i + 1 .. n : events[k].connection # c
      /\ j \in 1 .. n /\ events[j].connection = c
      /\ \A k \in j + 1 .. n : events[k].connection # c
  BY DEF Latest
<1>2. i < j => j \in i + 1 .. n
  BY <1>1
<1>3. j < i => i \in j + 1 .. n
  BY <1>1
<1>4. QED
  BY <1>1, <1>2, <1>3

\* An event is the last of its connection, or exactly one comes next on it.
ComesNext(events, n, i) ==
    /\ i \in Latest(events, n, events[i].connection)
           \/ \E j \in i + 1 .. n : i \in Previous(events, j)
    /\ \A j \in 1 .. n : i \in Previous(events, j) =>
           i \notin Latest(events, n, events[i].connection)
    /\ \A j, k \in 1 .. n : i \in Previous(events, j) /\ i \in Previous(events, k) => j = k

LEMMA OneComesNext ==
    ASSUME NEW events, NEW n \in Nat, NEW i \in 1 .. n
    PROVE  ComesNext(events, n, i)
<1>1. PICK c : c = events[i].connection
  OBVIOUS
<1>2. ASSUME i \notin Latest(events, n, c)
      PROVE  \E j \in i + 1 .. n : i \in Previous(events, j)
  <2>1. PICK later : later = {j \in i + 1 .. n : events[j].connection = c}
    OBVIOUS
  <2>2. later \in SUBSET Nat /\ later # {}
    BY <1>1, <1>2, <2>1 DEF Latest
  <2>3. PICK j \in later : \A k \in later : j <= k
    BY <2>2, LeastExists
  <2>4. j \in i + 1 .. n /\ events[j].connection = c
    BY <2>1
  <2>5. i \in 1 .. j - 1
    BY <2>4
  <2>6. \A k \in i + 1 .. j - 1 : events[k].connection # c
    <3>1. \A k \in i + 1 .. j - 1 : k \in i + 1 .. n /\ ~(j <= k)
      BY <2>4
    <3>2. QED
      BY <2>1, <2>3, <3>1
  <2>7. i \in Previous(events, j)
    BY <1>1, <2>4, <2>5, <2>6 DEF Previous, Latest
  <2>8. QED
    BY <2>4, <2>7
<1>3. ASSUME NEW j \in 1 .. n, i \in Previous(events, j)
      PROVE  /\ j \in i + 1 .. n /\ events[j].connection = c
             /\ \A k \in i + 1 .. j - 1 : events[k].connection # c
  BY <1>1, <1>3 DEF Previous, Latest
<1>4. ASSUME NEW j \in 1 .. n, i \in Previous(events, j)
      PROVE  i \notin Latest(events, n, c)
  BY <1>3, <1>4 DEF Latest
<1>5. ASSUME NEW j \in 1 .. n, NEW k \in 1 .. n, i \in Previous(events, j), i \in Previous(events, k)
      PROVE  j = k
  <2>1. /\ j \in i + 1 .. n /\ events[j].connection = c
        /\ k \in i + 1 .. n /\ events[k].connection = c
    BY <1>3, <1>5
  <2>2. j < k => j \in i + 1 .. k - 1
    BY <2>1
  <2>3. k < j => k \in i + 1 .. j - 1
    BY <2>1
  <2>4. ~(j < k) /\ ~(k < j)
    BY <1>3, <1>5, <2>1, <2>2, <2>3
  <2>5. QED
    BY <2>1, <2>4
<1>6. QED
  BY <1>1, <1>2, <1>4, <1>5 DEF ComesNext

-----------------------------------------------------------------------------
\* What the first checker holds after k events: one request for each connection
\* whose last event is a request, until it has seen a close come after one.

Asking(events, k, c) == \E i \in Latest(events, k, c) : events[i].event = "request"
CutShort(events, k) ==
    \E j \in 1 .. k : /\ events[j].event = "closed"
                      /\ \E i \in Previous(events, j) : events[i].event = "request"
Holds(queue, asking) == IF asking THEN \E x : queue = <<x>> ELSE queue = <<>>

EndInv(events, k, state) ==
    /\ state = [pending |-> state.pending, fired |-> state.fired] /\ state.fired \in BOOLEAN
    /\ state.fired <=> CutShort(events, k)
    /\ ~state.fired => \A c : Holds(Waiting(state.pending, c), Asking(events, k, c))

KnownKinds(events, n) == \A i \in 1 .. n : events[i].event \in {"request", "response", "closed"}
TakenInTurn(events, n) == \A i \in 1 .. n : TakesTurns(events, i)

LEMMA MapGains ==
    ASSUME NEW map, NEW c, NEW x
    PROVE  /\ Waiting(With(map, c, x), c) = x
           /\ \A d : d # c => Waiting(With(map, c, x), d) = Waiting(map, d)
BY DEF Waiting, With

LEMMA MapLoses ==
    ASSUME NEW map, NEW c
    PROVE  /\ Waiting(Less(map, c), c) = <<>>
           /\ \A d : d # c => Waiting(Less(map, c), d) = Waiting(map, d)
BY DEF Waiting, Less, Restrict

LEMMA CutShortGrows ==
    ASSUME NEW events, NEW k \in Nat
    PROVE  CutShort(events, k + 1) <=>
               \/ CutShort(events, k)
               \/ events[k + 1].event = "closed" /\ Asking(events, k, events[k + 1].connection)
<1>1. 1 .. k + 1 = (1 .. k) \cup {k + 1}
  OBVIOUS
<1>2. Previous(events, k + 1) = Latest(events, k, events[k + 1].connection)
  BY LatestGrows DEF Grows
<1>3. QED
  BY <1>1, <1>2 DEF CutShort, Asking

\* Who is waiting, after one more event.
LEMMA AskingGrows ==
    ASSUME NEW events, NEW k \in Nat
    PROVE  /\ Asking(events, k + 1, events[k + 1].connection)
                  <=> events[k + 1].event = "request"
           /\ \A d : d # events[k + 1].connection =>
                  (Asking(events, k + 1, d) <=> Asking(events, k, d))
BY LatestGrows DEF Grows, Asking

\* What may come next.
LEMMA TurnTaken ==
    ASSUME NEW events, NEW k \in Nat, TakesTurns(events, k + 1),
           events[k + 1].event \in {"request", "response", "closed"}
    PROVE  /\ events[k + 1].event = "request" => ~Asking(events, k, events[k + 1].connection)
           /\ events[k + 1].event = "response" => Asking(events, k, events[k + 1].connection)
<1>1. Previous(events, k + 1) = Latest(events, k, events[k + 1].connection)
  BY LatestGrows DEF Grows
<1>2. \A j \in Previous(events, k + 1) :
          /\ events[k + 1].event = "request" => events[j].event # "request"
          /\ events[k + 1].event = "response" => events[j].event = "request"
  BY DEF TakesTurns, MayFollow
<1>3. events[k + 1].event = "response" => Previous(events, k + 1) # {}
  BY DEF TakesTurns, MayFollow
<1>4. QED
  BY <1>1, <1>2, <1>3 DEF Asking

LEMMA EndSeen ==
    ASSUME NEW events, NEW k \in Nat, NEW state, ~state.fired, EndInv(events, k, state),
           TakesTurns(events, k + 1), events[k + 1].event \in {"request", "response", "closed"},
           NEW next, next = SeeEnd(state, events[k + 1])
    PROVE  EndInv(events, k + 1, next)
<1>1. PICK c : c = events[k + 1].connection
  OBVIOUS
<1>2. PICK waiting : waiting = Waiting(state.pending, c)
  OBVIOUS
<1>2a. PICK p : p = state.pending
  OBVIOUS
<1>3. /\ state = [pending |-> p, fired |-> FALSE]
      /\ ~CutShort(events, k)
      /\ \A d : Holds(Waiting(p, d), Asking(events, k, d))
  BY <1>2a DEF EndInv
<1>3a. ASSUME NEW d, d # c, NEW q, Waiting(q, d) = Waiting(p, d)
       PROVE  Holds(Waiting(q, d), Asking(events, k + 1, d))
  <2>1. Asking(events, k + 1, d) <=> Asking(events, k, d)
    BY <1>1, <1>3a, AskingGrows
  <2>2. Holds(Waiting(p, d), Asking(events, k, d))
    BY <1>3
  <2>3. QED
    BY <1>3a, <2>1, <2>2 DEF Holds
<1>4. Holds(waiting, Asking(events, k, c))
  BY <1>2, <1>2a, <1>3
<1>5. CASE events[k + 1].event = "request"
  <2>1. waiting = <<>>
    BY <1>1, <1>4, <1>5, TurnTaken DEF Holds
  <2>2. PICK x : x = events[k + 1].key
    OBVIOUS
  <2>3. Append(waiting, x) = <<x>>
    BY <2>1
  <2>4. next = [pending |-> With(p, c, <<x>>), fired |-> FALSE]
    <3>1. next = [state EXCEPT !.pending = With(@, c, Append(waiting, x))]
      BY <1>1, <1>2, <1>5, <2>2 DEF SeeEnd
    <3>2. QED
      BY <1>3, <2>3, <3>1
  <2>5. ~CutShort(events, k + 1)
    BY <1>3, <1>5, CutShortGrows
  <2>6. ASSUME NEW d PROVE Holds(Waiting(next.pending, d), Asking(events, k + 1, d))
    <3>1. CASE d = c
      BY <1>1, <1>5, <2>4, <3>1, MapGains, AskingGrows DEF Holds
    <3>2. CASE d # c
      BY <1>3a, <2>4, <3>2, MapGains
    <3>3. QED
      BY <3>1, <3>2
  <2>7. QED
    BY <2>4, <2>5, <2>6 DEF EndInv
<1>6. CASE events[k + 1].event = "response"
  <2>1. PICK x : waiting = <<x>>
    BY <1>1, <1>4, <1>6, TurnTaken DEF Holds
  <2>2. waiting # <<>> /\ Tail(waiting) = <<>>
    BY <2>1
  <2>3. next = [pending |-> With(p, c, <<>>), fired |-> FALSE]
    <3>1. next = [state EXCEPT !.pending = With(@, c, Tail(waiting))]
      BY <1>1, <1>2, <1>6, <2>2 DEF SeeEnd
    <3>2. QED
      BY <1>3, <2>2, <3>1
  <2>4. ~CutShort(events, k + 1)
    BY <1>3, <1>6, CutShortGrows
  <2>5. ASSUME NEW d PROVE Holds(Waiting(next.pending, d), Asking(events, k + 1, d))
    <3>1. CASE d = c
      BY <1>1, <1>6, <2>3, <3>1, MapGains, AskingGrows DEF Holds
    <3>2. CASE d # c
      BY <1>3a, <2>3, <3>2, MapGains
    <3>3. QED
      BY <3>1, <3>2
  <2>6. QED
    BY <2>3, <2>4, <2>5 DEF EndInv
<1>7. CASE events[k + 1].event = "closed"
  <2>1. next = [pending |-> Less(p, c), fired |-> waiting # <<>>]
    BY <1>1, <1>2, <1>2a, <1>7 DEF SeeEnd
  <2>2. waiting # <<>> <=> Asking(events, k, c)
    <3>1. \A x : <<x>> # <<>>
      OBVIOUS
    <3>2. QED
      BY <1>4, <3>1 DEF Holds
  <2>3. CutShort(events, k + 1) <=> Asking(events, k, c)
    BY <1>1, <1>3, <1>7, CutShortGrows
  <2>4. PICK q, f : q = Less(p, c) /\ f = (waiting # <<>>)
    OBVIOUS
  <2>5. next = [pending |-> q, fired |-> f] /\ f \in BOOLEAN /\ (f <=> CutShort(events, k + 1))
    BY <2>1, <2>2, <2>3, <2>4
  <2>6. ASSUME NEW d PROVE Holds(Waiting(next.pending, d), Asking(events, k + 1, d))
    <3>1. CASE d = c
      <4>1. Waiting(next.pending, c) = <<>>
        BY <2>4, <2>5, MapLoses
      <4>2. ~Asking(events, k + 1, c)
        BY <1>1, <1>7, AskingGrows
      <4>3. QED
        BY <3>1, <4>1, <4>2 DEF Holds
    <3>2. CASE d # c
      BY <1>3a, <2>4, <2>5, <3>2, MapLoses
    <3>3. QED
      BY <3>1, <3>2
  <2>7. QED
    BY <2>5, <2>6 DEF EndInv
<1>8. QED
  BY <1>5, <1>6, <1>7

\* The first checker, over a whole run.
LEMMA EndExact ==
    ASSUME NEW n \in Nat, NEW events, DOMAIN events = 1 .. n, KnownKinds(events, n), TakenInTurn(events, n),
           NEW state, EndInv(events, n, state)
    PROVE  (state.fired \/ \E c \in DOMAIN state.pending : state.pending[c] # <<>>)
               <=> \E i \in DOMAIN events : /\ events[i].event = "request"
                                            /\ \A j \in AnswersIn(events) : i \notin Previous(events, j)
<1>1. (\E c \in DOMAIN state.pending : state.pending[c] # <<>>)
          <=> \E c : Waiting(state.pending, c) # <<>>
  BY DEF Waiting
<1>2. ~state.fired => \A c : Waiting(state.pending, c) # <<>> <=> Asking(events, n, c)
  <2>1. \A x : <<x>> # <<>>
    OBVIOUS
  <2>2. QED
    BY <2>1 DEF EndInv, Holds
<1>3. state.fired <=> CutShort(events, n)
  BY DEF EndInv
<1>4. ASSUME NEW i \in 1 .. n, events[i].event = "request",
             \A j \in AnswersIn(events) : i \notin Previous(events, j)
      PROVE  CutShort(events, n) \/ \E c : Asking(events, n, c)
  <2>1. CASE i \in Latest(events, n, events[i].connection)
    BY <1>4, <2>1 DEF Asking
  <2>2. CASE i \notin Latest(events, n, events[i].connection)
    <3>1. PICK j \in i + 1 .. n : i \in Previous(events, j)
      BY <2>2, OneComesNext DEF ComesNext
    <3>2. j \in 1 .. n
      OBVIOUS
    <3>3. events[j].event # "response"
      BY <1>4, <3>1, <3>2 DEF AnswersIn
    <3>4. events[j].event \in MayFollow("request")
      BY <1>4, <3>1, <3>2 DEF TakenInTurn, TakesTurns
    <3>5. events[j].event = "closed"
      BY <3>3, <3>4 DEF MayFollow
    <3>6. QED
      BY <1>4, <3>1, <3>2, <3>5 DEF CutShort
  <2>3. QED
    BY <2>1, <2>2
<1>5. ASSUME CutShort(events, n)
      PROVE  \E i \in 1 .. n : /\ events[i].event = "request"
                               /\ \A j \in AnswersIn(events) : i \notin Previous(events, j)
  <2>1. PICK j \in 1 .. n : /\ events[j].event = "closed"
                            /\ \E i \in Previous(events, j) : events[i].event = "request"
    BY <1>5 DEF CutShort
  <2>2. PICK i \in Previous(events, j) : events[i].event = "request"
    BY <2>1
  <2>3. i \in 1 .. n
    BY DEF Previous, Latest
  <2>4. \A k \in 1 .. n : i \in Previous(events, k) => k = j
    BY <2>3, OneComesNext DEF ComesNext
  <2>5. j \notin AnswersIn(events) /\ \A k \in AnswersIn(events) : k \in 1 .. n
    BY <2>1 DEF AnswersIn
  <2>6. QED
    BY <2>2, <2>3, <2>4, <2>5
<1>6. ASSUME NEW c, Asking(events, n, c)
      PROVE  \E i \in 1 .. n : /\ events[i].event = "request"
                               /\ \A j \in AnswersIn(events) : i \notin Previous(events, j)
  <2>1. PICK i \in Latest(events, n, c) : events[i].event = "request"
    BY <1>6 DEF Asking
  <2>2. i \in 1 .. n /\ events[i].connection = c
    BY DEF Latest
  <2>3. \A k \in 1 .. n : i \notin Previous(events, k)
    BY <2>1, <2>2, OneComesNext DEF ComesNext
  <2>4. \A k \in AnswersIn(events) : k \in 1 .. n
    BY DEF AnswersIn
  <2>5. QED
    BY <2>1, <2>2, <2>3, <2>4
<1>7. QED
  BY <1>1, <1>2, <1>3, <1>4, <1>5, <1>6

-----------------------------------------------------------------------------
\* What the second checker holds after k events: the keys of the requests that
\* were not answered yet, and what each key was told, until it was told two things.

Tells(events, k, key, answer) ==
    \E j \in 1 .. k : /\ events[j].event = "response" /\ events[j].answer = answer
                      /\ \E i \in Previous(events, j) : events[i].key = key
ToldApart(events, k) ==
    \E key : /\ key # NoKey
             /\ \E one, other : Tells(events, k, key, one) /\ Tells(events, k, key, other) /\ one # other

\* The key a connection asks with, after k events.
AsksWith(events, k, c, key) ==
    \E i \in Latest(events, k, c) :
        events[i].event = "request" /\ events[i].key = key /\ key # NoKey

Flying(events, k, map) ==
    \A c : /\ c \in DOMAIN map => AsksWith(events, k, c, map[c])
           /\ \A key : AsksWith(events, k, c, key) => c \in DOMAIN map /\ map[c] = key
Remembered(events, k, map) ==
    /\ \A key : key \in DOMAIN map => key # NoKey /\ Tells(events, k, key, map[key])
    /\ \A key, answer : key # NoKey /\ Tells(events, k, key, answer) =>
           key \in DOMAIN map /\ map[key] = answer

RetryInv(events, k, state) ==
    /\ state = [inFlight |-> state.inFlight, answered |-> state.answered, fired |-> state.fired]
    /\ state.fired \in BOOLEAN
    /\ state.fired <=> ToldApart(events, k)
    /\ ~state.fired => Flying(events, k, state.inFlight) /\ Remembered(events, k, state.answered)

LEMMA AsksGrows ==
    ASSUME NEW events, NEW k \in Nat
    PROVE  /\ \A key : AsksWith(events, k + 1, events[k + 1].connection, key)
                  <=> events[k + 1].event = "request" /\ events[k + 1].key = key /\ key # NoKey
           /\ \A d, key : d # events[k + 1].connection =>
                  (AsksWith(events, k + 1, d, key) <=> AsksWith(events, k, d, key))
<1>1. Grows(events, k)
  BY LatestGrows
<1>2. \A key : AsksWith(events, k + 1, events[k + 1].connection, key)
                <=> events[k + 1].event = "request" /\ events[k + 1].key = key /\ key # NoKey
  BY <1>1 DEF Grows, AsksWith
<1>3. ASSUME NEW d, NEW key, d # events[k + 1].connection
      PROVE  AsksWith(events, k + 1, d, key) <=> AsksWith(events, k, d, key)
  <2>1. Latest(events, k + 1, d) = Latest(events, k, d)
    BY <1>1, <1>3 DEF Grows
  <2>2. QED
    BY <2>1 DEF AsksWith
<1>4. QED
  BY <1>2, <1>3

LEMMA AsksOne ==
    ASSUME NEW events, NEW k \in Nat, NEW c, NEW one, NEW other,
           AsksWith(events, k, c, one), AsksWith(events, k, c, other)
    PROVE  one = other
<1>1. PICK i \in Latest(events, k, c) : events[i].key = one
  BY DEF AsksWith
<1>2. PICK j \in Latest(events, k, c) : events[j].key = other
  BY DEF AsksWith
<1>3. i = j
  BY LatestIsOne
<1>4. QED
  BY <1>1, <1>2, <1>3

\* An answer tells something of the key its connection asked with.
LEMMA TellsGrows ==
    ASSUME NEW events, NEW k \in Nat, TakesTurns(events, k + 1), NEW key, key # NoKey, NEW answer
    PROVE  Tells(events, k + 1, key, answer) <=>
               \/ Tells(events, k, key, answer)
               \/ /\ events[k + 1].event = "response" /\ events[k + 1].answer = answer
                  /\ AsksWith(events, k, events[k + 1].connection, key)
<1>1. 1 .. k + 1 = (1 .. k) \cup {k + 1}
  OBVIOUS
<1>2. Previous(events, k + 1) = Latest(events, k, events[k + 1].connection)
  BY LatestGrows DEF Grows
<1>3. ASSUME events[k + 1].event = "response", NEW i \in Previous(events, k + 1)
      PROVE  events[i].event = "request"
  BY <1>3 DEF TakesTurns, MayFollow
<1>4. events[k + 1].event = "response" =>
          ((\E i \in Previous(events, k + 1) : events[i].key = key)
               <=> AsksWith(events, k, events[k + 1].connection, key))
  BY <1>2, <1>3 DEF AsksWith
<1>5. QED
  BY <1>1, <1>4 DEF Tells

\* A map follows an event when only its connection's key changed, to that of a
\* request or to none.
Follows(map, before, event) ==
    /\ \A d : d # event.connection =>
           (d \in DOMAIN map <=> d \in DOMAIN before) /\ (d \in DOMAIN map => map[d] = before[d])
    /\ LET c == event.connection
       IN  IF event.event = "request" /\ event.key # NoKey
           THEN c \in DOMAIN map /\ map[c] = event.key
           ELSE c \notin DOMAIN map

LEMMA FlyingMoves ==
    ASSUME NEW events, NEW k \in Nat, NEW before, Flying(events, k, before),
           NEW map, Follows(map, before, events[k + 1])
    PROVE  Flying(events, k + 1, map)
<1>1. PICK c : c = events[k + 1].connection
  OBVIOUS
<1>2. ASSUME NEW d, d # c
      PROVE  /\ d \in DOMAIN map => AsksWith(events, k + 1, d, map[d])
             /\ \A key : AsksWith(events, k + 1, d, key) => d \in DOMAIN map /\ map[d] = key
  <2>1. (d \in DOMAIN map <=> d \in DOMAIN before) /\ (d \in DOMAIN map => map[d] = before[d])
    BY <1>1, <1>2 DEF Follows
  <2>2. \A key : AsksWith(events, k + 1, d, key) <=> AsksWith(events, k, d, key)
    BY <1>1, <1>2, AsksGrows
  <2>3. QED
    BY <2>1, <2>2 DEF Flying
<1>3. /\ c \in DOMAIN map => AsksWith(events, k + 1, c, map[c])
      /\ \A key : AsksWith(events, k + 1, c, key) => c \in DOMAIN map /\ map[c] = key
  <2>1. \A key : AsksWith(events, k + 1, c, key)
                     <=> events[k + 1].event = "request" /\ events[k + 1].key = key /\ key # NoKey
    BY <1>1, AsksGrows
  <2>2. QED
    BY <1>1, <2>1 DEF Follows
<1>4. QED
  BY <1>2, <1>3 DEF Flying

LEMMA RememberedIsOne ==
    ASSUME NEW events, NEW k, NEW map, Remembered(events, k, map)
    PROVE  ~ToldApart(events, k)
BY DEF Remembered, ToldApart

\* Nothing was told.
LEMMA NothingTold ==
    ASSUME NEW events, NEW k \in Nat, TakesTurns(events, k + 1), NEW map, Remembered(events, k, map),
           \A key : events[k + 1].event = "response" =>
                        ~AsksWith(events, k, events[k + 1].connection, key)
    PROVE  Remembered(events, k + 1, map)
<1>1. \A key, answer : key # NoKey =>
          (Tells(events, k + 1, key, answer) <=> Tells(events, k, key, answer))
  BY TellsGrows
<1>2. QED
  BY <1>1 DEF Remembered

LEMMA RetrySeen ==
    ASSUME NEW events, NEW k \in Nat, NEW state, ~state.fired, RetryInv(events, k, state),
           TakesTurns(events, k + 1), events[k + 1].event \in {"request", "response", "closed"},
           NEW next, next = SeeRetry(state, events[k + 1])
    PROVE  RetryInv(events, k + 1, next)
<1>1. PICK c : c = events[k + 1].connection
  OBVIOUS
<1>2. PICK flying, told : flying = state.inFlight /\ told = state.answered
  OBVIOUS
<1>3. /\ state = [inFlight |-> flying, answered |-> told, fired |-> FALSE]
      /\ Flying(events, k, flying) /\ Remembered(events, k, told)
  BY <1>2 DEF RetryInv
<1>4. ASSUME NEW map, NEW list, next = [inFlight |-> map, answered |-> list, fired |-> FALSE],
             Follows(map, flying, events[k + 1]), Remembered(events, k + 1, list)
      PROVE  RetryInv(events, k + 1, next)
  <2>1. Flying(events, k + 1, map)
    BY <1>3, <1>4, FlyingMoves
  <2>2. ~ToldApart(events, k + 1)
    BY <1>4, RememberedIsOne
  <2>3. QED
    BY <1>4, <2>1, <2>2 DEF RetryInv
<1>5. events[k + 1].event # "response" => Remembered(events, k + 1, told)
  BY <1>3, NothingTold
<1>6. CASE events[k + 1].event = "request"
  <2>1. c \notin DOMAIN flying
    <3>1. ~Asking(events, k, c)
      BY <1>1, <1>6, TurnTaken
    <3>2. \A key : ~AsksWith(events, k, c, key)
      BY <3>1 DEF Asking, AsksWith
    <3>3. QED
      BY <1>3, <3>2 DEF Flying
  <2>2. CASE events[k + 1].key # NoKey
    <3>1. PICK map : map = With(flying, c, events[k + 1].key)
      OBVIOUS
    <3>2. next = [inFlight |-> map, answered |-> told, fired |-> FALSE]
      <4>1. next = [state EXCEPT !.inFlight = With(@, c, events[k + 1].key)]
        BY <1>1, <1>6, <2>2 DEF SeeRetry
      <4>2. QED
        BY <1>3, <3>1, <4>1
    <3>3. Follows(map, flying, events[k + 1])
      BY <1>1, <1>6, <2>2, <3>1 DEF Follows, With
    <3>4. QED
      BY <1>4, <1>5, <1>6, <3>2, <3>3
  <2>3. CASE events[k + 1].key = NoKey
    <3>1. next = state
      BY <1>6, <2>3 DEF SeeRetry
    <3>2. Follows(flying, flying, events[k + 1])
      BY <1>1, <2>1, <2>3 DEF Follows
    <3>3. QED
      BY <1>3, <1>4, <1>5, <1>6, <3>1, <3>2
  <2>4. QED
    BY <2>2, <2>3
<1>7. CASE events[k + 1].event = "closed"
  <2>1. PICK map : map = Less(flying, c)
    OBVIOUS
  <2>2. next = [inFlight |-> map, answered |-> told, fired |-> FALSE]
    <3>1. next = [state EXCEPT !.inFlight = Less(@, c)]
      BY <1>1, <1>7 DEF SeeRetry
    <3>2. QED
      BY <1>3, <2>1, <3>1
  <2>3. Follows(map, flying, events[k + 1])
    BY <1>1, <1>7, <2>1 DEF Follows, Less, Restrict
  <2>4. QED
    BY <1>4, <1>5, <1>7, <2>2, <2>3
<1>8. CASE events[k + 1].event = "response" /\ c \notin DOMAIN flying
  <2>1. next = state
    BY <1>1, <1>2, <1>8 DEF SeeRetry
  <2>2. Follows(flying, flying, events[k + 1])
    BY <1>1, <1>8 DEF Follows
  <2>3. \A key : ~AsksWith(events, k, c, key)
    BY <1>3, <1>8 DEF Flying
  <2>4. Remembered(events, k + 1, told)
    BY <1>1, <1>3, <2>3, NothingTold
  <2>5. QED
    BY <1>3, <1>4, <2>1, <2>2, <2>4
<1>9. CASE events[k + 1].event = "response" /\ c \in DOMAIN flying
  <2>1. PICK key, answer : key = flying[c] /\ answer = events[k + 1].answer
    OBVIOUS
  <2>2. PICK map : map = Less(flying, c)
    OBVIOUS
  <2>3. Follows(map, flying, events[k + 1])
    BY <1>1, <1>9, <2>2 DEF Follows, Less, Restrict
  <2>4. AsksWith(events, k, c, key) /\ key # NoKey
    BY <1>3, <1>9, <2>1 DEF Flying, AsksWith
  <2>5. \A other : AsksWith(events, k, c, other) => other = key
    BY <2>4, AsksOne
  <2>6. \A other, a : other # NoKey =>
            (Tells(events, k + 1, other, a)
                 <=> Tells(events, k, other, a) \/ (other = key /\ a = answer))
    BY <1>1, <1>9, <2>1, <2>4, <2>5, TellsGrows
  <2>7. CASE key \in DOMAIN told
    <3>1. next = [inFlight |-> map, answered |-> told, fired |-> told[key] # answer]
      BY <1>1, <1>2, <1>9, <2>1, <2>2, <2>7 DEF SeeRetry, Landed
    <3>2. CASE told[key] = answer
      <4>1. Remembered(events, k + 1, told)
        BY <1>3, <2>6, <2>7, <3>2 DEF Remembered
      <4>2. next = [inFlight |-> map, answered |-> told, fired |-> FALSE]
        BY <3>1, <3>2
      <4>3. QED
        BY <1>4, <2>3, <4>1, <4>2
    <3>3. CASE told[key] # answer
      <4>1. Tells(events, k, key, told[key])
        BY <1>3, <2>7 DEF Remembered
      <4>2. Tells(events, k + 1, key, told[key]) /\ Tells(events, k + 1, key, answer)
        BY <2>4, <2>6, <4>1
      <4>3. ToldApart(events, k + 1)
        BY <2>4, <3>3, <4>2 DEF ToldApart
      <4>4. next = [inFlight |-> map, answered |-> told, fired |-> TRUE]
        BY <3>1, <3>3
      <4>5. QED
        BY <4>3, <4>4 DEF RetryInv
    <3>4. QED
      BY <3>2, <3>3
  <2>8. CASE key \notin DOMAIN told
    <3>1. PICK list : list = With(told, key, answer)
      OBVIOUS
    <3>2. next = [inFlight |-> map, answered |-> list, fired |-> FALSE]
      BY <1>1, <1>2, <1>9, <2>1, <2>2, <2>8, <3>1 DEF SeeRetry, Landed
    <3>3. /\ DOMAIN list = DOMAIN told \cup {key} /\ list[key] = answer
          /\ \A other \in DOMAIN told : list[other] = told[other]
      BY <2>8, <3>1 DEF With
    <3>4. Remembered(events, k + 1, list)
      <4>1. ASSUME NEW other \in DOMAIN list
            PROVE  other # NoKey /\ Tells(events, k + 1, other, list[other])
        BY <1>3, <2>4, <2>6, <3>3 DEF Remembered
      <4>2. ASSUME NEW other, NEW a, other # NoKey, Tells(events, k + 1, other, a)
            PROVE  other \in DOMAIN list /\ list[other] = a
        <5>1. CASE Tells(events, k, other, a)
          BY <1>3, <3>3, <4>2, <5>1 DEF Remembered
        <5>2. CASE other = key /\ a = answer
          BY <3>3, <5>2
        <5>3. QED
          BY <2>6, <4>2, <5>1, <5>2
      <4>3. QED
        BY <4>1, <4>2 DEF Remembered
    <3>5. QED
      BY <1>4, <2>3, <3>2, <3>4
  <2>9. QED
    BY <2>7, <2>8
<1>10. QED
  BY <1>6, <1>7, <1>8, <1>9

\* The second checker, over a whole run.
LEMMA RetryExact ==
    ASSUME NEW n \in Nat, NEW connections, NEW keys, NEW outcomes,
           NEW events \in [1 .. n -> Events(connections, keys, outcomes)], TakenInTurn(events, n),
           NEW state, RetryInv(events, n, state)
    PROVE  state.fired
               <=> \E key \in keys \ {NoKey} : \E one, other \in AnswersTo(events, key) : one # other
<1>1. \A key, answer : Tells(events, n, key, answer) <=> answer \in AnswersTo(events, key)
  BY DEF Tells, AnswersTo, AnswersIn
<1>2. ASSUME NEW key, NEW answer, Tells(events, n, key, answer), key # NoKey
      PROVE  key \in keys
  <2>1. PICK j \in 1 .. n : /\ events[j].event = "response"
                            /\ \E i \in Previous(events, j) : events[i].key = key
    BY <1>2 DEF Tells
  <2>2. PICK i \in Previous(events, j) : events[i].key = key
    BY <2>1
  <2>3. i \in 1 .. n
    BY DEF Previous, Latest
  <2>4. "response" \in MayFollow(events[i].event)
    BY <2>1 DEF TakenInTurn, TakesTurns
  <2>5. events[i].event = "request"
    BY <2>4 DEF MayFollow
  <2>6. events[i] \in Events(connections, keys, outcomes)
    BY <2>3
  <2>7. PICK c \in connections, k \in keys \cup {NoKey} : events[i] = Request(c, k)
    <3>1. PICK e : e = events[i]
      OBVIOUS
    <3>2. e \notin {Response(c, result) : c \in connections, result \in outcomes}
      BY <2>5, <3>1 DEF Response
    <3>3. e \notin {Closed(c) : c \in connections}
      BY <2>5, <3>1 DEF Closed
    <3>4. e \in {Request(c, k) : c \in connections, k \in keys \cup {NoKey}}
      BY <2>6, <3>1, <3>2, <3>3 DEF Events
    <3>5. QED
      BY <3>1, <3>4
  <2>8. k = key
    BY <2>2, <2>7 DEF Request
  <2>9. QED
    BY <1>2, <2>7, <2>8
<1>3. state.fired <=> ToldApart(events, n)
  BY DEF RetryInv
<1>4. ToldApart(events, n)
          <=> \E key \in keys \ {NoKey} : \E one, other \in AnswersTo(events, key) : one # other
  BY <1>1, <1>2 DEF ToldApart
<1>5. QED
  BY <1>3, <1>4

\* What both checkers hold after k events.
CheckerInv(events, k, seen) ==
    EndInv(events, k, seen.end) /\ RetryInv(events, k, seen.retry)

LEMMA CheckersStart ==
    ASSUME NEW events
    PROVE  CheckerInv(events, 0, Fresh)
<1>1. \A c : Latest(events, 0, c) = {}
  BY DEF Latest
<1>2. ~CutShort(events, 0) /\ \A key, answer : ~Tells(events, 0, key, answer)
  BY DEF CutShort, Tells
<1>3. PICK none : none = <<>>
  OBVIOUS
<1>4. DOMAIN none = {}
  BY <1>3
<1>5. \A c : Holds(Waiting(none, c), Asking(events, 0, c))
  BY <1>1, <1>3, <1>4 DEF Holds, Waiting, Asking
<1>6. Flying(events, 0, none) /\ Remembered(events, 0, none)
  BY <1>1, <1>2, <1>4 DEF Flying, AsksWith, Remembered
<1>7. ~ToldApart(events, 0)
  BY <1>6, RememberedIsOne
<1>8. Fresh = [end   |-> [pending |-> none, fired |-> FALSE],
               retry |-> [inFlight |-> none, answered |-> none, fired |-> FALSE]]
  BY <1>3 DEF Fresh
<1>9. EndInv(events, 0, Fresh.end)
  BY <1>2, <1>5, <1>8 DEF EndInv
<1>10. RetryInv(events, 0, Fresh.retry)
  BY <1>6, <1>7, <1>8 DEF RetryInv
<1>11. QED
  BY <1>9, <1>10 DEF CheckerInv

\* A checker that fired is shown nothing more, and nothing more could clear it.
LEMMA CheckersGoOn ==
    ASSUME NEW events, NEW k \in Nat, NEW seen, CheckerInv(events, k, seen),
           TakesTurns(events, k + 1), events[k + 1].event \in {"request", "response", "closed"},
           NEW next, next = Observe(seen, events[k + 1])
    PROVE  CheckerInv(events, k + 1, next)
<1>1. EndInv(events, k, seen.end) /\ RetryInv(events, k, seen.retry)
  BY DEF CheckerInv
<1>2. EndInv(events, k + 1, next.end)
  <2>1. CASE seen.end.fired
    <3>1. next.end = seen.end
      BY <2>1 DEF Observe
    <3>2. CutShort(events, k + 1)
      BY <1>1, <2>1, CutShortGrows DEF EndInv
    <3>3. QED
      BY <1>1, <2>1, <3>1, <3>2 DEF EndInv
  <2>2. CASE ~seen.end.fired
    <3>1. next.end = SeeEnd(seen.end, events[k + 1])
      BY <2>2 DEF Observe
    <3>2. QED
      BY <1>1, <2>2, <3>1, EndSeen
  <2>3. QED
    BY <2>1, <2>2
<1>3. RetryInv(events, k + 1, next.retry)
  <2>1. CASE seen.retry.fired
    <3>1. next.retry = seen.retry
      BY <2>1 DEF Observe
    <3>2. \A key, answer : Tells(events, k, key, answer) => Tells(events, k + 1, key, answer)
      <4>1. \A j \in 1 .. k : j \in 1 .. k + 1
        OBVIOUS
      <4>2. QED
        BY <4>1 DEF Tells
    <3>3. ToldApart(events, k + 1)
      BY <1>1, <2>1, <3>2 DEF RetryInv, ToldApart
    <3>4. QED
      BY <1>1, <2>1, <3>1, <3>3 DEF RetryInv
  <2>2. CASE ~seen.retry.fired
    <3>1. next.retry = SeeRetry(seen.retry, events[k + 1])
      BY <2>2 DEF Observe
    <3>2. QED
      BY <1>1, <2>2, <3>1, RetrySeen
  <2>3. QED
    BY <2>1, <2>2
<1>4. QED
  BY <1>2, <1>3 DEF CheckerInv

LEMMA BothAreExact ==
    ASSUME NEW n \in Nat, NEW connections, NEW keys, NEW outcomes,
           NEW events \in Observations(n, connections, keys, outcomes)
    PROVE  StrandedIsExact(events) /\ RetryIsExact(events, keys)
<1>1. /\ events \in [1 .. n -> Events(connections, keys, outcomes)] /\ DOMAIN events = 1 .. n
      /\ TakenInTurn(events, n)
  BY DEF Observations, TakenInTurn
<1>2. KnownKinds(events, n)
  <2>1. \A e \in Events(connections, keys, outcomes) : e.event \in {"request", "response", "closed"}
    BY DEF Events, Request, Response, Closed
  <2>2. QED
    BY <1>1, <2>1 DEF KnownKinds
<1>3. ShownSteps(Fresh, events, n)
  BY <1>1, ShownFolds
<1>4. PICK f : /\ f[0] = Fresh /\ Shown(events) = f[n]
               /\ \A k \in 1 .. n : f[k] = Observe(f[k - 1], events[k])
  BY <1>3 DEF ShownSteps, ShownAll, Shown
<1>5. CheckerInv(events, n, f[n])
  <2>1. SUFFICES ASSUME ~CheckerInv(events, n, f[n]) PROVE FALSE
    OBVIOUS
  <2>2. PICK bad : bad = {k \in 0 .. n : ~CheckerInv(events, k, f[k])}
    OBVIOUS
  <2>3. bad \in SUBSET Nat /\ bad # {}
    BY <2>1, <2>2
  <2>4. PICK m \in bad : \A k \in bad : m <= k
    BY <2>3, LeastExists
  <2>5. m \in 0 .. n /\ ~CheckerInv(events, m, f[m])
    BY <2>2
  <2>6. m # 0
    BY <1>4, <2>5, CheckersStart
  <2>7. PICK k \in Nat : m = k + 1 /\ k \in 0 .. n /\ k + 1 \in 1 .. n
    <3>1. m - 1 \in Nat /\ m = (m - 1) + 1 /\ m - 1 \in 0 .. n /\ (m - 1) + 1 \in 1 .. n
      BY <2>5, <2>6
    <3>2. QED
      BY <3>1
  <2>8. CheckerInv(events, k, f[k])
    <3>1. k \notin bad
      BY <2>4, <2>7
    <3>2. QED
      BY <2>2, <2>7, <3>1
  <2>9. f[k + 1] = Observe(f[k], events[k + 1])
    <3>1. (k + 1) - 1 = k
      OBVIOUS
    <3>2. QED
      BY <1>4, <2>7, <3>1
  <2>10. TakesTurns(events, k + 1) /\ events[k + 1].event \in {"request", "response", "closed"}
    BY <1>1, <1>2, <2>7 DEF TakenInTurn, KnownKinds
  <2>11. CheckerInv(events, k + 1, f[k + 1])
    BY <2>8, <2>9, <2>10, CheckersGoOn
  <2>12. QED
    BY <2>5, <2>7, <2>11
<1>6. EndInv(events, n, Shown(events).end) /\ RetryInv(events, n, Shown(events).retry)
  BY <1>4, <1>5 DEF CheckerInv
<1>7. StrandedIsExact(events)
  BY <1>1, <1>2, <1>6, EndExact DEF StrandedIsExact, StrandedFires
<1>8. RetryIsExact(events, keys)
  BY <1>1, <1>6, RetryExact DEF RetryIsExact, RetryFires
<1>9. QED
  BY <1>7, <1>8

\* The checker of retried keys fires exactly when two attempts with one key were
\* told different things, and that of unanswered requests exactly when a request
\* has no answer: for observations of any length, of any connections, with any
\* keys and answers, and so for those that RetriesAreCompared names.
THEOREM ChecksAlwaysExact ==
    /\ \A length \in Nat : \A connections, keys, outcomes :
           ChecksAreExact(length, connections, keys, outcomes)
    /\ Spec => []RetriesAreCompared
<1>1. \A length \in Nat : \A connections, keys, outcomes :
          ChecksAreExact(length, connections, keys, outcomes)
  BY BothAreExact DEF ChecksAreExact
<1>2. RetriesAreCompared
  <2>1. 0 .. 5 \subseteq Nat
    OBVIOUS
  <2>2. QED
    BY <1>1, <2>1 DEF RetriesAreCompared
<1>3. []RetriesAreCompared
  BY <1>2, PTL
<1>4. QED
  BY <1>1, <1>3

-----------------------------------------------------------------------------
\* Reading a head.

LEMMA MinIs ==
    ASSUME NEW set \in SUBSET Nat, set # {}
    PROVE  Min(set) \in set /\ \A x \in set : Min(set) <= x
<1>1. \E m \in set : \A x \in set : m =< x
  BY LeastExists
<1>2. QED
  BY <1>1 DEF Min

LEMMA MinIsThis ==
    ASSUME NEW set \in SUBSET Nat, NEW m \in set, \A x \in set : m <= x
    PROVE  Min(set) = m
<1>1. PICK least : least = Min(set) /\ least \in set /\ least <= m
  BY MinIs
<1>2. m <= least /\ least \in Nat /\ m \in Nat
  BY <1>1
<1>3. QED
  BY <1>1, <1>2

\* A head of whole lines, a blank and the rest.
Opened(head, rest) == head \o <<Blank>> \o rest
NoBlank(tokens) == \A i \in 1 .. Len(tokens) : tokens[i] # Blank

IsOpened(U, s, head, rest) ==
    /\ s \in Seq(U) /\ Len(s) = Len(head) + 1 + Len(rest) /\ s # <<>>
    /\ \A i \in 1 .. Len(head) : s[i] = head[i]
    /\ s[Len(head) + 1] = Blank
    /\ \A i \in 1 .. Len(rest) : s[Len(head) + 1 + i] = rest[i]

LEMMA OpenedIs ==
    ASSUME NEW U, Blank \in U, NEW head \in Seq(U), NEW rest \in Seq(U)
    PROVE  IsOpened(U, Opened(head, rest), head, rest)
<1>1. <<Blank>> \in Seq(U) /\ Len(<<Blank>>) = 1 /\ <<Blank>>[1] = Blank
  OBVIOUS
<1>2. PICK a : a = head \o <<Blank>>
  OBVIOUS
<1>3. /\ a \in Seq(U) /\ Len(a) = Len(head) + 1
      /\ \A i \in 1 .. Len(head) : a[i] = head[i]
      /\ a[Len(head) + 1] = Blank
  BY <1>1, <1>2
<1>4. /\ a \o rest \in Seq(U) /\ Len(a \o rest) = Len(a) + Len(rest)
      /\ \A i \in 1 .. Len(a) : (a \o rest)[i] = a[i]
      /\ \A i \in 1 .. Len(rest) : (a \o rest)[Len(a) + i] = rest[i]
  BY <1>3
<1>5. Len(head) \in Nat /\ Len(rest) \in Nat
  OBVIOUS
<1>6. Opened(head, rest) = a \o rest
  BY <1>2 DEF Opened
<1>7. Len(a \o rest) # 0
  BY <1>3, <1>4, <1>5
<1>8. QED
  BY <1>3, <1>4, <1>5, <1>6, <1>7 DEF IsOpened

LEMMA SameSeq ==
    ASSUME NEW U, NEW s \in Seq(U), NEW t \in Seq(U), Len(s) = Len(t),
           \A i \in 1 .. Len(s) : s[i] = t[i]
    PROVE  s = t
OBVIOUS

SplitsAt(s, n, head, rest) ==
    /\ HeadEnds(s) # {} /\ Min(HeadEnds(s)) = n
    /\ SubSeq(s, 1, n - 1) = head /\ SubSeq(s, n + 1, Len(s)) = rest

LEMMA OpenedSplits ==
    ASSUME NEW U, Blank \in U, NEW head \in Seq(U), NEW rest \in Seq(U), NoBlank(head)
    PROVE  SplitsAt(Opened(head, rest), Len(head) + 1, head, rest)
<1>1. PICK s : s = Opened(head, rest)
  OBVIOUS
<1>2. PICK h : h = Len(head) /\ h \in Nat
  OBVIOUS
<1>3. /\ s \in Seq(U) /\ Len(s) = h + 1 + Len(rest) /\ s # <<>>
      /\ \A i \in 1 .. h : s[i] = head[i]
      /\ s[h + 1] = Blank /\ \A i \in 1 .. Len(rest) : s[h + 1 + i] = rest[i]
  <2>1. IsOpened(U, s, head, rest)
    BY <1>1, OpenedIs
  <2>2. QED
    BY <1>2, <2>1 DEF IsOpened
<1>4. Len(rest) \in Nat
  OBVIOUS
<1>5. PICK ends : ends = HeadEnds(s)
  OBVIOUS
<1>6. ends \in SUBSET Nat /\ h + 1 \in ends /\ \A i \in ends : h + 1 <= i
  <2>1. DOMAIN s = 1 .. h + 1 + Len(rest)
    BY <1>3
  <2>2. h + 1 \in DOMAIN s
    BY <1>2, <1>4, <2>1
  <2>3. \A i \in ends : i \in DOMAIN s /\ s[i] = Blank
    BY <1>5 DEF HeadEnds
  <2>4. \A i \in 1 .. h : s[i] # Blank
    BY <1>2, <1>3 DEF NoBlank
  <2>5. QED
    BY <1>2, <1>3, <1>4, <1>5, <2>1, <2>2, <2>3, <2>4 DEF HeadEnds
<1>7. Min(ends) = h + 1
  BY <1>6, MinIsThis
<1>8. SubSeq(s, 1, h) = head
  <2>1. SubSeq(s, 1, h) \in Seq(U) /\ Len(SubSeq(s, 1, h)) = h
    BY <1>2, <1>3, <1>4
  <2>2. \A i \in 1 .. h : SubSeq(s, 1, h)[i] = s[i]
    BY <1>2, <1>3, <1>4
  <2>3. QED
    BY <1>2, <1>3, <2>1, <2>2, SameSeq
<1>9. SubSeq(s, h + 2, Len(s)) = rest
  <2>1. /\ SubSeq(s, h + 2, Len(s)) \in Seq(U) /\ Len(SubSeq(s, h + 2, Len(s))) = Len(rest)
        /\ \A i \in 1 .. Len(rest) : SubSeq(s, h + 2, Len(s))[i] = s[h + 1 + i]
    BY <1>2, <1>3, <1>4
  <2>2. QED
    BY <1>3, <2>1, SameSeq
<1>10. PICK end : end = h + 1
  OBVIOUS
<1>11. end - 1 = h /\ end + 1 = h + 2 /\ ends # {}
  BY <1>2, <1>6, <1>10
<1>12. SplitsAt(s, end, head, rest)
  BY <1>5, <1>7, <1>8, <1>9, <1>10, <1>11 DEF SplitsAt
<1>13. QED
  BY <1>1, <1>2, <1>10, <1>12

LEMMA HeadIsRead ==
    ASSUME NEW U, Blank \in U, NEW head \in Seq(U), NEW rest \in Seq(U), NoBlank(head),
           Len(head) < MaxHead
    PROVE  ReadHead(Opened(head, rest)) = Taken(head, rest)
<1>1. PICK s : s = Opened(head, rest)
  OBVIOUS
<1>2. PICK n : n = Len(head) + 1
  OBVIOUS
<1>3. SplitsAt(s, n, head, rest)
  BY <1>1, <1>2, OpenedSplits
<1>4. IsOpened(U, s, head, rest)
  BY <1>1, OpenedIs
<1>5. ~(n > MaxHead) /\ s # <<>>
  BY <1>2, <1>4, LimitsAssumption DEF IsOpened
<1>6. ReadHead(s) = Taken(SubSeq(s, 1, Min(HeadEnds(s)) - 1), SubSeq(s, Min(HeadEnds(s)) + 1, Len(s)))
  BY <1>3, <1>5 DEF ReadHead, SplitsAt
<1>7. ReadHead(s) = Taken(head, rest)
  BY <1>3, <1>6 DEF SplitsAt
<1>8. QED
  BY <1>1, <1>7

\* No blank, no head.
LEMMA HeadIsMissed ==
    ASSUME NEW U, NEW s \in Seq(U), NoBlank(s)
    PROVE  ~IsTaken(ReadHead(s)) /\ ReadHead(s) = (IF s = <<>> THEN Ended ELSE Failed)
<1>1. HeadEnds(s) = {}
  BY DEF HeadEnds, NoBlank
<1>2. ReadHead(s) = IF s = <<>> THEN Ended ELSE Failed
  BY <1>1 DEF ReadHead
<1>3. ~IsTaken(Ended) /\ ~IsTaken(Failed)
  BY DEF IsTaken, Ended, Failed
<1>4. QED
  BY <1>2, <1>3

\* A message that is cut off: within its head, or within the rest.
LEMMA CutOpened ==
    ASSUME NEW U, Blank \in U, NEW head \in Seq(U), NEW rest \in Seq(U), NoBlank(head),
           NEW i \in 1 .. Len(head) + Len(rest)
    PROVE  LET cut == SubSeq(Opened(head, rest), 1, i)
           IN  /\ i <= Len(head) => cut \in Seq(U) /\ NoBlank(cut) /\ Len(cut) = i
               /\ i > Len(head) => /\ i - Len(head) - 1 \in 0 .. Len(rest) - 1
                                   /\ cut = Opened(head, SubSeq(rest, 1, i - Len(head) - 1))
<1>1. PICK s : s = Opened(head, rest)
  OBVIOUS
<1>2. PICK h : h = Len(head) /\ h \in Nat
  OBVIOUS
<1>3. /\ s \in Seq(U) /\ Len(s) = h + 1 + Len(rest)
      /\ \A j \in 1 .. h : s[j] = head[j]
      /\ s[h + 1] = Blank /\ \A j \in 1 .. Len(rest) : s[h + 1 + j] = rest[j]
  <2>1. IsOpened(U, s, head, rest)
    BY <1>1, OpenedIs
  <2>2. QED
    BY <1>2, <2>1 DEF IsOpened
<1>4. Len(rest) \in Nat /\ i \in Nat /\ 1 <= i /\ i <= h + Len(rest)
  BY <1>2
<1>5. PICK cut : cut = SubSeq(s, 1, i)
  OBVIOUS
<1>6. cut \in Seq(U) /\ Len(cut) = i /\ \A j \in 1 .. i : cut[j] = s[j]
  <2>1. 1 <= i /\ i <= Len(s)
    BY <1>2, <1>3, <1>4
  <2>2. QED
    BY <1>3, <1>4, <1>5, <2>1
<1>7. ASSUME i <= h PROVE NoBlank(cut)
  <2>1. \A j \in 1 .. i : j \in 1 .. h
    BY <1>2, <1>4, <1>7
  <2>2. \A j \in 1 .. i : cut[j] = head[j] /\ head[j] # Blank
    BY <1>2, <1>3, <1>6, <2>1 DEF NoBlank
  <2>3. QED
    BY <1>6, <2>2 DEF NoBlank
<1>8. ASSUME i > h PROVE i - h - 1 \in 0 .. Len(rest) - 1 /\ cut = Opened(head, SubSeq(rest, 1, i - h - 1))
  <2>1. PICK k : k = i - h - 1
    OBVIOUS
  <2>2. k \in Nat /\ k <= Len(rest) - 1 /\ i = h + 1 + k
    BY <1>2, <1>4, <1>8, <2>1
  <2>3. PICK part : part = SubSeq(rest, 1, k)
    OBVIOUS
  <2>4. part \in Seq(U) /\ Len(part) = k /\ \A j \in 1 .. k : part[j] = rest[j]
    BY <1>4, <2>2, <2>3
  <2>5. /\ Opened(head, part) \in Seq(U) /\ Len(Opened(head, part)) = h + 1 + k
        /\ \A j \in 1 .. h : Opened(head, part)[j] = head[j]
        /\ Opened(head, part)[h + 1] = Blank
        /\ \A j \in 1 .. k : Opened(head, part)[h + 1 + j] = part[j]
    <3>1. IsOpened(U, Opened(head, part), head, part)
      BY <2>4, OpenedIs
    <3>2. QED
      BY <1>2, <2>4, <3>1 DEF IsOpened
  <2>6. \A j \in 1 .. i : j <= h \/ j = h + 1 \/ \E n \in 1 .. k : j = h + 1 + n
    <3>1. ASSUME NEW j \in 1 .. i, ~(j <= h), j # h + 1 PROVE \E n \in 1 .. k : j = h + 1 + n
      <4>1. PICK n : n = j - h - 1
        OBVIOUS
      <4>2. n \in 1 .. k /\ j = h + 1 + n
        BY <1>2, <1>4, <2>2, <3>1, <4>1
      <4>3. QED
        BY <4>2
    <3>2. QED
      BY <3>1
  <2>7. \A j \in 1 .. i : cut[j] = Opened(head, part)[j]
    <3>1. SUFFICES ASSUME NEW j \in 1 .. i PROVE cut[j] = Opened(head, part)[j]
      OBVIOUS
    <3>2. cut[j] = s[j]
      BY <1>6
    <3>3. CASE j <= h
      <4>1. j \in 1 .. h
        BY <1>2, <3>3
      <4>2. QED
        BY <1>3, <2>5, <3>2, <4>1
    <3>4. CASE j = h + 1
      BY <1>3, <2>5, <3>2, <3>4
    <3>5. ASSUME NEW n \in 1 .. k, j = h + 1 + n
          PROVE  cut[j] = Opened(head, part)[j]
      <4>1. n \in 1 .. Len(rest)
        BY <1>4, <2>2
      <4>2. QED
        BY <1>3, <2>4, <2>5, <3>2, <3>5, <4>1
    <3>6. QED
      BY <2>6, <3>3, <3>4, <3>5
  <2>8. cut = Opened(head, part)
    BY <1>6, <2>2, <2>5, <2>7, SameSeq
  <2>9. QED
    <3>1. i - h - 1 \in 0 .. Len(rest) - 1
      BY <1>4, <2>1, <2>2
    <3>2. QED
      BY <2>1, <2>3, <2>8, <3>1
<1>9. QED
  BY <1>1, <1>2, <1>5, <1>6, <1>7, <1>8

-----------------------------------------------------------------------------
\* Reading chunks, turn by turn.

TurnsOver(f, socket, n) ==
    f = [turns \in 0 .. n |->
            IF turns = 0 THEN Reading(<<>>, socket) ELSE NextChunk(f[turns - 1])]

LEMMA TurnsExist ==
    ASSUME NEW socket, NEW n \in Nat
    PROVE  \E f : TurnsOver(f, socket, n)
<1>1. SUFFICES ASSUME ~ \E f : TurnsOver(f, socket, n) PROVE FALSE
  OBVIOUS
<1>2. PICK bad : bad = {m \in Nat : ~ \E f : TurnsOver(f, socket, m)}
  OBVIOUS
<1>3. bad \in SUBSET Nat /\ bad # {}
  BY <1>1, <1>2
<1>4. PICK m \in bad : \A k \in bad : m <= k
  BY <1>3, LeastExists
<1>5. m \in Nat
  BY <1>3
<1>6. m # 0
  <2>1. PICK f : f = [turns \in 0 .. 0 |-> Reading(<<>>, socket)]
    OBVIOUS
  <2>2. f = [turns \in 0 .. 0 |-> IF turns = 0 THEN Reading(<<>>, socket) ELSE NextChunk(f[turns - 1])]
    BY <2>1
  <2>3. TurnsOver(f, socket, 0)
    BY <2>2 DEF TurnsOver
  <2>4. QED
    BY <1>2, <2>3
<1>7. PICK k \in Nat : m = k + 1
  BY <1>5, <1>6
<1>8. PICK f : TurnsOver(f, socket, k)
  <2>1. k \notin bad
    BY <1>4, <1>7
  <2>2. QED
    BY <1>2, <2>1
<1>9. \A turns \in 0 .. k :
          f[turns] = IF turns = 0 THEN Reading(<<>>, socket) ELSE NextChunk(f[turns - 1])
  BY <1>8 DEF TurnsOver
<1>10. PICK g : g = [turns \in 0 .. m |->
                        IF turns = 0 THEN Reading(<<>>, socket) ELSE NextChunk(f[turns - 1])]
  OBVIOUS
<1>11. \A turns \in 0 .. k : turns \in 0 .. m /\ g[turns] = f[turns]
  BY <1>7, <1>9, <1>10
<1>12. \A turns \in 0 .. m : turns # 0 => turns - 1 \in 0 .. k
  BY <1>7
<1>13. g = [turns \in 0 .. m |->
               IF turns = 0 THEN Reading(<<>>, socket) ELSE NextChunk(g[turns - 1])]
  BY <1>10, <1>11, <1>12
<1>14. TurnsOver(g, socket, m)
  BY <1>13 DEF TurnsOver
<1>15. QED
  BY <1>2, <1>14

\* The turns of read_chunked.
TurnsAre(f, socket) ==
    /\ f[0] = Reading(<<>>, socket)
    /\ \A k \in 1 .. Len(socket) + 1 : f[k] = NextChunk(f[k - 1])
    /\ ReadChunks(socket) = f[Len(socket) + 1].reading

LEMMA ChunksTakeTurns ==
    ASSUME NEW socket, Len(socket) \in Nat
    PROVE  \E f : TurnsAre(f, socket)
<1>1. PICK n : n = Len(socket) + 1 /\ n \in Nat
  OBVIOUS
<1>2. \E f : TurnsOver(f, socket, n)
  BY <1>1, TurnsExist
<1>3. PICK f : f = CHOOSE g : TurnsOver(g, socket, n)
  OBVIOUS
<1>4. TurnsOver(f, socket, n)
  BY <1>2, <1>3
<1>5. ReadChunks(socket) = f[n].reading
  <2>1. f = CHOOSE g : g = [turns \in 0 .. Len(socket) + 1 |->
                 IF turns = 0 THEN Reading(<<>>, socket) ELSE NextChunk(g[turns - 1])]
    BY <1>1, <1>3 DEF TurnsOver
  <2>2. QED
    BY <1>1, <2>1 DEF ReadChunks
<1>6. /\ f[0] = Reading(<<>>, socket)
      /\ \A k \in 1 .. n : f[k] = NextChunk(f[k - 1])
  BY <1>1, <1>4 DEF TurnsOver
<1>7. TurnsAre(f, socket)
  BY <1>1, <1>5, <1>6 DEF TurnsAre
<1>8. QED
  BY <1>7

-----------------------------------------------------------------------------
\* One turn.

LEMMA DoneStays ==
    ASSUME NEW reading
    PROVE  NextChunk(Returned(reading)) = Returned(reading)
<1>1. Returned(reading).done
  BY DEF Returned
<1>2. QED
  BY <1>1 DEF NextChunk

LEMMA AtTheEnd ==
    ASSUME NEW body
    PROVE  NextChunk(Reading(body, <<>>)) = Returned(Failed)
<1>1. PICK s : s = Reading(body, <<>>)
  OBVIOUS
<1>2. ~s.done /\ s.reading.left = <<>>
  BY <1>1 DEF Reading, Taken
<1>3. NextChunk(s) = Returned(Failed)
  BY <1>2 DEF NextChunk
<1>4. QED
  BY <1>1, <1>3

LEMMA BytesTaken ==
    ASSUME NEW U, NEW socket \in Seq(U), NEW n \in Nat,
           \A j \in 1 .. Len(socket) : j <= n => socket[j].token = "byte"
    PROVE  TakeBytes(socket, n) =
               IF n <= Len(socket)
               THEN Taken(SubSeq(socket, 1, n), SubSeq(socket, n + 1, Len(socket)))
               ELSE Failed
<1>1. ASSUME n <= Len(socket) PROVE IsBytes(SubSeq(socket, 1, n))
  <2>1. PICK part : part = SubSeq(socket, 1, n)
    OBVIOUS
  <2>2. part \in Seq(U) /\ Len(part) = n /\ \A j \in 1 .. n : part[j] = socket[j]
    BY <1>1, <2>1
  <2>3. \A j \in 1 .. n : j \in 1 .. Len(socket) /\ j <= n
    BY <1>1
  <2>4. QED
    BY <2>1, <2>2, <2>3 DEF IsBytes
<1>2. QED
  BY <1>1 DEF TakeBytes

LEMMA LastTurn ==
    ASSUME NEW U, NEW left \in Seq(U), left # <<>>, left[1] = Size(0), NEW body
    PROVE  NextChunk(Reading(body, left)) = Returned(Taken(body, AfterTrailer(Tail(left))))
<1>1. PICK s : s = Reading(body, left)
  OBVIOUS
<1>2. ~s.done /\ s.reading.left = left /\ s.reading.result = body
  BY <1>1 DEF Reading, Taken
<1>3. Head(left) = Size(0)
  OBVIOUS
<1>4. Head(left).token = "size" /\ Head(left).size = 0
  BY <1>3 DEF Size
<1>5. NextChunk(s) = Returned(Taken(body, AfterTrailer(Tail(left))))
  BY <1>2, <1>4 DEF NextChunk
<1>6. QED
  BY <1>1, <1>5

ChunkTaken(body, left, n) ==
    NextChunk(Reading(body, left)) =
        IF n + 2 <= Len(left)
        THEN Reading(body \o SubSeq(left, 2, n + 1), SubSeq(left, n + 3, Len(left)))
        ELSE Returned(Failed)

LEMMA OneTurn ==
    ASSUME NEW U, NEW left \in Seq(U), left # <<>>, NEW n \in Nat, n # 0, left[1] = Size(n),
           NEW body \in Seq(U), Len(body) + n <= MaxBody,
           \A j \in 1 .. n : j + 1 <= Len(left) => left[j + 1].token = "byte",
           n + 2 <= Len(left) => left[n + 2] = Blank
    PROVE  ChunkTaken(body, left, n)
<1>1. PICK s : s = Reading(body, left)
  OBVIOUS
<1>2. ~s.done /\ s.reading.left = left /\ s.reading.result = body
  BY <1>1 DEF Reading, Taken
<1>3. Head(left) = Size(n)
  OBVIOUS
<1>4. Head(left).token = "size" /\ Head(left).size = n
  BY <1>3 DEF Size
<1>5. PICK rest : rest = Tail(left)
  OBVIOUS
<1>6. PICK l : l = Len(left) /\ l \in Nat /\ l # 0
  OBVIOUS
<1>7. rest \in Seq(U) /\ Len(rest) = l - 1 /\ \A j \in 1 .. l - 1 : rest[j] = left[j + 1]
  BY <1>5, <1>6
<1>8. TakeBytes(rest, n) = IF n <= Len(rest) THEN Taken(SubSeq(rest, 1, n), SubSeq(rest, n + 1, Len(rest)))
                           ELSE Failed
  <2>1. \A j \in 1 .. Len(rest) : j <= n => rest[j].token = "byte"
    <3>1. \A j \in 1 .. Len(rest) : j <= n => j \in 1 .. n /\ j + 1 <= Len(left) /\ rest[j] = left[j + 1]
      BY <1>6, <1>7
    <3>2. QED
      BY <3>1
  <2>2. QED
    BY <1>7, <2>1, BytesTaken
<1>9. PICK chunk : chunk = TakeBytes(rest, n)
  OBVIOUS
<1>10. CASE n + 2 <= l
  <2>1. n <= Len(rest)
    BY <1>6, <1>7, <1>10
  <2>2. PICK a, b : a = SubSeq(rest, 1, n) /\ b = SubSeq(rest, n + 1, Len(rest))
    OBVIOUS
  <2>3. chunk = Taken(a, b)
    BY <1>8, <1>9, <2>1, <2>2
  <2>4. IsTaken(chunk) /\ chunk.result = a /\ chunk.left = b
    BY <2>3 DEF IsTaken, Taken
  <2>5. /\ b \in Seq(U) /\ Len(b) = l - 1 - n /\ \A j \in 1 .. l - 1 - n : b[j] = rest[n + j]
        /\ a \in Seq(U) /\ Len(a) = n /\ \A j \in 1 .. n : a[j] = rest[j]
    BY <1>6, <1>7, <1>10, <2>2
  <2>6. b # <<>> /\ Head(b) = Blank
    <3>1. Len(b) # 0 /\ 1 \in 1 .. l - 1 - n
      BY <1>6, <1>10, <2>5
    <3>2. b[1] = rest[n + 1]
      BY <2>5, <3>1
    <3>3. n + 1 \in 1 .. l - 1
      BY <1>6, <1>10
    <3>4. rest[n + 1] = left[n + 1 + 1]
      BY <1>7, <3>3
    <3>5. n + 1 + 1 = n + 2
      OBVIOUS
    <3>6. b[1] = Blank
      BY <1>6, <1>10, <3>2, <3>4, <3>5
    <3>7. QED
      BY <2>5, <3>1, <3>6
  <2>7. NextChunk(s) = Reading(body \o a, Tail(b))
    BY <1>2, <1>4, <1>5, <1>9, <2>4, <2>6 DEF NextChunk
  <2>8. a = SubSeq(left, 2, n + 1)
    <3>1. /\ SubSeq(left, 2, n + 1) \in Seq(U) /\ Len(SubSeq(left, 2, n + 1)) = n
          /\ \A j \in 1 .. n : SubSeq(left, 2, n + 1)[j] = left[j + 1]
      BY <1>6, <1>10
    <3>2. \A j \in 1 .. n : j \in 1 .. l - 1
      BY <1>6, <1>10
    <3>3. \A j \in 1 .. n : a[j] = left[j + 1]
      BY <1>7, <2>5, <3>2
    <3>4. QED
      BY <2>5, <3>1, <3>3, SameSeq
  <2>9. Tail(b) = SubSeq(left, n + 3, l)
    <3> DEFINE k == l - 2 - n
    <3>0. k \in Nat /\ l - 1 - n = k + 1 /\ l = n + 2 + k
      BY <1>6, <1>10
    <3> HIDE DEF k
    <3>1. /\ Tail(b) \in Seq(U) /\ Len(Tail(b)) = k
          /\ \A j \in 1 .. k : Tail(b)[j] = b[j + 1]
      <4>1. Len(b) = k + 1
        BY <2>5, <3>0
      <4>2. QED
        BY <2>5, <2>6, <3>0, <4>1
    <3>2. /\ SubSeq(left, n + 3, l) \in Seq(U) /\ Len(SubSeq(left, n + 3, l)) = k
          /\ \A j \in 1 .. k : SubSeq(left, n + 3, l)[j] = left[n + 2 + j]
      <4>1. Len(left) = n + 2 + k /\ n + 3 \in Nat
        BY <1>6, <3>0
      <4>2. QED
        BY <1>6, <3>0, <4>1
    <3>3. ASSUME NEW j \in 1 .. k PROVE Tail(b)[j] = left[n + 2 + j]
      <4>1. j + 1 \in 1 .. l - 1 - n /\ n + (j + 1) \in 1 .. l - 1
        BY <1>6, <3>0
      <4>2. Tail(b)[j] = rest[n + (j + 1)]
        BY <2>5, <3>1, <4>1
      <4>3. rest[n + (j + 1)] = left[n + (j + 1) + 1]
        BY <1>7, <4>1
      <4>4. n + (j + 1) + 1 = n + 2 + j
        BY <1>6
      <4>5. QED
        BY <4>2, <4>3, <4>4
    <3>4. QED
      BY <3>1, <3>2, <3>3, SameSeq
  <2>10. QED
    BY <1>1, <1>6, <1>10, <2>7, <2>8, <2>9 DEF ChunkTaken
<1>11. CASE ~(n + 2 <= l)
  <2>1. ~(IsTaken(chunk) /\ chunk.left # <<>>)
    <3>1. CASE n <= Len(rest)
      <4>1. n = Len(rest)
        BY <1>6, <1>7, <1>11, <3>1
      <4>2. PICK b : b = SubSeq(rest, n + 1, Len(rest))
        OBVIOUS
      <4>3. b = <<>>
        BY <1>7, <4>1, <4>2
      <4>4. chunk.left = b
        BY <1>8, <1>9, <3>1, <4>2 DEF Taken
      <4>5. QED
        BY <4>3, <4>4
    <3>2. CASE ~(n <= Len(rest))
      <4>1. chunk = Failed
        BY <1>8, <1>9, <3>2
      <4>2. QED
        BY <4>1 DEF IsTaken, Failed
    <3>3. QED
      BY <3>1, <3>2
  <2>2. NextChunk(s) = Returned(Failed)
    BY <1>2, <1>4, <1>5, <1>9, <2>1 DEF NextChunk
  <2>3. QED
    BY <1>1, <1>6, <1>11, <2>2 DEF ChunkTaken
<1>12. QED
  BY <1>10, <1>11

-----------------------------------------------------------------------------
\* A body in chunks.

EndOf(ends, k) == IF k = 0 THEN 0 ELSE ends[k]
PlaceOf(ends, k) == EndOf(ends, k) + 2 * k

\* Where the chunks of n bytes end.
CutsUp(ends, n) ==
    /\ ends \in Seq(Nat)
    /\ \A i \in 1 .. Len(ends) : 1 <= ends[i] /\ ends[i] <= n
    /\ \A i, j \in 1 .. Len(ends) : i < j => ends[i] < ends[j]
    /\ EndOf(ends, Len(ends)) = n

LEMMA CutsAre ==
    ASSUME NEW U, NEW body \in Seq(U), NEW ends \in Cuts(body)
    PROVE  CutsUp(ends, Len(body))
<1>1. PICK n : n = Len(body) /\ n \in Nat
  OBVIOUS
<1>2. PICK m \in 0 .. n : ends \in [1 .. m -> 1 .. n]
  BY <1>1 DEF Cuts
<1>3. /\ \A i, j \in DOMAIN ends : i < j => ends[i] < ends[j]
      /\ body # <<>> => ends # <<>> /\ ends[Len(ends)] = n
  BY <1>1 DEF Cuts
<1>4. m \in Nat /\ ends \in Seq(Nat) /\ Len(ends) = m /\ DOMAIN ends = 1 .. m
  <2>1. m \in Nat
    BY <1>1, <1>2
  <2>2. ends \in [1 .. m -> Nat]
    BY <1>1, <1>2
  <2>3. QED
    BY <2>1, <2>2
<1>5. \A i \in 1 .. m : 1 <= ends[i] /\ ends[i] <= n
  BY <1>1, <1>2
<1>6. EndOf(ends, m) = n
  <2>1. CASE n = 0
    BY <1>1, <1>2, <2>1 DEF EndOf
  <2>2. CASE n # 0
    <3>1. body # <<>>
      BY <1>1, <2>2
    <3>2. m # 0 /\ ends[m] = n
      BY <1>3, <1>4, <3>1
    <3>3. QED
      BY <3>2 DEF EndOf
  <2>3. QED
    BY <2>1, <2>2
<1>7. QED
  BY <1>1, <1>3, <1>4, <1>5, <1>6 DEF CutsUp

Steps(ends, k) ==
    /\ EndOf(ends, k) \in Nat /\ EndOf(ends, k - 1) \in Nat
    /\ EndOf(ends, k - 1) < EndOf(ends, k)
    /\ PlaceOf(ends, k) \in Nat /\ PlaceOf(ends, k - 1) \in Nat
    /\ PlaceOf(ends, k) = PlaceOf(ends, k - 1) + 2 + (EndOf(ends, k) - EndOf(ends, k - 1))

LEMMA CutsStep ==
    ASSUME NEW n \in Nat, NEW ends, CutsUp(ends, n), NEW k \in 1 .. Len(ends)
    PROVE  Steps(ends, k) /\ EndOf(ends, k) <= n
<1>1. Len(ends) \in Nat /\ k \in Nat /\ k # 0
  BY DEF CutsUp
<1>2. ends[k] \in Nat /\ 1 <= ends[k] /\ ends[k] <= n
  BY <1>1 DEF CutsUp
<1>3. EndOf(ends, k) = ends[k]
  BY <1>1 DEF EndOf
<1>4. EndOf(ends, k - 1) \in Nat /\ EndOf(ends, k - 1) < ends[k]
  <2>1. CASE k = 1
    BY <1>2, <2>1 DEF EndOf
  <2>2. CASE k # 1
    <3>1. k - 1 \in 1 .. Len(ends) /\ k - 1 < k /\ k - 1 # 0
      BY <1>1, <2>2
    <3>2. ends[k - 1] < ends[k] /\ ends[k - 1] \in Nat
      BY <3>1 DEF CutsUp
    <3>3. QED
      BY <3>1, <3>2 DEF EndOf
  <2>3. QED
    BY <2>1, <2>2
<1>5. PICK a, b : a = EndOf(ends, k - 1) /\ b = EndOf(ends, k)
  OBVIOUS
<1>6. a \in Nat /\ b \in Nat /\ a < b /\ b <= n
  BY <1>2, <1>3, <1>4, <1>5
<1>7. PlaceOf(ends, k) = b + 2 * k /\ PlaceOf(ends, k - 1) = a + 2 * (k - 1)
  BY <1>5 DEF PlaceOf
<1>8. /\ b + 2 * k \in Nat /\ a + 2 * (k - 1) \in Nat /\ b + 2 * k = a + 2 * (k - 1) + 2 + (b - a)
  BY <1>1, <1>6
<1>9. QED
  BY <1>5, <1>6, <1>7, <1>8 DEF Steps

LEMMA PlacesGrow ==
    ASSUME NEW n \in Nat, NEW ends, CutsUp(ends, n), NEW i \in 1 .. Len(ends), NEW k \in 1 .. Len(ends),
           i < k
    PROVE  PlaceOf(ends, i) <= PlaceOf(ends, k - 1)
<1>1. Len(ends) \in Nat /\ i \in Nat /\ k \in Nat /\ i <= k - 1 /\ k - 1 \in 1 .. Len(ends)
  BY DEF CutsUp
<1>2. ends[i] \in Nat /\ ends[k - 1] \in Nat
  BY <1>1 DEF CutsUp
<1>3. ends[i] <= ends[k - 1]
  <2>1. CASE i = k - 1
    BY <1>2, <2>1
  <2>2. CASE i # k - 1
    <3>1. i < k - 1
      BY <1>1, <2>2
    <3>2. ends[i] < ends[k - 1]
      BY <1>1, <3>1 DEF CutsUp
    <3>3. QED
      BY <1>2, <3>2
  <2>3. QED
    BY <2>1, <2>2
<1>4. PlaceOf(ends, i) = ends[i] + 2 * i /\ PlaceOf(ends, k - 1) = ends[k - 1] + 2 * (k - 1)
  BY <1>1 DEF PlaceOf, EndOf
<1>5. PICK a, b : a = ends[i] /\ b = ends[k - 1]
  OBVIOUS
<1>6. a + 2 * i <= b + 2 * (k - 1)
  BY <1>1, <1>2, <1>3, <1>5
<1>7. QED
  BY <1>4, <1>5, <1>6

\* Each chunk, as far as the tokens go: its size, its bytes, a blank.
LaidOut(tokens, body, ends) ==
    \A k \in 1 .. Len(ends) :
        LET from == EndOf(ends, k - 1)
            size == EndOf(ends, k) - from
            start == PlaceOf(ends, k - 1)
        IN  /\ start + 1 <= Len(tokens) => tokens[start + 1] = Size(size)
            /\ \A j \in 1 .. size : start + 1 + j <= Len(tokens) =>
                   tokens[start + 1 + j] = body[from + j]
            /\ start + 2 + size <= Len(tokens) => tokens[start + 2 + size] = Blank

PieceAt(body, ends, k, p) ==
    LET from == EndOf(ends, k - 1)
        at == p - from - 2 * (k - 1)
    IN  CASE at = 1 -> Size(ends[k] - from)
          [] at # 1 /\ p # ends[k] + 2 * k -> body[from + at - 1]
          [] OTHER -> Blank

LEMMA PieceIs ==
    ASSUME NEW U, NEW body \in Seq(U), NEW ends, CutsUp(ends, Len(body)), NEW k \in 1 .. Len(ends),
           NEW p \in Nat, PlaceOf(ends, k - 1) < p, p <= PlaceOf(ends, k),
           p \in 1 .. Len(body) + 2 * Len(ends)
    PROVE  Pieces(body, ends)[p] = PieceAt(body, ends, k, p)
<1>1. Len(body) \in Nat /\ Len(ends) \in Nat /\ k \in Nat /\ k # 0 /\ DOMAIN ends = 1 .. Len(ends)
  BY DEF CutsUp
<1>2. PICK set : set = {i \in DOMAIN ends : p <= ends[i] + 2 * i}
  OBVIOUS
<1>3. set \in SUBSET Nat
  BY <1>1, <1>2
<1>4. \A i \in 1 .. Len(ends) : PlaceOf(ends, i) = ends[i] + 2 * i
  BY <1>1 DEF PlaceOf, EndOf
<1>5. k \in set
  BY <1>1, <1>2, <1>4
<1>6. \A i \in set : k <= i
  <2>1. SUFFICES ASSUME NEW i \in set, i < k PROVE FALSE
    BY <1>1, <1>3
  <2>2. i \in 1 .. Len(ends) /\ p <= PlaceOf(ends, i)
    BY <1>1, <1>2, <1>4
  <2>3. PlaceOf(ends, i) <= PlaceOf(ends, k - 1)
    BY <1>1, <2>1, <2>2, PlacesGrow
  <2>4. PlaceOf(ends, k - 1) \in Nat
    BY <1>1, CutsStep DEF Steps
  <2>5. PlaceOf(ends, i) \in Nat
    BY <1>1, <2>2, CutsStep DEF Steps
  <2>6. QED
    BY <2>2, <2>3, <2>4, <2>5
<1>7. Min(set) = k
  BY <1>3, <1>5, <1>6, MinIsThis
<1>8. EndOf(ends, k - 1) = IF k = 1 THEN 0 ELSE ends[k - 1]
  BY <1>1 DEF EndOf
<1>9. QED
  BY <1>2, <1>7, <1>8 DEF Pieces, PieceAt

Tokened(U) == Blank \in U /\ \A n \in Nat : Size(n) \in U

LEMMA PiecesPlaced ==
    ASSUME NEW U, NEW body \in Seq(U), NEW ends, CutsUp(ends, Len(body)), NEW k \in 1 .. Len(ends)
    PROVE  LET from == EndOf(ends, k - 1)
               size == EndOf(ends, k) - from
               start == PlaceOf(ends, k - 1)
               tokens == Pieces(body, ends)
           IN  /\ tokens[start + 1] = Size(size)
               /\ \A j \in 1 .. size : tokens[start + 1 + j] = body[from + j]
               /\ tokens[start + 2 + size] = Blank
<1>1. PICK a, b, s : a = EndOf(ends, k - 1) /\ b = EndOf(ends, k) /\ s = PlaceOf(ends, k - 1)
  OBVIOUS
<1>2. Len(body) \in Nat /\ Len(ends) \in Nat /\ k \in Nat /\ k # 0 /\ k <= Len(ends)
  BY DEF CutsUp
<1>3. /\ a \in Nat /\ b \in Nat /\ a < b /\ s \in Nat /\ b <= Len(body)
      /\ PlaceOf(ends, k) = s + 2 + (b - a)
  BY <1>1, <1>2, CutsStep DEF Steps
<1>4. s = a + 2 * (k - 1) /\ b = ends[k]
  BY <1>1, <1>2 DEF PlaceOf, EndOf
<1>5. PlaceOf(ends, k) = b + 2 * k
  BY <1>1 DEF PlaceOf
<1>6. ASSUME NEW p \in Nat, s < p, p <= s + 2 + (b - a)
      PROVE  Pieces(body, ends)[p] = PieceAt(body, ends, k, p)
  <2>1. p \in 1 .. Len(body) + 2 * Len(ends)
    BY <1>2, <1>3, <1>4, <1>6
  <2>2. QED
    BY <1>1, <1>2, <1>3, <1>6, <2>1, PieceIs
<1>7. ASSUME NEW p \in Nat
      PROVE  PieceAt(body, ends, k, p) =
                 CASE p - a - 2 * (k - 1) = 1 -> Size(b - a)
                   [] p - a - 2 * (k - 1) # 1 /\ p # b + 2 * k -> body[a + (p - a - 2 * (k - 1)) - 1]
                   [] OTHER -> Blank
  BY <1>1, <1>4 DEF PieceAt
<1>8. Pieces(body, ends)[s + 1] = Size(b - a)
  <2>1. PICK p : p = s + 1
    OBVIOUS
  <2>2. p \in Nat /\ s < p /\ p <= s + 2 + (b - a) /\ p - a - 2 * (k - 1) = 1
    BY <1>2, <1>3, <1>4, <2>1
  <2>3. PieceAt(body, ends, k, p) = Size(b - a)
    BY <1>7, <2>2
  <2>4. QED
    BY <1>6, <2>1, <2>2, <2>3
<1>9. ASSUME NEW j \in 1 .. b - a PROVE Pieces(body, ends)[s + 1 + j] = body[a + j]
  <2>1. PICK p : p = s + 1 + j
    OBVIOUS
  <2>2. /\ p \in Nat /\ s < p /\ p <= s + 2 + (b - a)
        /\ p - a - 2 * (k - 1) = j + 1 /\ j + 1 # 1 /\ p # b + 2 * k /\ a + (j + 1) - 1 = a + j
    BY <1>2, <1>3, <1>4, <2>1
  <2>3. PieceAt(body, ends, k, p) = body[a + j]
    BY <1>7, <2>2
  <2>4. QED
    BY <1>6, <2>1, <2>2, <2>3
<1>10. Pieces(body, ends)[s + 2 + (b - a)] = Blank
  <2>1. PICK p : p = s + 2 + (b - a)
    OBVIOUS
  <2>2. p \in Nat /\ s < p /\ p <= s + 2 + (b - a) /\ p - a - 2 * (k - 1) # 1 /\ p = b + 2 * k
    BY <1>2, <1>3, <1>4, <2>1
  <2>3. PieceAt(body, ends, k, p) = Blank
    BY <1>7, <2>2
  <2>4. QED
    BY <1>6, <2>1, <2>2, <2>3
<1>11. QED
  BY <1>1, <1>8, <1>9, <1>10

\* Every place is in a chunk.
LEMMA ChunkOf ==
    ASSUME NEW n \in Nat, NEW ends, CutsUp(ends, n), NEW p \in 1 .. n + 2 * Len(ends)
    PROVE  \E k \in 1 .. Len(ends) : PlaceOf(ends, k - 1) < p /\ p <= PlaceOf(ends, k)
<1>1. Len(ends) \in Nat /\ p \in Nat
  BY DEF CutsUp
<1>2. PICK set : set = {i \in Nat : i <= Len(ends) /\ p <= PlaceOf(ends, i)}
  OBVIOUS
<1>3. Len(ends) \in set
  <2>1. PlaceOf(ends, Len(ends)) = n + 2 * Len(ends)
    BY DEF CutsUp, PlaceOf
  <2>2. QED
    BY <1>1, <1>2, <2>1
<1>4. PICK k \in set : \A i \in set : k <= i
  BY <1>2, <1>3, LeastExists
<1>5. k \in Nat /\ k <= Len(ends) /\ p <= PlaceOf(ends, k)
  BY <1>2, <1>4
<1>6. k # 0
  <2>1. PlaceOf(ends, 0) = 0
    BY DEF PlaceOf, EndOf
  <2>2. QED
    BY <1>1, <1>5, <2>1
<1>7. k - 1 \in Nat /\ k - 1 <= Len(ends) /\ k \in 1 .. Len(ends)
  BY <1>1, <1>5, <1>6
<1>8. k - 1 \notin set
  BY <1>4, <1>7
<1>9. PlaceOf(ends, k - 1) \in Nat
  BY <1>7, CutsStep DEF Steps
<1>10. PlaceOf(ends, k - 1) < p
  BY <1>1, <1>2, <1>7, <1>8, <1>9
<1>11. QED
  BY <1>5, <1>7, <1>10

LEMMA PiecesAre ==
    ASSUME NEW U, Tokened(U), NEW body \in Seq(U), NEW ends, CutsUp(ends, Len(body))
    PROVE  /\ Pieces(body, ends) \in Seq(U)
           /\ Len(Pieces(body, ends)) = PlaceOf(ends, Len(ends))
           /\ LaidOut(Pieces(body, ends), body, ends)
           /\ Len(ends) <= PlaceOf(ends, Len(ends)) /\ PlaceOf(ends, Len(ends)) \in Nat
<1>1. PICK n : n = Len(body) + 2 * Len(ends)
  OBVIOUS
<1>2. Len(body) \in Nat /\ Len(ends) \in Nat /\ n \in Nat /\ PlaceOf(ends, Len(ends)) = n
      /\ Len(ends) <= n
  BY <1>1 DEF CutsUp, PlaceOf
<1>3. PICK tokens : tokens = Pieces(body, ends)
  OBVIOUS
<1>4. tokens = [p \in 1 .. n |-> tokens[p]]
  BY <1>1, <1>3 DEF Pieces
<1>5. \A k \in 1 .. Len(ends) :
          /\ tokens[PlaceOf(ends, k - 1) + 1] = Size(EndOf(ends, k) - EndOf(ends, k - 1))
          /\ \A j \in 1 .. EndOf(ends, k) - EndOf(ends, k - 1) :
                 tokens[PlaceOf(ends, k - 1) + 1 + j] = body[EndOf(ends, k - 1) + j]
          /\ tokens[PlaceOf(ends, k - 1) + 2 + (EndOf(ends, k) - EndOf(ends, k - 1))] = Blank
  BY <1>3, PiecesPlaced
<1>6. ASSUME NEW p \in 1 .. n PROVE tokens[p] \in U
  <2>1. PICK k \in 1 .. Len(ends) : PlaceOf(ends, k - 1) < p /\ p <= PlaceOf(ends, k)
    BY <1>1, <1>2, ChunkOf
  <2>2. PICK a, b, s : a = EndOf(ends, k - 1) /\ b = EndOf(ends, k) /\ s = PlaceOf(ends, k - 1)
    OBVIOUS
  <2>3. /\ a \in Nat /\ b \in Nat /\ a < b /\ s \in Nat /\ b <= Len(body)
        /\ PlaceOf(ends, k) = s + 2 + (b - a)
    BY <1>2, <2>2, CutsStep DEF Steps
  <2>4. /\ tokens[s + 1] = Size(b - a) /\ tokens[s + 2 + (b - a)] = Blank
        /\ \A j \in 1 .. b - a : tokens[s + 1 + j] = body[a + j]
    BY <1>5, <2>2
  <2>5. p \in Nat /\ s < p /\ p <= s + 2 + (b - a)
    BY <1>2, <2>1, <2>2, <2>3
  <2>6. CASE p = s + 1
    <3>1. b - a \in Nat
      BY <2>3
    <3>2. QED
      BY <2>4, <2>6, <3>1 DEF Tokened
  <2>7. CASE p = s + 2 + (b - a)
    BY <2>4, <2>7 DEF Tokened
  <2>8. CASE p # s + 1 /\ p # s + 2 + (b - a)
    <3>1. PICK j : j = p - s - 1
      OBVIOUS
    <3>2. j \in 1 .. b - a /\ p = s + 1 + j /\ a + j \in 1 .. Len(body)
      BY <1>2, <2>3, <2>5, <2>8, <3>1
    <3>3. QED
      BY <2>4, <3>2
  <2>9. QED
    BY <2>6, <2>7, <2>8
<1>7. tokens \in Seq(U) /\ Len(tokens) = n
  BY <1>2, <1>4, <1>6
<1>8. LaidOut(tokens, body, ends)
  BY <1>5 DEF LaidOut
<1>9. QED
  BY <1>2, <1>3, <1>7, <1>8

\* So are its beginnings, and what it is the beginning of.
LEMMA LaidOutAlike ==
    ASSUME NEW tokens, NEW others, NEW body, NEW n \in Nat, NEW ends, CutsUp(ends, n),
           LaidOut(tokens, body, ends), Len(tokens) \in Nat, Len(others) \in Nat,
           PlaceOf(ends, Len(ends)) <= Len(tokens),
           \A p \in 1 .. Len(others) : p <= PlaceOf(ends, Len(ends)) => others[p] = tokens[p]
    PROVE  LaidOut(others, body, ends)
<1>1. SUFFICES ASSUME NEW k \in 1 .. Len(ends)
               PROVE  LET from == EndOf(ends, k - 1)
                          size == EndOf(ends, k) - from
                          start == PlaceOf(ends, k - 1)
                      IN  /\ start + 1 <= Len(others) => others[start + 1] = Size(size)
                          /\ \A j \in 1 .. size : start + 1 + j <= Len(others) =>
                                 others[start + 1 + j] = body[from + j]
                          /\ start + 2 + size <= Len(others) => others[start + 2 + size] = Blank
  BY DEF LaidOut
<1>2. PICK a, b, s : a = EndOf(ends, k - 1) /\ b = EndOf(ends, k) /\ s = PlaceOf(ends, k - 1)
  OBVIOUS
<1>3. /\ a \in Nat /\ b \in Nat /\ a < b /\ s \in Nat
      /\ PlaceOf(ends, k) = s + 2 + (b - a)
  BY <1>2, CutsStep DEF Steps
<1>4. /\ s + 1 <= Len(tokens) => tokens[s + 1] = Size(b - a)
      /\ \A j \in 1 .. b - a : s + 1 + j <= Len(tokens) => tokens[s + 1 + j] = body[a + j]
      /\ s + 2 + (b - a) <= Len(tokens) => tokens[s + 2 + (b - a)] = Blank
  BY <1>2 DEF LaidOut
<1>5. Len(ends) \in Nat /\ k \in Nat /\ k <= Len(ends)
  BY DEF CutsUp
<1>6. PICK most : most = PlaceOf(ends, Len(ends)) /\ most \in Nat
  <2>1. Len(ends) \in 1 .. Len(ends)
    BY <1>5
  <2>2. QED
    BY <2>1, CutsStep DEF Steps
<1>7. s + 2 + (b - a) <= most
  <2>1. CASE k = Len(ends)
    BY <1>3, <1>6, <2>1
  <2>2. CASE k # Len(ends)
    <3>1. k < Len(ends) /\ Len(ends) \in 1 .. Len(ends)
      BY <1>5, <2>2
    <3>2. PlaceOf(ends, k) <= PlaceOf(ends, Len(ends) - 1)
      BY <3>1, PlacesGrow
    <3>3. /\ PlaceOf(ends, Len(ends) - 1) \in Nat
          /\ PlaceOf(ends, Len(ends) - 1) <= PlaceOf(ends, Len(ends))
      <4>1. Steps(ends, Len(ends))
        BY <3>1, CutsStep
      <4>2. QED
        BY <4>1 DEF Steps
    <3>4. QED
      BY <1>3, <1>6, <3>2, <3>3
  <2>3. QED
    BY <2>1, <2>2
<1>8. ASSUME NEW p \in Nat, s < p, p <= s + 2 + (b - a), p <= Len(others)
      PROVE  others[p] = tokens[p] /\ p <= Len(tokens)
  BY <1>3, <1>6, <1>7, <1>8
<1>9. s + 1 <= Len(others) => others[s + 1] = Size(b - a)
  BY <1>3, <1>4, <1>8
<1>10. ASSUME NEW j \in 1 .. b - a, s + 1 + j <= Len(others)
       PROVE  others[s + 1 + j] = body[a + j]
  <2>1. PICK p : p = s + 1 + j
    OBVIOUS
  <2>2. p \in Nat /\ s < p /\ p <= s + 2 + (b - a) /\ p <= Len(others)
    BY <1>3, <1>10, <2>1
  <2>3. others[p] = tokens[p] /\ p <= Len(tokens)
    BY <1>8, <2>2
  <2>4. QED
    BY <1>4, <2>1, <2>3
<1>11. s + 2 + (b - a) <= Len(others) => others[s + 2 + (b - a)] = Blank
  <2>1. PICK p : p = s + 2 + (b - a)
    OBVIOUS
  <2>2. p \in Nat /\ s < p /\ p <= s + 2 + (b - a)
    BY <1>3, <2>1
  <2>3. QED
    BY <1>4, <1>8, <2>1, <2>2
<1>12. QED
  BY <1>2, <1>9, <1>10, <1>11

\* What has been read after k turns, of chunks of which some may be missing.
AfterTurns(f, socket, body, ends, k) ==
    IF PlaceOf(ends, k) <= Len(socket)
    THEN f[k] = Reading(SubSeq(body, 1, EndOf(ends, k)),
                        SubSeq(socket, PlaceOf(ends, k) + 1, Len(socket)))
    ELSE f[k] = Returned(Failed)

IsPart(U, part, s, m, n) ==
    part \in Seq(U) /\ Len(part) = n - m /\ \A j \in 1 .. n - m : part[j] = s[m + j]

LEMMA PartIs ==
    ASSUME NEW U, NEW s \in Seq(U), NEW m \in Nat, NEW n \in Nat, m <= n, n <= Len(s)
    PROVE  IsPart(U, SubSeq(s, m + 1, n), s, m, n)
<1>1. PICK part : part = SubSeq(s, m + 1, n)
  OBVIOUS
<1>2. PICK k : k = n - m
  OBVIOUS
<1>3. k \in Nat /\ n = m + k
  BY <1>2
<1>4. part = [j \in 1 .. k |-> s[m + j]]
  <2>1. n - (m + 1) + 1 = k /\ \A j \in 1 .. k : j + (m + 1) - 1 = m + j
    BY <1>3
  <2>2. QED
    BY <1>1, <1>3, <2>1
<1>5. \A j \in 1 .. k : m + j \in 1 .. Len(s)
  BY <1>3
<1>6. part \in Seq(U) /\ Len(part) = k /\ \A j \in 1 .. k : part[j] = s[m + j]
  BY <1>3, <1>4, <1>5
<1>7. QED
  BY <1>1, <1>2, <1>6 DEF IsPart

ReadOn(body, a, b, socket, s) ==
    /\ SubSeq(body, 1, a) \o SubSeq(SubSeq(socket, s + 1, Len(socket)), 2, (b - a) + 1)
           = SubSeq(body, 1, b)
    /\ SubSeq(SubSeq(socket, s + 1, Len(socket)), (b - a) + 3, Len(socket) - s)
           = SubSeq(socket, s + 2 + (b - a) + 1, Len(socket))

LEMMA BodyGrows ==
    ASSUME NEW U, NEW body \in Seq(U), NEW a \in Nat, NEW b \in Nat, a < b, b <= Len(body),
           NEW s \in Nat, NEW socket \in Seq(U), s + 2 + (b - a) <= Len(socket),
           \A j \in 1 .. b - a : socket[s + 1 + j] = body[a + j]
    PROVE  ReadOn(body, a, b, socket, s)
<1>1. PICK l : l = Len(socket) /\ l \in Nat
  OBVIOUS
<1>2. PICK n : n = b - a
  OBVIOUS
<1>3. n \in Nat /\ n # 0 /\ b = a + n /\ s + 2 + n <= l
  BY <1>1, <1>2
<1>4. PICK left : left = SubSeq(socket, s + 1, l)
  OBVIOUS
<1>5. left \in Seq(U) /\ Len(left) = l - s /\ \A j \in 1 .. l - s : left[j] = socket[s + j]
  <2>1. s <= l
    BY <1>1, <1>3
  <2>2. IsPart(U, left, socket, s, l)
    BY <1>1, <1>4, <2>1, PartIs
  <2>3. QED
    BY <2>2 DEF IsPart
<1>6. PICK chunk : chunk = SubSeq(left, 2, n + 1)
  OBVIOUS
<1>7. chunk \in Seq(U) /\ Len(chunk) = n /\ \A j \in 1 .. n : chunk[j] = left[j + 1]
  <2>1. n + 1 <= Len(left) /\ n + 1 \in Nat
    BY <1>1, <1>3, <1>5
  <2>2. QED
    BY <1>3, <1>5, <1>6, <2>1
<1>8. \A j \in 1 .. n : chunk[j] = body[a + j]
  <2>1. SUFFICES ASSUME NEW j \in 1 .. n PROVE chunk[j] = body[a + j]
    OBVIOUS
  <2>2. j + 1 \in 1 .. l - s /\ s + (j + 1) = s + 1 + j
    BY <1>1, <1>3
  <2>3. left[j + 1] = socket[s + 1 + j]
    BY <1>5, <2>2
  <2>4. QED
    BY <1>2, <1>7, <2>3
<1>9. PICK so : so = SubSeq(body, 1, a)
  OBVIOUS
<1>10. so \in Seq(U) /\ Len(so) = a /\ \A j \in 1 .. a : so[j] = body[j]
  BY <1>3, <1>9
<1>11. PICK far : far = SubSeq(body, 1, b)
  OBVIOUS
<1>12. far \in Seq(U) /\ Len(far) = b /\ \A j \in 1 .. b : far[j] = body[j]
  BY <1>3, <1>11
<1>13. so \o chunk = far
  <2>1. so \o chunk \in Seq(U) /\ Len(so \o chunk) = b
    <3>1. Len(so) + Len(chunk) = b
      BY <1>3, <1>7, <1>10
    <3>2. so \in Seq(U) /\ chunk \in Seq(U)
      BY <1>7, <1>10
    <3>3. so \o chunk \in Seq(U) /\ Len(so \o chunk) = Len(so) + Len(chunk)
      BY <3>2
    <3>4. QED
      BY <3>1, <3>3
  <2>2. ASSUME NEW i \in 1 .. b PROVE (so \o chunk)[i] = body[i]
    <3>1. CASE i <= a
      <4>1. i \in 1 .. a
        BY <3>1
      <4>2. (so \o chunk)[i] = so[i]
        BY <1>7, <1>10, <4>1
      <4>3. QED
        BY <1>10, <4>1, <4>2
    <3>2. CASE ~(i <= a)
      <4>1. PICK j : j = i - a
        OBVIOUS
      <4>2. j \in 1 .. n /\ i = a + j
        BY <1>3, <3>2, <4>1
      <4>3. (so \o chunk)[i] = chunk[j]
        BY <1>7, <1>10, <4>2
      <4>4. QED
        BY <1>8, <4>2, <4>3
    <3>3. QED
      BY <3>1, <3>2
  <2>3. QED
    BY <1>12, <2>1, <2>2, SameSeq
<1>14. PICK r : r = l - s - n - 2
  OBVIOUS
<1>15. r \in Nat /\ l - s = n + 3 + r - 1 /\ l = s + 2 + n + 1 + r - 1
  BY <1>1, <1>3, <1>14
<1>16. PICK x : x = SubSeq(left, n + 3, l - s)
  OBVIOUS
<1>17. x \in Seq(U) /\ Len(x) = r /\ \A j \in 1 .. r : x[j] = left[n + 2 + j]
  <2>1. PICK from, to : from = n + 2 /\ to = l - s
    OBVIOUS
  <2>2. from \in Nat /\ to \in Nat /\ from <= to /\ to - from = r /\ from + 1 = n + 3
    BY <1>1, <1>3, <1>15, <2>1
  <2>3. left \in Seq(U) /\ to <= Len(left)
    BY <1>5, <2>1, <2>2
  <2>4. IsPart(U, SubSeq(left, from + 1, to), left, from, to)
    BY <2>2, <2>3, PartIs
  <2>5. IsPart(U, x, left, from, to)
    BY <1>16, <2>1, <2>2, <2>4
  <2>6. QED
    BY <2>1, <2>2, <2>5 DEF IsPart
<1>18. PICK y : y = SubSeq(socket, s + 2 + n + 1, l)
  OBVIOUS
<1>19. y \in Seq(U) /\ Len(y) = r /\ \A j \in 1 .. r : y[j] = socket[s + 2 + n + j]
  <2>1. PICK from : from = s + 2 + n
    OBVIOUS
  <2>2. from \in Nat /\ from <= l /\ l - from = r
    BY <1>1, <1>3, <1>15, <2>1
  <2>3. IsPart(U, y, socket, from, l)
    BY <1>1, <1>18, <2>1, <2>2, PartIs
  <2>4. QED
    BY <2>1, <2>2, <2>3 DEF IsPart
<1>20. \A j \in 1 .. r : x[j] = y[j]
  <2>1. SUFFICES ASSUME NEW j \in 1 .. r PROVE x[j] = y[j]
    OBVIOUS
  <2>2. n + 2 + j \in 1 .. l - s /\ s + (n + 2 + j) = s + 2 + n + j
    BY <1>1, <1>3, <1>15
  <2>3. left[n + 2 + j] = socket[s + 2 + n + j]
    BY <1>5, <2>2
  <2>4. QED
    BY <1>17, <1>19, <2>3
<1>21. x = y
  BY <1>17, <1>19, <1>20, SameSeq
<1>22. QED
  BY <1>1, <1>2, <1>4, <1>6, <1>9, <1>11, <1>13, <1>16, <1>18, <1>21 DEF ReadOn

Bytes(body) == \A i \in 1 .. Len(body) : body[i].token = "byte"

LEMMA NextTurn ==
    ASSUME NEW U, NEW body \in Seq(U), Bytes(body), Len(body) <= MaxBody,
           NEW ends, CutsUp(ends, Len(body)), NEW socket \in Seq(U), LaidOut(socket, body, ends),
           NEW f, TurnsAre(f, socket), NEW k \in 1 .. Len(ends), k <= Len(socket) + 1,
           AfterTurns(f, socket, body, ends, k - 1)
    PROVE  AfterTurns(f, socket, body, ends, k)
<1>1. PICK a, b, s : a = EndOf(ends, k - 1) /\ b = EndOf(ends, k) /\ s = PlaceOf(ends, k - 1)
  OBVIOUS
<1>2. PICK l : l = Len(socket) /\ l \in Nat
  OBVIOUS
<1>3. /\ a \in Nat /\ b \in Nat /\ a < b /\ s \in Nat /\ b <= Len(body)
      /\ PlaceOf(ends, k) = s + 2 + (b - a)
  BY <1>1, CutsStep DEF Steps
<1>4. /\ s + 1 <= l => socket[s + 1] = Size(b - a)
      /\ \A j \in 1 .. b - a : s + 1 + j <= l => socket[s + 1 + j] = body[a + j]
      /\ s + 2 + (b - a) <= l => socket[s + 2 + (b - a)] = Blank
  BY <1>1, <1>2 DEF LaidOut
<1>5. f[k] = NextChunk(f[k - 1])
  BY <1>2 DEF TurnsAre
<1>6. CASE ~(s <= l)
  <2>1. f[k - 1] = Returned(Failed)
    BY <1>1, <1>2, <1>6 DEF AfterTurns
  <2>2. f[k] = Returned(Failed)
    BY <1>5, <2>1, DoneStays
  <2>3. ~(PlaceOf(ends, k) <= l)
    BY <1>2, <1>3, <1>6
  <2>4. QED
    BY <1>2, <2>2, <2>3 DEF AfterTurns
<1>7. CASE s <= l
  <2>1. PICK so : so = SubSeq(body, 1, a)
    OBVIOUS
  <2>2. PICK left : left = SubSeq(socket, s + 1, l)
    OBVIOUS
  <2>3. f[k - 1] = Reading(so, left)
    BY <1>1, <1>2, <1>7, <2>1, <2>2 DEF AfterTurns
  <2>4. so \in Seq(U) /\ Len(so) = a
    BY <1>3, <2>1
  <2>5. left \in Seq(U) /\ Len(left) = l - s /\ \A j \in 1 .. l - s : left[j] = socket[s + j]
    <3>1. IsPart(U, left, socket, s, l)
      BY <1>2, <1>3, <1>7, <2>2, PartIs
    <3>2. QED
      BY <3>1 DEF IsPart
  <2>6. CASE s = l
    <3>1. left = <<>>
      BY <1>3, <2>5, <2>6
    <3>2. f[k] = Returned(Failed)
      BY <1>5, <2>3, <3>1, AtTheEnd
    <3>3. ~(PlaceOf(ends, k) <= l)
      BY <1>2, <1>3, <2>6
    <3>4. QED
      BY <1>2, <3>2, <3>3 DEF AfterTurns
  <2>7. CASE s # l
    <3>1. PICK n : n = b - a /\ n \in Nat /\ n # 0
      BY <1>3
    <3>2. s + 1 <= l /\ 1 \in 1 .. l - s
      BY <1>2, <1>3, <1>7, <2>7
    <3>3. left # <<>> /\ left[1] = Size(n)
      <4>1. Len(left) # 0
        BY <2>5, <3>2
      <4>2. left[1] = socket[s + 1]
        BY <2>5, <3>2
      <4>3. QED
        BY <1>4, <3>1, <3>2, <4>1, <4>2
    <3>4. Len(so) + n <= MaxBody
      BY <1>3, <2>4, <3>1, LimitsAssumption
    <3>5. ASSUME NEW j \in 1 .. n, j + 1 <= Len(left) PROVE left[j + 1].token = "byte"
      <4>1. j + 1 \in 1 .. l - s /\ s + (j + 1) = s + 1 + j /\ s + 1 + j <= l /\ a + j \in 1 .. Len(body)
        BY <1>2, <1>3, <1>7, <2>5, <3>1, <3>5
      <4>2. left[j + 1] = body[a + j]
        BY <1>4, <2>5, <3>1, <4>1
      <4>3. QED
        BY <4>1, <4>2 DEF Bytes
    <3>6. ASSUME n + 2 <= Len(left) PROVE left[n + 2] = Blank
      <4>1. n + 2 \in 1 .. l - s /\ s + (n + 2) = s + 2 + n /\ s + 2 + n <= l
        BY <1>2, <1>3, <1>7, <2>5, <3>1, <3>6
      <4>2. QED
        BY <1>4, <2>5, <3>1, <4>1
    <3>7. ChunkTaken(so, left, n)
      BY <2>4, <2>5, <3>1, <3>3, <3>4, <3>5, <3>6, OneTurn
    <3>8. CASE n + 2 <= Len(left)
      <4>1. f[k] = Reading(so \o SubSeq(left, 2, n + 1), SubSeq(left, n + 3, l - s))
        BY <1>5, <2>3, <2>5, <3>7, <3>8 DEF ChunkTaken
      <4>2. s + 2 + (b - a) <= Len(socket)
        BY <1>2, <1>3, <2>5, <3>1, <3>8
      <4>3. ASSUME NEW j \in 1 .. b - a PROVE socket[s + 1 + j] = body[a + j]
        <5>1. s + 1 + j <= l
          BY <1>2, <1>3, <4>2
        <5>2. QED
          BY <1>4, <5>1
      <4>4. /\ so \o SubSeq(left, 2, n + 1) = SubSeq(body, 1, b)
            /\ SubSeq(left, n + 3, l - s) = SubSeq(socket, s + 2 + (b - a) + 1, l)
        <5>1. ReadOn(body, a, b, socket, s)
          BY <1>3, <4>2, <4>3, BodyGrows
        <5>2. QED
          BY <1>2, <2>1, <2>2, <3>1, <5>1 DEF ReadOn
      <4>5. PlaceOf(ends, k) = s + 2 + (b - a) /\ EndOf(ends, k) = b /\ PlaceOf(ends, k) <= l
        BY <1>1, <1>2, <1>3, <4>2
      <4>6. QED
        BY <1>2, <4>1, <4>4, <4>5 DEF AfterTurns
    <3>9. CASE ~(n + 2 <= Len(left))
      <4>1. f[k] = Returned(Failed)
        BY <1>5, <2>3, <3>7, <3>9 DEF ChunkTaken
      <4>2. ~(PlaceOf(ends, k) <= l)
        BY <1>2, <1>3, <1>7, <2>5, <3>1, <3>9
      <4>3. QED
        BY <1>2, <4>1, <4>2 DEF AfterTurns
    <3>10. QED
      BY <3>8, <3>9
  <2>8. QED
    BY <2>6, <2>7
<1>8. QED
  BY <1>6, <1>7

LEMMA EveryTurn ==
    ASSUME NEW U, NEW body \in Seq(U), Bytes(body), Len(body) <= MaxBody,
           NEW ends, CutsUp(ends, Len(body)), NEW socket \in Seq(U), LaidOut(socket, body, ends),
           NEW f, TurnsAre(f, socket), NEW k \in Nat, k <= Len(ends), k <= Len(socket) + 1
    PROVE  AfterTurns(f, socket, body, ends, k)
<1>1. SUFFICES ASSUME ~AfterTurns(f, socket, body, ends, k) PROVE FALSE
  OBVIOUS
<1>2. PICK bad : bad = {i \in Nat : i <= Len(ends) /\ i <= Len(socket) + 1
                                        /\ ~AfterTurns(f, socket, body, ends, i)}
  OBVIOUS
<1>3. bad \in SUBSET Nat /\ bad # {}
  BY <1>1, <1>2
<1>4. PICK m \in bad : \A i \in bad : m <= i
  BY <1>3, LeastExists
<1>5. m \in Nat /\ m <= Len(ends) /\ m <= Len(socket) + 1 /\ ~AfterTurns(f, socket, body, ends, m)
  BY <1>2, <1>4
<1>6. Len(ends) \in Nat /\ Len(socket) \in Nat
  BY DEF CutsUp
<1>7. m # 0
  <2>1. PlaceOf(ends, 0) = 0 /\ EndOf(ends, 0) = 0
    BY DEF PlaceOf, EndOf
  <2>2. SubSeq(body, 1, 0) = <<>>
    OBVIOUS
  <2>3. SubSeq(socket, 0 + 1, Len(socket)) = socket
    <3>1. IsPart(U, SubSeq(socket, 0 + 1, Len(socket)), socket, 0, Len(socket))
      BY <1>6, PartIs
    <3>2. PICK part : part = SubSeq(socket, 0 + 1, Len(socket))
      OBVIOUS
    <3>3. part \in Seq(U) /\ Len(part) = Len(socket) /\ \A j \in 1 .. Len(socket) : part[j] = socket[j]
      BY <1>6, <3>1, <3>2 DEF IsPart
    <3>4. part = socket
      BY <3>3, SameSeq
    <3>5. QED
      BY <3>2, <3>4
  <2>4. f[0] = Reading(<<>>, socket)
    BY DEF TurnsAre
  <2>5. AfterTurns(f, socket, body, ends, 0)
    <3>1. PICK p, e : p = PlaceOf(ends, 0) /\ e = EndOf(ends, 0)
      OBVIOUS
    <3>2. p = 0 /\ e = 0 /\ p <= Len(socket)
      BY <1>6, <2>1, <3>1
    <3>3. SubSeq(body, 1, e) = <<>> /\ SubSeq(socket, p + 1, Len(socket)) = socket
      BY <2>2, <2>3, <3>2
    <3>4. QED
      BY <2>4, <3>1, <3>2, <3>3 DEF AfterTurns
  <2>6. QED
    BY <1>5, <2>5
<1>8. m - 1 \in Nat /\ m - 1 <= Len(ends) /\ m - 1 <= Len(socket) + 1 /\ m \in 1 .. Len(ends)
  BY <1>5, <1>6, <1>7
<1>9. m - 1 \notin bad
  BY <1>4, <1>5, <1>8
<1>10. AfterTurns(f, socket, body, ends, m - 1)
  BY <1>2, <1>8, <1>9
<1>11. AfterTurns(f, socket, body, ends, m)
  BY <1>5, <1>8, <1>10, NextTurn
<1>12. QED
  BY <1>5, <1>11

\* Once read_chunked has returned it has returned.
LEMMA ReturnedStays ==
    ASSUME NEW socket, Len(socket) \in Nat, NEW f, TurnsAre(f, socket), NEW reading,
           NEW k \in Nat, k <= Len(socket) + 1, f[k] = Returned(reading)
    PROVE  ReadChunks(socket) = reading
<1>1. PICK n : n = Len(socket) + 1 /\ n \in Nat
  OBVIOUS
<1>2. f[n] = Returned(reading)
  <2>1. SUFFICES ASSUME f[n] # Returned(reading) PROVE FALSE
    OBVIOUS
  <2>2. PICK bad : bad = {i \in Nat : k <= i /\ i <= n /\ f[i] # Returned(reading)}
    OBVIOUS
  <2>3. bad \in SUBSET Nat /\ bad # {}
    BY <1>1, <2>1, <2>2
  <2>4. PICK m \in bad : \A i \in bad : m <= i
    BY <2>3, LeastExists
  <2>5. m \in Nat /\ k <= m /\ m <= n /\ f[m] # Returned(reading)
    BY <2>2, <2>4
  <2>6. m # k
    BY <2>5
  <2>7. m - 1 \in Nat /\ k <= m - 1 /\ m - 1 <= n /\ m \in 1 .. Len(socket) + 1
    BY <1>1, <2>5, <2>6
  <2>8. m - 1 \notin bad
    BY <2>4, <2>5, <2>7
  <2>9. f[m - 1] = Returned(reading)
    BY <2>2, <2>7, <2>8
  <2>10. f[m] = NextChunk(f[m - 1])
    BY <2>7 DEF TurnsAre
  <2>11. f[m] = Returned(reading)
    BY <2>9, <2>10, DoneStays
  <2>12. QED
    BY <2>5, <2>11
<1>3. ReadChunks(socket) = f[n].reading
  BY <1>1 DEF TurnsAre
<1>4. QED
  BY <1>2, <1>3 DEF Returned

\* A body in chunks is read whole or not at all, wherever the socket ends.
LEMMA ChunksAreRead ==
    ASSUME NEW U, NEW body \in Seq(U), Bytes(body), Len(body) <= MaxBody,
           NEW ends, CutsUp(ends, Len(body)), NEW socket \in Seq(U), LaidOut(socket, body, ends),
           PlaceOf(ends, Len(ends)) < Len(socket)
               => socket[PlaceOf(ends, Len(ends)) + 1] = Size(0)
    PROVE  ReadChunks(socket) =
               IF PlaceOf(ends, Len(ends)) < Len(socket)
               THEN Taken(body, AfterTrailer(SubSeq(socket, PlaceOf(ends, Len(ends)) + 2, Len(socket))))
               ELSE Failed
<1>1. PICK l, m, o : l = Len(socket) /\ m = Len(ends) /\ o = PlaceOf(ends, Len(ends))
  OBVIOUS
<1>2. l \in Nat /\ m \in Nat /\ o \in Nat /\ m <= o /\ EndOf(ends, m) = Len(body)
  BY <1>1 DEF CutsUp, PlaceOf
<1>3. PICK f : TurnsAre(f, socket)
  BY <1>1, <1>2, ChunksTakeTurns
<1>4. \A k \in Nat : k <= m /\ k <= l + 1 => AfterTurns(f, socket, body, ends, k)
  BY <1>1, <1>3, EveryTurn
<1>5. CASE l < o
  <2>1. CASE m <= l
    <3>1. AfterTurns(f, socket, body, ends, m)
      BY <1>2, <1>4, <2>1
    <3>2. f[m] = Returned(Failed)
      BY <1>1, <1>2, <1>5, <3>1 DEF AfterTurns
    <3>3. ReadChunks(socket) = Failed
      BY <1>1, <1>2, <1>3, <2>1, <3>2, ReturnedStays
    <3>4. QED
      BY <1>1, <1>2, <1>5, <3>3
  <2>2. CASE ~(m <= l)
    <3>1. PICK k : k = l + 1 /\ k \in Nat
      BY <1>2
    <3>2. k <= m /\ k <= l + 1 /\ k \in 1 .. Len(ends)
      BY <1>1, <1>2, <2>2, <3>1
    <3>3. AfterTurns(f, socket, body, ends, k)
      BY <1>4, <3>1, <3>2
    <3>4. ~(PlaceOf(ends, k) <= l)
      <4>1. EndOf(ends, k) \in Nat
        BY <3>2, CutsStep DEF Steps
      <4>2. PlaceOf(ends, k) = EndOf(ends, k) + 2 * k
        BY DEF PlaceOf
      <4>3. PICK e : e = EndOf(ends, k)
        OBVIOUS
      <4>4. ~(e + 2 * k <= l)
        BY <1>2, <3>1, <4>1, <4>3
      <4>5. QED
        BY <4>2, <4>3, <4>4
    <3>5. f[k] = Returned(Failed)
      BY <1>1, <3>3, <3>4 DEF AfterTurns
    <3>6. ReadChunks(socket) = Failed
      BY <1>1, <1>2, <1>3, <3>1, <3>2, <3>5, ReturnedStays
    <3>7. QED
      BY <1>1, <1>2, <1>5, <3>6
  <2>3. QED
    BY <2>1, <2>2
<1>6. CASE ~(l < o)
  <2>1. o <= l /\ m <= l /\ m + 1 \in 1 .. l + 1
    BY <1>2, <1>6
  <2>2. AfterTurns(f, socket, body, ends, m)
    BY <1>2, <1>4, <2>1
  <2>3. PICK left : left = SubSeq(socket, o + 1, l)
    OBVIOUS
  <2>4. SubSeq(body, 1, Len(body)) = body
    <3>1. IsPart(U, SubSeq(body, 0 + 1, Len(body)), body, 0, Len(body))
      BY PartIs
    <3>2. PICK part : part = SubSeq(body, 1, Len(body))
      OBVIOUS
    <3>3. part \in Seq(U) /\ Len(part) = Len(body) /\ \A j \in 1 .. Len(body) : part[j] = body[j]
      BY <3>1, <3>2 DEF IsPart
    <3>4. part = body
      BY <3>3, SameSeq
    <3>5. QED
      BY <3>2, <3>4
  <2>5. f[m] = Reading(body, left)
    BY <1>1, <1>2, <2>1, <2>2, <2>3, <2>4 DEF AfterTurns
  <2>6. left \in Seq(U) /\ Len(left) = l - o /\ \A j \in 1 .. l - o : left[j] = socket[o + j]
    <3>1. IsPart(U, left, socket, o, l)
      BY <1>1, <1>2, <2>1, <2>3, PartIs
    <3>2. QED
      BY <3>1 DEF IsPart
  <2>7. f[m + 1] = NextChunk(f[m])
    <3>1. (m + 1) - 1 = m
      BY <1>2
    <3>2. f[m + 1] = NextChunk(f[(m + 1) - 1])
      BY <1>1, <1>3, <2>1 DEF TurnsAre
    <3>3. QED
      BY <3>1, <3>2
  <2>8. CASE l = o
    <3>1. left = <<>>
      BY <1>2, <2>6, <2>8
    <3>2. f[m + 1] = Returned(Failed)
      BY <2>5, <2>7, <3>1, AtTheEnd
    <3>3. ReadChunks(socket) = Failed
      BY <1>1, <1>2, <1>3, <2>1, <3>2, ReturnedStays
    <3>4. QED
      BY <1>1, <1>2, <2>8, <3>3
  <2>9. CASE l # o
    <3>1. o < l /\ 1 \in 1 .. l - o
      BY <1>2, <2>1, <2>9
    <3>2. left # <<>> /\ left[1] = Size(0)
      <4>1. Len(left) # 0
        BY <1>2, <2>6, <3>1
      <4>2. left[1] = socket[o + 1]
        BY <2>6, <3>1
      <4>3. QED
        BY <1>1, <2>6, <3>1, <4>1, <4>2
    <3>3. f[m + 1] = Returned(Taken(body, AfterTrailer(Tail(left))))
      BY <2>5, <2>6, <2>7, <3>2, LastTurn
    <3>4. ReadChunks(socket) = Taken(body, AfterTrailer(Tail(left)))
      BY <1>1, <1>2, <1>3, <2>1, <3>3, ReturnedStays
    <3>5. Tail(left) = SubSeq(socket, o + 2, l)
      <4>1. PICK k : k = l - o - 1
        OBVIOUS
      <4>2. k \in Nat /\ l - o = k + 1 /\ l - (o + 1) = k /\ o + 1 \in Nat /\ o + 1 <= l
        BY <1>2, <3>1, <4>1
      <4>3. PICK a : a = Tail(left)
        OBVIOUS
      <4>4. a \in Seq(U) /\ Len(a) = k /\ \A j \in 1 .. k : a[j] = left[j + 1]
        BY <2>6, <3>2, <4>2, <4>3
      <4>5. PICK b : b = SubSeq(socket, o + 1 + 1, l)
        OBVIOUS
      <4>6. IsPart(U, b, socket, o + 1, l)
        <5>1. PICK n : n = o + 1
          OBVIOUS
        <5>2. n \in Nat /\ n <= l
          BY <4>2, <5>1
        <5>3. IsPart(U, SubSeq(socket, n + 1, l), socket, n, l)
          BY <1>1, <1>2, <5>2, PartIs
        <5>4. QED
          BY <4>5, <5>1, <5>3
      <4>7. b \in Seq(U) /\ Len(b) = k /\ \A j \in 1 .. k : b[j] = socket[o + 1 + j]
        BY <4>2, <4>6 DEF IsPart
      <4>8. \A j \in 1 .. k : j + 1 \in 1 .. l - o /\ o + (j + 1) = o + 1 + j
        BY <1>2, <4>2
      <4>9. \A j \in 1 .. k : a[j] = b[j]
        BY <2>6, <4>4, <4>7, <4>8
      <4>10. a = b
        BY <4>4, <4>7, <4>9, SameSeq
      <4>11. o + 1 + 1 = o + 2
        BY <1>2
      <4>12. QED
        BY <4>3, <4>5, <4>10, <4>11
    <3>6. QED
      BY <1>1, <3>1, <3>4, <3>5
  <2>10. QED
    BY <2>8, <2>9
<1>7. QED
  BY <1>5, <1>6

-----------------------------------------------------------------------------
\* Heads and what they say of a body.

IsField(field) == field.token = "field" /\ field.name \in {"content-length", "transfer-encoding", "digest"}
LengthField(n) == Field("content-length", <<n>>)
Encoding == Field("transfer-encoding", <<"chunked">>)
Digest == Field("digest", <<>>)
Tokens ==
    {Blank, Encoding, Digest}
        \cup {Byte(b) : b \in {0, 1}} \cup {Size(n) : n \in Nat}
        \cup {First(word) : word \in {"POST", "200", "204"}} \cup {LengthField(n) : n \in Nat}

LEMMA TokensAre ==
    /\ Tokened(Tokens) /\ Blank \in Tokens /\ Encoding \in Tokens /\ Digest \in Tokens
    /\ \A b \in {0, 1} : Byte(b) \in Tokens /\ Byte(b).token = "byte"
    /\ \A n \in Nat : Size(n) \in Tokens /\ LengthField(n) \in Tokens
    /\ \A word \in {"POST", "200", "204"} : First(word) \in Tokens
BY DEF Tokens, Tokened, Byte

LEMMA TokensDiffer ==
    /\ Blank.token = "blank"
    /\ \A word : First(word).token = "first" /\ First(word).word = word /\ First(word) # Blank
    /\ \A n : LengthField(n).token = "field" /\ LengthField(n).name = "content-length"
              /\ LengthField(n).value = <<n>> /\ LengthField(n) # Blank
    /\ Encoding.token = "field" /\ Encoding.name = "transfer-encoding"
    /\ Encoding.value = <<"chunked">> /\ Encoding # Blank
    /\ Digest # Blank
    /\ \A n : Size(n) # Blank
<1>1. Blank.token = "blank"
  BY DEF Blank
<1>2. \A word : First(word).token = "first" /\ First(word).word = word
  BY DEF First
<1>3. \A n : LengthField(n).token = "field" /\ LengthField(n).name = "content-length" /\ LengthField(n).value = <<n>>
  BY DEF LengthField, Field
<1>4. /\ Encoding.token = "field" /\ Encoding.name = "transfer-encoding"
      /\ Encoding.value = <<"chunked">>
  BY DEF Encoding, Field
<1>5. Digest.token = "field"
  BY DEF Digest, Field
<1>6. \A n : Size(n).token = "size"
  BY DEF Size
<1>7. QED
  BY <1>1, <1>2, <1>3, <1>4, <1>5, <1>6

\* The fields a peer may say the length of its body in.
Telling(fields) ==
    /\ fields \in Seq(Tokens) /\ Len(fields) <= 2
    /\ \A i \in 1 .. Len(fields) :
           fields[i].token = "field" /\ fields[i] # Blank
           /\ fields[i].name \in {"content-length", "transfer-encoding"}

HeadOf(word, fields) == <<First(word)>> \o fields

HeadSays(head, word, fields) ==
    /\ head \in Seq(Tokens) /\ head # <<>> /\ NoBlank(head) /\ ParsesHead(head)
    /\ Len(head) = 1 + Len(fields) /\ Len(head) < MaxHead
    /\ FieldsOf(head) = fields /\ Head(head).word = word

LEMMA HeadOfSays ==
    ASSUME NEW word \in {"POST", "200", "204"}, NEW fields, Telling(fields)
    PROVE  HeadSays(HeadOf(word, fields), word, fields)
<1>1. PICK first : first = First(word)
  OBVIOUS
<1>2. first \in Tokens /\ first.token = "first" /\ first.word = word /\ first # Blank
  BY <1>1, TokensAre, TokensDiffer
<1>3. PICK n : n = Len(fields) /\ n \in Nat /\ n <= 2
  BY DEF Telling
<1>4. PICK head : head = <<first>> \o fields
  OBVIOUS
<1>5. /\ head \in Seq(Tokens) /\ Len(head) = n + 1 /\ head[1] = first
      /\ \A i \in 1 .. n : head[i + 1] = fields[i]
  BY <1>2, <1>3, <1>4 DEF Telling
<1>6. \A i \in 1 .. n + 1 : i = 1 \/ (i - 1 \in 1 .. n /\ i = (i - 1) + 1)
  BY <1>3
<1>7. \A i \in 1 .. n + 1 : head[i] # Blank /\ (i # 1 => head[i].token = "field")
  <2>1. SUFFICES ASSUME NEW i \in 1 .. n + 1 PROVE head[i] # Blank /\ (i # 1 => head[i].token = "field")
    OBVIOUS
  <2>2. CASE i = 1
    BY <1>2, <1>5, <2>2
  <2>3. CASE i # 1
    <3>1. PICK j \in 1 .. n : i = j + 1
      BY <1>6, <2>3
    <3>2. head[i] = fields[j]
      BY <1>5, <3>1
    <3>3. QED
      BY <1>3, <3>2 DEF Telling
  <2>4. QED
    BY <2>2, <2>3
<1>8. head # <<>> /\ Head(head) = first
  BY <1>3, <1>5
<1>9. Tail(head) = fields
  <2>1. /\ Tail(head) \in Seq(Tokens) /\ Len(Tail(head)) = n
        /\ \A i \in 1 .. n : Tail(head)[i] = head[i + 1]
    BY <1>3, <1>5, <1>8
  <2>2. fields \in Seq(Tokens)
    BY DEF Telling
  <2>3. \A i \in 1 .. n : Tail(head)[i] = fields[i]
    BY <1>5, <2>1
  <2>4. QED
    BY <1>3, <2>1, <2>2, <2>3, SameSeq
<1>10. NoBlank(head) /\ ParsesHead(head)
  <2>1. \A i \in 2 .. Len(head) : i \in 1 .. n + 1 /\ i # 1
    BY <1>3, <1>5
  <2>2. QED
    BY <1>2, <1>5, <1>7, <1>8, <2>1 DEF NoBlank, ParsesHead
<1>11. Len(head) < MaxHead /\ Len(head) = 1 + n
  BY <1>3, <1>5, LimitsAssumption
<1>12. head = HeadOf(word, fields)
  BY <1>1, <1>4 DEF HeadOf
<1>13. HeadSays(head, word, fields)
  BY <1>2, <1>3, <1>5, <1>8, <1>9, <1>10, <1>11 DEF HeadSays, FieldsOf
<1>14. QED
  BY <1>12, <1>13

\* Nothing else is forwarded.
LEMMA NothingKept ==
    ASSUME NEW fields, Telling(fields)
    PROVE  Kept(fields) = <<>>
<1>1. {i \in DOMAIN fields : fields[i].name \notin {"content-length", "transfer-encoding"}} = {}
  BY DEF Telling
<1>2. Cardinality({}) = 0
  BY FS_EmptySet
<1>3. PICK at : at = Ranked({}, LAMBDA i, j : i < j)
  OBVIOUS
<1>4. [k \in 1 .. 0 |-> fields[at[k]]] = <<>>
  OBVIOUS
<1>5. Picked(fields, {}) = <<>>
  BY <1>2, <1>3, <1>4 DEF Picked
<1>6. QED
  BY <1>1, <1>5 DEF Kept

LEMMA FramingsDiffer ==
    /\ Empty.until = "empty" /\ Chunked.until = "chunks" /\ UntilClose.until = "close"
    /\ \A n : Length(n).until = "length" /\ Length(n).value = n
BY DEF Empty, Chunked, UntilClose, Length

\* What is said by one length, by chunks, with a length beside them or not, and
\* by nothing.
SaysLength(fields, n) ==
    /\ Telling(fields) /\ \A open \in BOOLEAN : Framing(fields, open) = Length(n)
SaysChunks(fields) ==
    /\ Telling(fields) /\ \A open \in BOOLEAN : Framing(fields, open) = Chunked
SaysNothing(fields) ==
    /\ Telling(fields) /\ Framing(fields, FALSE) = Empty /\ Framing(fields, TRUE) = UntilClose

LEMMA OneLength ==
    ASSUME NEW n \in Nat
    PROVE  SaysLength(<<LengthField(n)>>, n)
<1>1. PICK field : field = LengthField(n)
  OBVIOUS
<1>2. /\ field \in Tokens /\ field.token = "field" /\ field.name = "content-length"
      /\ field.value = <<n>> /\ field # Blank
  BY <1>1, TokensAre, TokensDiffer
<1>3. PICK fields : fields = <<field>>
  OBVIOUS
<1>4. fields \in Seq(Tokens) /\ Len(fields) = 1 /\ fields[1] = field /\ DOMAIN fields = {1}
  BY <1>2, <1>3
<1>5. Telling(fields)
  BY <1>2, <1>4 DEF Telling
<1>6. Named(fields, "content-length") = {1} /\ Named(fields, "transfer-encoding") = {}
  BY <1>2, <1>4 DEF Named
<1>7. Min({1}) = 1
  BY MinIsThis
<1>8. HasField(fields, "content-length") /\ ~HasField(fields, "transfer-encoding")
  BY <1>6 DEF HasField
<1>9. ValueOf(fields, "content-length") = <<n>>
  BY <1>2, <1>4, <1>6, <1>7 DEF ValueOf
<1>10. ~Chunks(fields)
  BY <1>8 DEF Chunks
<1>11. <<n>>[1] = n
  OBVIOUS
<1>12. \A open \in BOOLEAN : Framing(fields, open) = Length(n)
  BY <1>8, <1>9, <1>10, <1>11 DEF Framing
<1>13. QED
  BY <1>1, <1>3, <1>5, <1>12 DEF SaysLength

LEMMA NoFields ==
    SaysNothing(<<>>)
<1>1. PICK fields : fields = <<>>
  OBVIOUS
<1>2. fields \in Seq(Tokens) /\ Len(fields) = 0 /\ DOMAIN fields = {}
  BY <1>1
<1>3. Telling(fields)
  BY <1>2 DEF Telling
<1>4. \A name : Named(fields, name) = {}
  BY <1>2 DEF Named
<1>5. \A name : ~HasField(fields, name)
  BY <1>4 DEF HasField
<1>6. Framing(fields, FALSE) = Empty /\ Framing(fields, TRUE) = UntilClose
  BY <1>5 DEF Framing, Chunks
<1>7. QED
  BY <1>1, <1>3, <1>6 DEF SaysNothing

LEMMA InChunks ==
    ASSUME NEW before \in {<<>>, <<LengthField(1)>>}
    PROVE  SaysChunks(before \o <<Encoding>>)
<1>1. /\ Encoding \in Tokens /\ Encoding.token = "field" /\ Encoding.name = "transfer-encoding"
      /\ Encoding.value = <<"chunked">> /\ Encoding # Blank
  BY TokensAre, TokensDiffer
<1>2. PICK field : field = LengthField(1)
  OBVIOUS
<1>3. /\ field \in Tokens /\ field.token = "field" /\ field.name = "content-length" /\ field # Blank
  BY <1>2, TokensAre, TokensDiffer
<1>4. PICK m : m = Len(before)
  OBVIOUS
<1>5. m \in 0 .. 1 /\ before \in Seq(Tokens) /\ \A i \in 1 .. m : before[i] = field
  <2>1. before = <<>> \/ before = <<field>>
    BY <1>2
  <2>2. CASE before = <<>>
    BY <1>4, <2>2
  <2>3. CASE before = <<field>>
    <3>1. <<field>> \in Seq(Tokens) /\ Len(<<field>>) = 1 /\ <<field>>[1] = field
      BY <1>3
    <3>2. QED
      BY <1>4, <2>3, <3>1
  <2>4. QED
    BY <2>1, <2>2, <2>3
<1>6. PICK fields : fields = before \o <<Encoding>>
  OBVIOUS
<1>7. <<Encoding>> \in Seq(Tokens) /\ Len(<<Encoding>>) = 1 /\ <<Encoding>>[1] = Encoding
  BY <1>1
<1>8. fields \in Seq(Tokens) /\ Len(fields) = m + 1 /\ fields[m + 1] = Encoding
      /\ \A i \in 1 .. m : fields[i] = field
  BY <1>5, <1>4, <1>6, <1>7
<1>9. m \in Nat /\ DOMAIN fields = 1 .. m + 1 /\ \A i \in 1 .. m + 1 : i = m + 1 \/ i \in 1 .. m
  BY <1>5, <1>8
<1>10. \A i \in 1 .. m + 1 : fields[i] = Encoding \/ fields[i] = field
  BY <1>8, <1>9
<1>11. Telling(fields)
  BY <1>1, <1>3, <1>5, <1>8, <1>10 DEF Telling
<1>12. Named(fields, "transfer-encoding") = {m + 1}
  <2>1. \A i \in 1 .. m + 1 : fields[i].name = "transfer-encoding" <=> i = m + 1
    <3>1. \A i \in 1 .. m + 1 : i # m + 1 => fields[i].name = "content-length"
      BY <1>3, <1>8, <1>9
    <3>2. QED
      BY <1>1, <1>8, <3>1
  <2>2. m + 1 \in DOMAIN fields
    BY <1>9
  <2>3. QED
    BY <1>9, <2>1, <2>2 DEF Named
<1>13. Min({m + 1}) = m + 1
  BY <1>9, MinIsThis
<1>14. HasField(fields, "transfer-encoding") /\ ValueOf(fields, "transfer-encoding") = <<"chunked">>
  BY <1>1, <1>8, <1>12, <1>13 DEF HasField, ValueOf
<1>15. \A open \in BOOLEAN : Framing(fields, open) = Chunked
  BY <1>14 DEF Framing, Chunks
<1>16. QED
  BY <1>6, <1>11, <1>15 DEF SaysChunks

-----------------------------------------------------------------------------
\* A message is its head and what its framing makes of the rest.

MessageOf(word, fields, body, openEnded) ==
    [first |-> word, fields |-> fields, body |-> body, openEnded |-> openEnded]
BodyRead(word, fields, rest, framing) ==
    IF IsTaken(ReadBody(rest, framing))
    THEN Taken(MessageOf(word, fields, ReadBody(rest, framing).result, framing = UntilClose),
               ReadBody(rest, framing).left)
    ELSE Failed

ReadAs(head, word, fields, rest) ==
    /\ ReadRequest(Opened(head, rest)) = BodyRead(word, fields, rest, Framing(fields, FALSE))
    /\ \A method : ReadResponse(Opened(head, rest), method) =
           BodyRead(word, fields, rest,
                    IF method = "HEAD" \/ word = "204" THEN Empty ELSE Framing(fields, TRUE))

LEMMA MessageIsRead ==
    ASSUME NEW head, NEW word, NEW fields, HeadSays(head, word, fields), NEW rest \in Seq(Tokens)
    PROVE  ReadAs(head, word, fields, rest)
<1>1. PICK s : s = Opened(head, rest)
  OBVIOUS
<1>2. ReadHead(s) = Taken(head, rest)
  BY <1>1, TokensAre, HeadIsRead DEF HeadSays
<1>3. PICK reading : reading = Taken(head, rest)
  OBVIOUS
<1>4. IsTaken(reading) /\ reading.result = head /\ reading.left = rest
  BY <1>3 DEF IsTaken, Taken
<1>5. ReadParsed(s) = reading
  BY <1>2, <1>3, <1>4 DEF ReadParsed, HeadSays
<1>6. ASSUME NEW framing PROVE WithBody(reading, framing) = BodyRead(word, fields, rest, framing)
  BY <1>4 DEF WithBody, BodyRead, MessageOf, HeadSays
<1>7. ReadRequest(s) = BodyRead(word, fields, rest, Framing(fields, FALSE))
  <2>1. ReadRequest(s) = WithBody(reading, Framing(FieldsOf(head), FALSE))
    BY <1>4, <1>5 DEF ReadRequest
  <2>2. QED
    BY <1>6, <2>1 DEF HeadSays
<1>8. ASSUME NEW method
      PROVE  ReadResponse(s, method) =
                 BodyRead(word, fields, rest,
                          IF method = "HEAD" \/ word = "204" THEN Empty ELSE Framing(fields, TRUE))
  <2>1. ReadResponse(s, method) = WithBody(reading, ResponseFraming(head, method))
    BY <1>4, <1>5 DEF ReadResponse
  <2>2. ResponseFraming(head, method) =
            IF method = "HEAD" \/ word = "204" THEN Empty ELSE Framing(fields, TRUE)
    BY DEF ResponseFraming, HasBody, HeadSays
  <2>3. QED
    BY <1>6, <2>1, <2>2
<1>9. QED
  BY <1>1, <1>7, <1>8 DEF ReadAs

\* A head that is cut off is none.
LEMMA HeadIsCutOff ==
    ASSUME NEW s \in Seq(Tokens), NoBlank(s)
    PROVE  ~IsTaken(ReadRequest(s)) /\ \A method : ~IsTaken(ReadResponse(s, method))
<1>1. ~IsTaken(ReadHead(s))
  BY HeadIsMissed
<1>2. ReadParsed(s) = ReadHead(s)
  BY <1>1 DEF ReadParsed
<1>3. ReadRequest(s) = ReadHead(s) /\ \A method : ReadResponse(s, method) = Failed
  BY <1>1, <1>2 DEF ReadRequest, ReadResponse
<1>4. ~IsTaken(Failed)
  BY DEF IsTaken, Failed
<1>5. QED
  BY <1>1, <1>3, <1>4

-----------------------------------------------------------------------------
\* Bodies.

IsBody(body) == body \in Seq(Tokens) /\ Bytes(body) /\ Len(body) <= MaxBody /\ Len(body) \in Nat

LEMMA BodiesAre ==
    ASSUME NEW body \in Bodies
    PROVE  IsBody(body)
<1>1. PICK n \in 0 .. MaxBody : body \in [1 .. n -> {Byte(0), Byte(1)}]
  BY DEF Bodies
<1>2. n \in Nat /\ n <= MaxBody
  BY LimitsAssumption
<1>3. PICK x, y : x = Byte(0) /\ y = Byte(1)
  OBVIOUS
<1>4. x \in Tokens /\ y \in Tokens /\ x.token = "byte" /\ y.token = "byte"
  BY <1>3, TokensAre
<1>5. \A i \in 1 .. n : body[i] \in Tokens /\ body[i].token = "byte"
  BY <1>1, <1>3, <1>4
<1>6. body \in Seq(Tokens) /\ Len(body) = n
  BY <1>1, <1>2, <1>5
<1>7. QED
  BY <1>2, <1>5, <1>6 DEF IsBody, Bytes

IsJoined(U, whole, a, b) ==
    /\ whole \in Seq(U) /\ Len(whole) = Len(a) + Len(b)
    /\ \A i \in 1 .. Len(a) : whole[i] = a[i]
    /\ \A i \in 1 .. Len(b) : whole[Len(a) + i] = b[i]

LEMMA JoinedIs ==
    ASSUME NEW U, NEW a \in Seq(U), NEW b \in Seq(U)
    PROVE  IsJoined(U, a \o b, a, b)
BY DEF IsJoined

LEMMA JoinedParts ==
    ASSUME NEW U, NEW a \in Seq(U), NEW b \in Seq(U)
    PROVE  SubSeq(a \o b, 1, Len(a)) = a /\ SubSeq(a \o b, Len(a) + 1, Len(a \o b)) = b
<1>1. PICK whole : whole = a \o b
  OBVIOUS
<1>2. PICK m, n : m = Len(a) /\ n = Len(b) /\ m \in Nat /\ n \in Nat
  OBVIOUS
<1>3. /\ whole \in Seq(U) /\ Len(whole) = m + n
      /\ \A i \in 1 .. m : whole[i] = a[i]
      /\ \A i \in 1 .. n : whole[m + i] = b[i]
  <2>1. IsJoined(U, whole, a, b)
    BY <1>1, JoinedIs
  <2>2. QED
    BY <1>2, <2>1 DEF IsJoined
<1>4. SubSeq(whole, 0 + 1, m) = a
  <2>1. PICK part : part = SubSeq(whole, 0 + 1, m)
    OBVIOUS
  <2>2. IsPart(U, part, whole, 0, m)
    <3>1. m <= Len(whole) /\ 0 <= m
      BY <1>2, <1>3
    <3>2. QED
      BY <1>2, <1>3, <2>1, <3>1, PartIs
  <2>3. part \in Seq(U) /\ Len(part) = m /\ \A j \in 1 .. m : part[j] = whole[j]
    BY <1>2, <2>2 DEF IsPart
  <2>4. part = a
    BY <1>2, <1>3, <2>3, SameSeq
  <2>5. QED
    BY <2>1, <2>4
<1>5. SubSeq(whole, m + 1, m + n) = b
  <2>1. PICK end : end = m + n
    OBVIOUS
  <2>2. end \in Nat /\ m <= end /\ end <= Len(whole) /\ end - m = n
    BY <1>2, <1>3, <2>1
  <2>3. PICK part : part = SubSeq(whole, m + 1, end)
    OBVIOUS
  <2>4. IsPart(U, part, whole, m, end)
    BY <1>2, <1>3, <2>2, <2>3, PartIs
  <2>5. part \in Seq(U) /\ Len(part) = n /\ \A j \in 1 .. n : part[j] = whole[m + j]
    BY <2>2, <2>4 DEF IsPart
  <2>6. part = b
    BY <1>2, <1>3, <2>5, SameSeq
  <2>7. QED
    BY <2>1, <2>3, <2>6
<1>6. QED
  BY <1>1, <1>2, <1>3, <1>4, <1>5

LEMMA LengthIsRead ==
    ASSUME NEW body, IsBody(body), NEW follower \in Seq(Tokens)
    PROVE  ReadBody(body \o follower, Length(Len(body))) = Taken(body, follower)
<1>1. PICK n : n = Len(body) /\ n \in Nat /\ n <= MaxBody
  BY DEF IsBody
<1>2. PICK whole : whole = body \o follower
  OBVIOUS
<1>3. /\ whole \in Seq(Tokens) /\ Len(whole) = n + Len(follower)
      /\ \A i \in 1 .. n : whole[i] = body[i]
  <2>1. IsJoined(Tokens, whole, body, follower)
    BY <1>2, JoinedIs DEF IsBody
  <2>2. QED
    BY <1>1, <2>1 DEF IsJoined
<1>4. \A j \in 1 .. Len(whole) : j <= n => whole[j].token = "byte"
  <2>1. \A j \in 1 .. Len(whole) : j <= n => j \in 1 .. n
    BY <1>1
  <2>2. QED
    BY <1>1, <1>3, <2>1 DEF IsBody, Bytes
<1>5. n <= Len(whole)
  BY <1>1, <1>3
<1>6. TakeBytes(whole, n) = Taken(SubSeq(whole, 1, n), SubSeq(whole, n + 1, Len(whole)))
  BY <1>1, <1>3, <1>4, <1>5, BytesTaken
<1>7. SubSeq(whole, 1, n) = body /\ SubSeq(whole, n + 1, Len(whole)) = follower
  BY <1>1, <1>2, JoinedParts DEF IsBody
<1>8. ReadBody(whole, Length(n)) = TakeBytes(whole, n)
  <2>1. Length(n) # Empty /\ Length(n) # Chunked /\ Length(n) # UntilClose /\ Length(n).value = n
    BY FramingsDiffer
  <2>2. ~(n > MaxBody)
    BY <1>1, LimitsAssumption
  <2>3. QED
    BY <2>1, <2>2 DEF ReadBody
<1>9. QED
  BY <1>1, <1>2, <1>6, <1>7, <1>8

LEMMA LengthIsMissed ==
    ASSUME NEW body, IsBody(body), NEW k \in Nat, k < Len(body)
    PROVE  ReadBody(SubSeq(body, 1, k), Length(Len(body))) = Failed
<1>1. PICK n : n = Len(body) /\ n \in Nat /\ n <= MaxBody
  BY DEF IsBody
<1>2. PICK part : part = SubSeq(body, 1, k)
  OBVIOUS
<1>3. Len(part) = k
  BY <1>1, <1>2 DEF IsBody
<1>4. TakeBytes(part, n) = Failed
  <2>1. ~(n <= Len(part))
    BY <1>1, <1>3
  <2>2. QED
    BY <2>1 DEF TakeBytes
<1>5. ReadBody(part, Length(n)) = Failed
  <2>1. Length(n) # Empty /\ Length(n) # Chunked /\ Length(n) # UntilClose /\ Length(n).value = n
    BY FramingsDiffer
  <2>2. ~(n > MaxBody)
    BY <1>1, LimitsAssumption
  <2>3. QED
    BY <1>4, <2>1, <2>2 DEF ReadBody
<1>6. QED
  BY <1>1, <1>2, <1>5

LEMMA OpenEndIsRead ==
    ASSUME NEW body, IsBody(body)
    PROVE  ReadBody(body, UntilClose) = Taken(body, <<>>)
<1>1. ~(Len(body) > MaxBody)
  BY LimitsAssumption DEF IsBody
<1>2. UntilClose # Empty /\ UntilClose # Chunked
  BY FramingsDiffer
<1>3. QED
  BY <1>1, <1>2 DEF ReadBody

LEMMA NothingIsRead ==
    ASSUME NEW rest
    PROVE  ReadBody(rest, Empty) = Taken(<<>>, rest)
<1>1. PICK framing : framing = Empty
  OBVIOUS
<1>2. framing # Chunked /\ framing # UntilClose
  BY <1>1, FramingsDiffer
<1>3. ReadBody(rest, framing) = Taken(<<>>, rest)
  BY <1>1, <1>2 DEF ReadBody
<1>4. QED
  BY <1>1, <1>3

-----------------------------------------------------------------------------
\* The chunks of a body, the last one and its trailer, and what follows them.

Trailed(trailer, follower) == <<Size(0)>> \o Opened(trailer, follower)
InPieces(body, ends, trailer, follower) == Pieces(body, ends) \o Trailed(trailer, follower)

LEMMA TrailedIs ==
    ASSUME NEW trailer \in Seq(Tokens), NEW follower \in Seq(Tokens)
    PROVE  /\ Trailed(trailer, follower) \in Seq(Tokens)
           /\ Len(Trailed(trailer, follower)) = 2 + Len(trailer) + Len(follower)
           /\ Trailed(trailer, follower)[1] = Size(0)
           /\ Tail(Trailed(trailer, follower)) = Opened(trailer, follower)
<1>1. PICK rest : rest = Opened(trailer, follower)
  OBVIOUS
<1>2. rest \in Seq(Tokens) /\ Len(rest) = Len(trailer) + 1 + Len(follower)
  <2>1. IsOpened(Tokens, rest, trailer, follower)
    BY <1>1, TokensAre, OpenedIs
  <2>2. QED
    BY <2>1 DEF IsOpened
<1>3. PICK z : z = Size(0)
  OBVIOUS
<1>4. z \in Tokens
  BY <1>3, TokensAre
<1>5. /\ <<z>> \o rest \in Seq(Tokens) /\ Len(<<z>> \o rest) = 1 + Len(rest)
      /\ (<<z>> \o rest)[1] = z /\ \A i \in 1 .. Len(rest) : (<<z>> \o rest)[i + 1] = rest[i]
  <2>1. PICK one : one = <<z>>
    OBVIOUS
  <2>2. one \in Seq(Tokens) /\ Len(one) = 1 /\ one[1] = z
    BY <1>4, <2>1
  <2>3. IsJoined(Tokens, one \o rest, one, rest)
    BY <1>2, <2>2, JoinedIs
  <2>4. PICK all : all = one \o rest
    OBVIOUS
  <2>5. /\ all \in Seq(Tokens) /\ Len(all) = 1 + Len(rest)
        /\ \A i \in 1 .. 1 : all[i] = one[i]
        /\ \A i \in 1 .. Len(rest) : all[1 + i] = rest[i]
    BY <2>2, <2>3, <2>4 DEF IsJoined
  <2>6. all[1] = z
    BY <2>2, <2>5
  <2>7. \A i \in 1 .. Len(rest) : all[i + 1] = rest[i]
    <3>1. \A i \in 1 .. Len(rest) : i + 1 = 1 + i
      OBVIOUS
    <3>2. QED
      BY <2>5, <3>1
  <2>8. QED
    BY <2>1, <2>4, <2>5, <2>6, <2>7
<1>6. Tail(<<z>> \o rest) = rest
  <2>1. PICK all : all = <<z>> \o rest
    OBVIOUS
  <2>2. Len(rest) \in Nat /\ all # <<>>
    BY <1>2, <1>5, <2>1
  <2>3. /\ Tail(all) \in Seq(Tokens) /\ Len(Tail(all)) = Len(rest)
        /\ \A i \in 1 .. Len(rest) : Tail(all)[i] = all[i + 1]
    BY <1>5, <2>1, <2>2
  <2>4. Tail(all) = rest
    BY <1>2, <1>5, <2>1, <2>3, SameSeq
  <2>5. QED
    BY <2>1, <2>4
<1>7. Len(trailer) \in Nat /\ Len(follower) \in Nat
  OBVIOUS
<1>8. QED
  BY <1>1, <1>2, <1>3, <1>5, <1>6, <1>7 DEF Trailed

LEMMA ChunksRead ==
    ASSUME NEW socket
    PROVE  ReadBody(socket, Chunked) = ReadChunks(socket)
<1>1. PICK framing : framing = Chunked
  OBVIOUS
<1>2. framing # Empty /\ framing # UntilClose
  BY <1>1, FramingsDiffer
<1>3. ReadBody(socket, framing) = ReadChunks(socket)
  BY <1>1, <1>2 DEF ReadBody
<1>4. QED
  BY <1>1, <1>3

IsInPieces(s, o, body, ends, trailer, follower) ==
    /\ s \in Seq(Tokens) /\ Len(s) = o + 2 + Len(trailer) + Len(follower)
    /\ LaidOut(s, body, ends) /\ s[o + 1] = Size(0)
    /\ SubSeq(s, o + 2, Len(s)) = Opened(trailer, follower)

LEMMA InPiecesAre ==
    ASSUME NEW body, IsBody(body), NEW ends, CutsUp(ends, Len(body)),
           NEW trailer \in Seq(Tokens), NEW follower \in Seq(Tokens)
    PROVE  IsInPieces(InPieces(body, ends, trailer, follower), PlaceOf(ends, Len(ends)),
                      body, ends, trailer, follower)
<1>1. PICK s, o, pieces, rest :
          /\ s = InPieces(body, ends, trailer, follower) /\ o = PlaceOf(ends, Len(ends))
          /\ pieces = Pieces(body, ends) /\ rest = Trailed(trailer, follower)
  OBVIOUS
<1>2. /\ pieces \in Seq(Tokens) /\ Len(pieces) = o /\ LaidOut(pieces, body, ends) /\ o \in Nat
  BY <1>1, TokensAre, PiecesAre DEF IsBody
<1>3. PICK t, l : t = Len(trailer) /\ l = Len(follower)
  OBVIOUS
<1>3a. t \in Nat /\ l \in Nat
  BY <1>3
<1>4. /\ rest \in Seq(Tokens) /\ Len(rest) = 2 + t + l /\ rest[1] = Size(0)
      /\ Tail(rest) = Opened(trailer, follower)
  BY <1>1, <1>3, <1>3a, TrailedIs
<1>5. /\ s \in Seq(Tokens) /\ Len(s) = o + (2 + t + l)
      /\ \A i \in 1 .. o : s[i] = pieces[i]
      /\ \A i \in 1 .. 2 + t + l : s[o + i] = rest[i]
  <2>1. s = pieces \o rest
    BY <1>1 DEF InPieces
  <2>2. IsJoined(Tokens, s, pieces, rest)
    BY <1>2, <1>4, <2>1, JoinedIs
  <2>3. QED
    BY <1>2, <1>4, <2>2 DEF IsJoined
<1>6. PICK n : n = o + 2 + t + l
  OBVIOUS
<1>7. n \in Nat /\ n = o + (2 + t + l) /\ o + 1 \in Nat /\ o + 1 <= n
  BY <1>2, <1>3, <1>3a, <1>6
<1>8. LaidOut(s, body, ends)
  <2>1. \A p \in 1 .. Len(s) : p <= o => s[p] = pieces[p]
    <3>1. \A p \in 1 .. Len(s) : p <= o => p \in 1 .. o
      BY <1>2
    <3>2. QED
      BY <1>5, <3>1
  <2>2. Len(s) \in Nat /\ o <= Len(pieces) /\ Len(pieces) \in Nat
    BY <1>2, <1>5, <1>7
  <2>3. Len(body) \in Nat
    BY DEF IsBody
  <2>4. QED
    BY <1>1, <1>2, <2>1, <2>2, <2>3, LaidOutAlike
<1>9. s[o + 1] = Size(0)
  <2>1. 1 \in 1 .. 2 + t + l
    BY <1>3, <1>3a
  <2>2. QED
    BY <1>4, <1>5, <2>1
<1>10. SubSeq(s, o + 2, Len(s)) = Opened(trailer, follower)
  <2>1. PICK m : m = o + 1
    OBVIOUS
  <2>2. m \in Nat /\ m <= n /\ n - m = 1 + t + l /\ Len(s) = n /\ m + 1 = o + 2
    BY <1>2, <1>3, <1>3a, <1>5, <1>6, <1>7, <2>1
  <2>3. PICK part : part = SubSeq(s, m + 1, n)
    OBVIOUS
  <2>4. IsPart(Tokens, part, s, m, n)
    BY <1>5, <1>7, <2>2, <2>3, PartIs
  <2>5. part \in Seq(Tokens) /\ Len(part) = 1 + t + l /\ \A j \in 1 .. 1 + t + l : part[j] = s[m + j]
    BY <2>2, <2>4 DEF IsPart
  <2>6. PICK end : end = Tail(rest)
    OBVIOUS
  <2>7. rest # <<>>
    BY <1>3, <1>3a, <1>4
  <2>8. /\ end \in Seq(Tokens) /\ Len(end) = 1 + t + l
        /\ \A j \in 1 .. 1 + t + l : end[j] = rest[j + 1]
    BY <1>3, <1>3a, <1>4, <2>6, <2>7
  <2>9. \A j \in 1 .. 1 + t + l : j + 1 \in 1 .. 2 + t + l /\ o + (j + 1) = m + j
    BY <1>2, <1>3, <1>3a, <2>1
  <2>10. \A j \in 1 .. 1 + t + l : part[j] = end[j]
    <3>1. SUFFICES ASSUME NEW j \in 1 .. 1 + t + l PROVE part[j] = end[j]
      OBVIOUS
    <3>2. part[j] = s[m + j] /\ end[j] = rest[j + 1]
      BY <2>5, <2>8
    <3>3. s[o + (j + 1)] = rest[j + 1]
      BY <1>5, <2>9
    <3>4. QED
      BY <2>9, <3>2, <3>3
  <2>11. part = end
    BY <2>5, <2>8, <2>10, SameSeq
  <2>12. QED
    BY <1>4, <2>2, <2>3, <2>6, <2>11
<1>11. IsInPieces(s, o, body, ends, trailer, follower)
  BY <1>3, <1>3a, <1>5, <1>6, <1>7, <1>8, <1>9, <1>10 DEF IsInPieces
<1>12. QED
  BY <1>1, <1>11

\* However much of it there is, the body is read whole or not at all.
WholeOrNot(s, o, body) ==
    \A k \in 0 .. Len(s) :
        \/ ReadBody(SubSeq(s, 1, k), Chunked) = Failed
        \/ k > o /\ \E left : ReadBody(SubSeq(s, 1, k), Chunked) = Taken(body, left)

LEMMA PiecesAreRead ==
    ASSUME NEW body, IsBody(body), NEW ends, CutsUp(ends, Len(body)),
           NEW trailer \in Seq(Tokens), NoBlank(trailer), NEW follower \in Seq(Tokens)
    PROVE  /\ ReadBody(InPieces(body, ends, trailer, follower), Chunked) = Taken(body, follower)
           /\ WholeOrNot(InPieces(body, ends, trailer, follower), PlaceOf(ends, Len(ends)), body)
<1>1. PICK s, o : s = InPieces(body, ends, trailer, follower) /\ o = PlaceOf(ends, Len(ends))
  OBVIOUS
<1>2. IsInPieces(s, o, body, ends, trailer, follower)
  BY <1>1, InPiecesAre
<1>3. o \in Nat
  BY <1>1, TokensAre, PiecesAre DEF IsBody
<1>4. /\ s \in Seq(Tokens) /\ LaidOut(s, body, ends) /\ s[o + 1] = Size(0)
      /\ SubSeq(s, o + 2, Len(s)) = Opened(trailer, follower)
  BY <1>2 DEF IsInPieces
<1>5. Len(s) \in Nat /\ o < Len(s)
  <2>1. PICK t, l : t = Len(trailer) /\ l = Len(follower)
    OBVIOUS
  <2>1a. t \in Nat /\ l \in Nat
    BY <2>1
  <2>2. Len(s) = o + 2 + t + l
    BY <1>2, <2>1 DEF IsInPieces
  <2>3. QED
    BY <1>3, <2>1a, <2>2
<1>6. body \in Seq(Tokens) /\ Bytes(body) /\ Len(body) <= MaxBody
  BY DEF IsBody
<1>7. AfterTrailer(Opened(trailer, follower)) = follower
  <2>1. PICK rest, m : rest = Opened(trailer, follower) /\ m = Len(trailer) + 1
    OBVIOUS
  <2>2. SplitsAt(rest, m, trailer, follower)
    BY <2>1, TokensAre, OpenedSplits
  <2>3. AfterTrailer(rest) = follower
    BY <2>2 DEF SplitsAt, AfterTrailer
  <2>4. QED
    BY <2>1, <2>3
<1>8. ReadChunks(s) = Taken(body, follower)
  <2>1. ReadChunks(s) = Taken(body, AfterTrailer(SubSeq(s, o + 2, Len(s))))
    BY <1>1, <1>4, <1>5, <1>6, ChunksAreRead
  <2>2. QED
    BY <1>4, <1>7, <2>1
<1>9. ASSUME NEW k \in 0 .. Len(s)
      PROVE  \/ ReadBody(SubSeq(s, 1, k), Chunked) = Failed
             \/ k > o /\ \E left : ReadBody(SubSeq(s, 1, k), Chunked) = Taken(body, left)
  <2>1. PICK part : part = SubSeq(s, 0 + 1, k)
    OBVIOUS
  <2>2. k \in Nat /\ 0 <= k /\ k <= Len(s)
    BY <1>5
  <2>3. IsPart(Tokens, part, s, 0, k)
    BY <1>4, <2>1, <2>2, PartIs
  <2>4. part \in Seq(Tokens) /\ Len(part) = k /\ \A j \in 1 .. k : part[j] = s[j]
    BY <2>2, <2>3 DEF IsPart
  <2>5. LaidOut(part, body, ends)
    <3>1. \A p \in 1 .. Len(part) : p <= PlaceOf(ends, Len(ends)) => part[p] = s[p]
      BY <2>4
    <3>2. Len(part) \in Nat /\ PlaceOf(ends, Len(ends)) <= Len(s) /\ Len(body) \in Nat
      BY <1>1, <1>3, <1>5, <2>2, <2>4 DEF IsBody
    <3>3. QED
      BY <1>4, <1>5, <3>1, <3>2, LaidOutAlike
  <2>6. o < Len(part) => part[o + 1] = Size(0)
    <3>1. o < k => o + 1 \in 1 .. k
      BY <1>3, <2>2
    <3>2. QED
      BY <1>4, <2>4, <3>1
  <2>7. ReadChunks(part) =
            IF o < Len(part)
            THEN Taken(body, AfterTrailer(SubSeq(part, o + 2, Len(part))))
            ELSE Failed
    BY <1>1, <1>6, <2>4, <2>5, <2>6, ChunksAreRead
  <2>8. ReadBody(part, Chunked) = ReadChunks(part)
    BY ChunksRead
  <2>9. ReadBody(part, Chunked) = Failed
            \/ (k > o /\ \E left : ReadBody(part, Chunked) = Taken(body, left))
    <3>1. CASE o < k
      <4>1. ReadBody(part, Chunked) = Taken(body, AfterTrailer(SubSeq(part, o + 2, Len(part))))
        BY <2>4, <2>7, <2>8, <3>1
      <4>2. k > o
        BY <1>3, <2>2, <3>1
      <4>3. QED
        BY <4>1, <4>2
    <3>2. CASE ~(o < k)
      BY <2>4, <2>7, <2>8, <3>2
    <3>3. QED
      BY <3>1, <3>2
  <2>10. QED
    BY <2>1, <2>9
<1>10. WholeOrNot(s, o, body)
  BY <1>9 DEF WholeOrNot
<1>11. ReadBody(s, Chunked) = Taken(body, follower)
  BY <1>8, ChunksRead
<1>12. QED
  BY <1>1, <1>10, <1>11

-----------------------------------------------------------------------------
\* Messages as a head, a blank and a rest.

LEMMA Regroup ==
    ASSUME NEW U, NEW a \in Seq(U), NEW b \in Seq(U), NEW c \in Seq(U)
    PROVE  (a \o b) \o c = a \o (b \o c)
OBVIOUS

LEMMA EmptyJoined ==
    ASSUME NEW U, NEW a \in Seq(U)
    PROVE  a \o <<>> = a /\ <<>> \o a = a
OBVIOUS

LEMMA OpenedOn ==
    ASSUME NEW head \in Seq(Tokens), NEW rest \in Seq(Tokens), NEW follower \in Seq(Tokens)
    PROVE  Opened(head, rest) \o follower = Opened(head, rest \o follower)
<1>1. PICK opened : opened = head \o <<Blank>>
  OBVIOUS
<1>2. <<Blank>> \in Seq(Tokens)
  BY TokensAre
<1>3. opened \in Seq(Tokens)
  BY <1>1, <1>2
<1>4. (opened \o rest) \o follower = opened \o (rest \o follower)
  BY <1>3, Regroup
<1>5. QED
  BY <1>1, <1>4 DEF Opened

HeadOpens(word, fields, rest) ==
    /\ HeadOf(word, fields) \in Seq(Tokens)
    /\ Prefixed(word, (fields \o <<Blank>>) \o rest) = Opened(HeadOf(word, fields), rest)

LEMMA HeadIsFirst ==
    ASSUME NEW word \in {"POST", "200", "204"}, NEW fields \in Seq(Tokens), NEW rest \in Seq(Tokens)
    PROVE  HeadOpens(word, fields, rest)
<1>1. PICK first, end : first = <<First(word)>> /\ end = <<Blank>>
  OBVIOUS
<1>2. first \in Seq(Tokens)
  BY <1>1, TokensAre
<1>3. end \in Seq(Tokens)
  BY <1>1, TokensAre
<1>4. PICK opened : opened = fields \o end
  OBVIOUS
<1>5. opened \in Seq(Tokens) /\ first \o fields \in Seq(Tokens)
  BY <1>2, <1>3, <1>4
<1>6. first \o (opened \o rest) = (first \o opened) \o rest
  BY <1>2, <1>5, Regroup
<1>7. first \o opened = (first \o fields) \o end
  BY <1>2, <1>3, <1>4, Regroup
<1>8. QED
  BY <1>1, <1>4, <1>5, <1>6, <1>7 DEF HeadOpens, Prefixed, Opened, HeadOf

LEMMA LengthOpened ==
    ASSUME NEW word \in {"POST", "200", "204"}, NEW body, IsBody(body)
    PROVE  Prefixed(word, ByLength(body)) = Opened(HeadOf(word, <<LengthField(Len(body))>>), body)
<1>1. PICK field : field = LengthField(Len(body))
  OBVIOUS
<1>2. field \in Tokens
  BY <1>1, TokensAre DEF IsBody
<1>3. <<field>> \in Seq(Tokens)
  BY <1>2
<1>4. <<field, Blank>> = <<field>> \o <<Blank>>
  OBVIOUS
<1>5. ByLength(body) = <<field, Blank>> \o body
  BY <1>1 DEF ByLength, LengthField
<1>6. QED
  <2>1. HeadOpens(word, <<field>>, body)
    BY <1>3, HeadIsFirst DEF IsBody
  <2>2. Prefixed(word, (<<field>> \o <<Blank>>) \o body) = Opened(HeadOf(word, <<field>>), body)
    BY <2>1 DEF HeadOpens
  <2>3. QED
    BY <1>1, <1>4, <1>5, <2>2

LEMMA NothingOpened ==
    ASSUME NEW word \in {"POST", "200", "204"}, NEW rest \in Seq(Tokens)
    PROVE  Prefixed(word, <<Blank>> \o rest) = Opened(HeadOf(word, <<>>), rest)
<1>1. <<Blank>> \in Seq(Tokens)
  BY TokensAre
<1>2. <<>> \o <<Blank>> = <<Blank>>
  BY <1>1, EmptyJoined
<1>3. <<>> \in Seq(Tokens)
  OBVIOUS
<1>4. QED
  <2>1. HeadOpens(word, <<>>, rest)
    BY <1>3, HeadIsFirst
  <2>2. Prefixed(word, (<<>> \o <<Blank>>) \o rest) = Opened(HeadOf(word, <<>>), rest)
    BY <2>1 DEF HeadOpens
  <2>3. QED
    BY <1>2, <2>2

LEMMA ChunksOpened ==
    ASSUME NEW word \in {"POST", "200", "204"}, NEW body, IsBody(body), NEW ends, CutsUp(ends, Len(body)),
           NEW before \in Seq(Tokens), NEW trailer \in Seq(Tokens)
    PROVE  Prefixed(word, ByChunks(body, ends, before, trailer)) =
               Opened(HeadOf(word, before \o <<Encoding>>), InPieces(body, ends, trailer, <<>>))
<1>1. PICK pieces, encoding, zero, end :
          /\ pieces = Pieces(body, ends) /\ encoding = <<Encoding>>
          /\ zero = <<Size(0)>> /\ end = <<Blank>>
  OBVIOUS
<1>2. pieces \in Seq(Tokens)
  BY <1>1, TokensAre, PiecesAre DEF IsBody
<1>3. encoding \in Seq(Tokens)
  BY <1>1, TokensAre
<1>4. zero \in Seq(Tokens)
  <2>1. Size(0) \in Tokens
    BY TokensAre
  <2>2. QED
    BY <1>1, <2>1
<1>5. end \in Seq(Tokens)
  BY <1>1, TokensAre
<1>6. PICK fields : fields = before \o encoding
  OBVIOUS
<1>7. fields \in Seq(Tokens)
  BY <1>3, <1>6
<1>8. <<Encoding, Blank>> = encoding \o end
  <2>1. <<Encoding, Blank>> = <<Encoding>> \o <<Blank>>
    OBVIOUS
  <2>2. QED
    BY <1>1, <2>1
<1>9. before \o (encoding \o end) = fields \o end
  <2>1. (before \o encoding) \o end = before \o (encoding \o end)
    BY <1>3, <1>5, Regroup
  <2>2. QED
    BY <1>6, <2>1
<1>10. PICK opening : opening = fields \o end
  OBVIOUS
<1>11. opening \in Seq(Tokens)
  BY <1>5, <1>7, <1>10
<1>12. (((opening \o pieces) \o zero) \o trailer) \o end = opening \o (pieces \o (zero \o (trailer \o end)))
  <2>1. PICK a, b, c : a = opening \o pieces /\ b = a \o zero /\ c = trailer \o end
    OBVIOUS
  <2>2. a \in Seq(Tokens)
    BY <1>2, <1>11, <2>1
  <2>3. b \in Seq(Tokens)
    BY <1>4, <2>1, <2>2
  <2>4. c \in Seq(Tokens)
    BY <1>5, <2>1
  <2>5. (b \o trailer) \o end = b \o c
    <3>1. (b \o trailer) \o end = b \o (trailer \o end)
      BY <1>5, <2>3, Regroup
    <3>2. QED
      BY <2>1, <3>1
  <2>6. b \o c = a \o (zero \o c)
    <3>1. (a \o zero) \o c = a \o (zero \o c)
      BY <1>4, <2>2, <2>4, Regroup
    <3>2. QED
      BY <2>1, <3>1
  <2>7. PICK d : d = zero \o c
    OBVIOUS
  <2>8. d \in Seq(Tokens)
    BY <1>4, <2>4, <2>7
  <2>9. a \o d = opening \o (pieces \o d)
    <3>1. (opening \o pieces) \o d = opening \o (pieces \o d)
      BY <1>2, <1>11, <2>8, Regroup
    <3>2. QED
      BY <2>1, <3>1
  <2>10. QED
    BY <2>1, <2>5, <2>6, <2>7, <2>9
<1>13. PICK rest : rest = pieces \o (zero \o (trailer \o end))
  OBVIOUS
<1>14. rest \in Seq(Tokens)
  <2>1. PICK c : c = trailer \o end
    OBVIOUS
  <2>2. c \in Seq(Tokens)
    BY <1>5, <2>1
  <2>3. PICK d : d = zero \o c
    OBVIOUS
  <2>4. d \in Seq(Tokens)
    BY <1>4, <2>2, <2>3
  <2>5. QED
    BY <1>2, <1>13, <2>1, <2>3, <2>4
<1>15. ByChunks(body, ends, before, trailer) = (fields \o end) \o rest
  <2>1. ByChunks(body, ends, before, trailer) =
            ((((before \o <<Encoding, Blank>>) \o pieces) \o zero) \o trailer) \o end
    BY <1>1 DEF ByChunks, Encoding
  <2>2. QED
    BY <1>8, <1>9, <1>10, <1>12, <1>13, <2>1
<1>16. rest = InPieces(body, ends, trailer, <<>>)
  <2>1. PICK c : c = trailer \o end
    OBVIOUS
  <2>2. c \in Seq(Tokens)
    BY <1>5, <2>1
  <2>3. c \o <<>> = c
    BY <2>2, EmptyJoined
  <2>4. Opened(trailer, <<>>) = c
    BY <1>1, <2>1, <2>3 DEF Opened
  <2>5. QED
    BY <1>1, <1>13, <2>1, <2>4 DEF InPieces, Trailed
<1>17. Prefixed(word, (fields \o <<Blank>>) \o rest) = Opened(HeadOf(word, fields), rest)
  <2>1. HeadOpens(word, fields, rest)
    BY <1>7, <1>14, HeadIsFirst
  <2>2. QED
    BY <2>1 DEF HeadOpens
<1>18. QED
  BY <1>1, <1>6, <1>15, <1>16, <1>17

LEMMA InPiecesOn ==
    ASSUME NEW body, IsBody(body), NEW ends, CutsUp(ends, Len(body)),
           NEW trailer \in Seq(Tokens), NEW follower \in Seq(Tokens)
    PROVE  InPieces(body, ends, trailer, <<>>) \o follower = InPieces(body, ends, trailer, follower)
<1>1. PICK pieces, zero, trail : pieces = Pieces(body, ends) /\ zero = <<Size(0)>>
                                 /\ trail = Opened(trailer, <<>>)
  OBVIOUS
<1>2. pieces \in Seq(Tokens)
  BY <1>1, TokensAre, PiecesAre DEF IsBody
<1>3. zero \in Seq(Tokens)
  <2>1. Size(0) \in Tokens
    BY TokensAre
  <2>2. QED
    BY <1>1, <2>1
<1>4. <<>> \in Seq(Tokens) /\ <<>> \o follower = follower
  BY EmptyJoined
<1>5. trail \in Seq(Tokens)
  BY <1>1, <1>4, TokensAre, OpenedIs DEF IsOpened
<1>6. trail \o follower = Opened(trailer, follower)
  <2>1. Opened(trailer, <<>>) \o follower = Opened(trailer, <<>> \o follower)
    BY <1>4, OpenedOn
  <2>2. QED
    BY <1>1, <1>4, <2>1
<1>7. PICK rest : rest = zero \o trail
  OBVIOUS
<1>8. rest \in Seq(Tokens)
  BY <1>3, <1>5, <1>7
<1>9. rest \o follower = zero \o (trail \o follower)
  BY <1>3, <1>5, <1>7, Regroup
<1>10. (pieces \o rest) \o follower = pieces \o (rest \o follower)
  BY <1>2, <1>8, Regroup
<1>11. QED
  BY <1>1, <1>6, <1>7, <1>9, <1>10 DEF InPieces, Trailed

\* What is sent on says its length, unless its end or its status says that.
EncodesAs(message, word, body) ==
    /\ Encode(message, TRUE) = Opened(HeadOf(word, <<LengthField(Len(body))>>), body)
    /\ Encode(message, FALSE) = Opened(HeadOf(word, <<>>), body)

LEMMA EncodedIs ==
    ASSUME NEW word \in {"POST", "200", "204"}, NEW fields, Telling(fields),
           NEW body \in Seq(Tokens), NEW open
    PROVE  EncodesAs(MessageOf(word, fields, body, open), word, body)
<1>1. PICK message : message = MessageOf(word, fields, body, open)
  OBVIOUS
<1>2. message.first = word /\ message.fields = fields /\ message.body = body
  BY <1>1 DEF MessageOf
<1>3. PICK first : first = <<First(word)>>
  OBVIOUS
<1>4. first \in Seq(Tokens)
  BY <1>3, TokensAre
<1>5. first \o Kept(fields) = first
  BY <1>4, NothingKept, EmptyJoined
<1>6. Encode(message, TRUE) = ((first \o <<LengthField(Len(body))>>) \o <<Blank>>) \o body
  BY <1>2, <1>3, <1>5 DEF Encode, LengthField
<1>7. Encode(message, FALSE) = ((first \o <<>>) \o <<Blank>>) \o body
  BY <1>2, <1>3, <1>5 DEF Encode
<1>8. QED
  BY <1>1, <1>3, <1>6, <1>7 DEF EncodesAs, Opened, HeadOf

-----------------------------------------------------------------------------
\* What is framed by a length or by chunks reads the same as a request and as
\* an answer, and is sent on with its length.

BothRead(socket, reading) == ReadRequest(socket) = reading /\ ReadResponse(socket, "POST") = reading
RestRead(word, fields, rest, framing) ==
    IF IsTaken(ReadBody(rest, framing))
    THEN Taken(MessageOf(word, fields, ReadBody(rest, framing).result, FALSE),
               ReadBody(rest, framing).left)
    ELSE Failed

SaysItself(fields, framing) ==
    /\ Telling(fields) /\ framing # UntilClose /\ \A open \in BOOLEAN : Framing(fields, open) = framing

LEMMA OpenedIsRead ==
    ASSUME NEW word \in {"POST", "200"}, NEW fields, NEW framing, SaysItself(fields, framing),
           NEW rest \in Seq(Tokens)
    PROVE  BothRead(Opened(HeadOf(word, fields), rest), RestRead(word, fields, rest, framing))
<1>1. PICK h : h = HeadOf(word, fields)
  OBVIOUS
<1>2. HeadSays(h, word, fields)
  BY <1>1, HeadOfSays DEF SaysItself
<1>3. ReadAs(h, word, fields, rest)
  BY <1>2, MessageIsRead
<1>4. BodyRead(word, fields, rest, framing) = RestRead(word, fields, rest, framing)
  <2>1. (framing = UntilClose) = FALSE
    BY DEF SaysItself
  <2>2. QED
    BY <2>1 DEF BodyRead, RestRead
<1>5. ReadRequest(Opened(h, rest)) = BodyRead(word, fields, rest, framing)
  <2>1. ReadRequest(Opened(h, rest)) = BodyRead(word, fields, rest, Framing(fields, FALSE))
    BY <1>3 DEF ReadAs
  <2>2. QED
    BY <2>1 DEF SaysItself
<1>6. ReadResponse(Opened(h, rest), "POST") = BodyRead(word, fields, rest, framing)
  <2>1. ReadResponse(Opened(h, rest), "POST") =
            BodyRead(word, fields, rest,
                     IF "POST" = "HEAD" \/ word = "204" THEN Empty ELSE Framing(fields, TRUE))
    BY <1>3 DEF ReadAs
  <2>2. ~("POST" = "HEAD" \/ word = "204")
    OBVIOUS
  <2>3. QED
    BY <2>1, <2>2 DEF SaysItself
<1>7. QED
  BY <1>1, <1>4, <1>5, <1>6 DEF BothRead

LEMMA TakenIs ==
    ASSUME NEW message, NEW left
    PROVE  /\ IsTaken(Taken(message, left)) /\ Taken(message, left).result = message
           /\ Taken(message, left).left = left /\ ~IsTaken(Failed)
BY DEF IsTaken, Taken, Failed

LEMMA LengthSays ==
    ASSUME NEW n \in Nat
    PROVE  SaysItself(<<LengthField(n)>>, Length(n))
<1>1. SaysLength(<<LengthField(n)>>, n)
  BY OneLength
<1>2. Length(n) # UntilClose
  BY FramingsDiffer
<1>3. QED
  BY <1>1, <1>2 DEF SaysLength, SaysItself

LEMMA ChunksSay ==
    ASSUME NEW before \in {<<>>, <<LengthField(1)>>}
    PROVE  SaysItself(before \o <<Encoding>>, Chunked)
<1>1. SaysChunks(before \o <<Encoding>>)
  BY InChunks
<1>2. Chunked # UntilClose
  BY FramingsDiffer
<1>3. QED
  BY <1>1, <1>2 DEF SaysChunks, SaysItself

\* Whatever says where the body ends, if it is read to be the body it is read
\* to be that again.
IsRelayed(socket, body, follower) ==
    /\ Relays(ReadRequest(socket), body, EncodeRequest, ReadRequest, follower)
    /\ Relays(ReadResponse(socket, "POST"), body,
              EncodeResponse, LAMBDA s : ReadResponse(s, "POST"), follower)

LEMMA WhatIsSentOn ==
    ASSUME NEW word \in {"POST", "200"}, NEW fields, Telling(fields),
           NEW body, IsBody(body), NEW follower \in Seq(Tokens),
           NEW socket, BothRead(socket, Taken(MessageOf(word, fields, body, FALSE), follower))
    PROVE  IsRelayed(socket, body, follower)
<1>1. PICK message : message = MessageOf(word, fields, body, FALSE)
  OBVIOUS
<1>2. PICK reading : reading = Taken(message, follower)
  OBVIOUS
<1>3. IsTaken(reading) /\ reading.result = message /\ reading.left = follower /\ message.body = body
  BY <1>1, <1>2, TakenIs DEF MessageOf
<1>4. PICK n, own : n = Len(body) /\ own = <<LengthField(Len(body))>>
  OBVIOUS
<1>5. n \in Nat /\ body \in Seq(Tokens)
  BY <1>4 DEF IsBody
<1>6. SaysItself(own, Length(n)) /\ Telling(own)
  BY <1>4, <1>5, LengthSays DEF SaysItself
<1>7. PICK whole : whole = Opened(HeadOf(word, own), body)
  OBVIOUS
<1>8. PICK again : again = MessageOf(word, own, body, FALSE)
  OBVIOUS
<1>9. Encode(message, TRUE) = whole /\ Encode(again, TRUE) = whole
  <2>1. EncodesAs(message, word, body)
    BY <1>1, <1>5, EncodedIs
  <2>2. EncodesAs(again, word, body)
    BY <1>5, <1>6, <1>8, EncodedIs
  <2>3. QED
    BY <1>4, <1>7, <2>1, <2>2 DEF EncodesAs
<1>10. EncodeRequest(message) = whole /\ EncodeRequest(again) = whole
  BY <1>9 DEF EncodeRequest
<1>11. EncodeResponse(message) = whole /\ EncodeResponse(again) = whole
  <2>1. /\ message.first = word /\ message.openEnded = FALSE
        /\ again.first = word /\ again.openEnded = FALSE /\ word # "204"
    BY <1>1, <1>8 DEF MessageOf
  <2>2. (~message.openEnded /\ HasBody(message.first)) = TRUE
    BY <2>1 DEF HasBody
  <2>3. (~again.openEnded /\ HasBody(again.first)) = TRUE
    BY <2>1 DEF HasBody
  <2>4. QED
    BY <1>9, <2>2, <2>3 DEF EncodeResponse
<1>12. PICK next : next = Taken(again, follower)
  OBVIOUS
<1>13. IsTaken(next) /\ next.result = again /\ next.left = follower /\ again.body = body
  BY <1>8, <1>12, TakenIs DEF MessageOf
<1>14. BothRead(whole \o follower, next)
  <2>1. HeadOf(word, own) \in Seq(Tokens)
    BY <1>6, HeadOfSays DEF HeadSays
  <2>2. whole \o follower = Opened(HeadOf(word, own), body \o follower)
    BY <1>5, <1>7, <2>1, OpenedOn
  <2>3. PICK rest : rest = body \o follower
    OBVIOUS
  <2>4. rest \in Seq(Tokens)
    BY <1>5, <2>3
  <2>5. BothRead(Opened(HeadOf(word, own), rest), RestRead(word, own, rest, Length(n)))
    BY <1>6, <2>4, OpenedIsRead
  <2>6. ReadBody(rest, Length(n)) = Taken(body, follower)
    BY <1>4, <2>3, LengthIsRead
  <2>7. RestRead(word, own, rest, Length(n)) = next
    <3>1. PICK read : read = ReadBody(rest, Length(n))
      OBVIOUS
    <3>2. IsTaken(read) /\ read.result = body /\ read.left = follower
      BY <2>6, <3>1, TakenIs
    <3>3. QED
      BY <1>8, <1>12, <3>1, <3>2 DEF RestRead
  <2>8. QED
    BY <2>2, <2>3, <2>5, <2>7
<1>15. ReadRequest(socket) = reading /\ ReadResponse(socket, "POST") = reading
  BY <1>1, <1>2 DEF BothRead
<1>16. ReadRequest(whole \o follower) = next /\ ReadResponse(whole \o follower, "POST") = next
  BY <1>14 DEF BothRead
<1>17. Relays(ReadRequest(socket), body, EncodeRequest, ReadRequest, follower)
  BY <1>3, <1>10, <1>13, <1>15, <1>16 DEF Relays
<1>18. Relays(ReadResponse(socket, "POST"), body,
              EncodeResponse, LAMBDA s : ReadResponse(s, "POST"), follower)
  BY <1>3, <1>11, <1>13, <1>15, <1>16 DEF Relays
<1>19. QED
  BY <1>17, <1>18 DEF IsRelayed

-----------------------------------------------------------------------------
\* The ways of the standard.

InChunksWith(framed, body, ends, before, trailer) ==
    /\ CutsUp(ends, Len(body)) /\ before \in {<<>>, <<LengthField(1)>>} /\ before \in Seq(Tokens)
    /\ trailer \in Seq(Tokens) /\ NoBlank(trailer)
    /\ framed = ByChunks(body, ends, before, trailer)

LEMMA FramedAre ==
    ASSUME NEW body, IsBody(body), NEW framed \in Framed(body)
    PROVE  \/ framed = ByLength(body)
           \/ \E ends, before, trailer : InChunksWith(framed, body, ends, before, trailer)
<1>1. SUFFICES ASSUME framed # ByLength(body)
               PROVE  \E ends, before, trailer : InChunksWith(framed, body, ends, before, trailer)
  OBVIOUS
<1>2. PICK ends \in Cuts(body), before \in {<<>>, <<Field("content-length", <<1>>)>>},
           trailer \in {<<>>, <<Field("digest", <<>>)>>} :
          framed = ByChunks(body, ends, before, trailer)
  BY <1>1 DEF Framed
<1>3. CutsUp(ends, Len(body))
  BY CutsAre DEF IsBody
<1>4. before \in {<<>>, <<LengthField(1)>>}
  BY DEF LengthField
<1>5. before \in Seq(Tokens)
  <2>1. LengthField(1) \in Tokens
    BY TokensAre
  <2>2. <<LengthField(1)>> \in Seq(Tokens)
    BY <2>1
  <2>3. <<>> \in Seq(Tokens)
    OBVIOUS
  <2>4. QED
    BY <1>4, <2>2, <2>3
<1>6. trailer \in Seq(Tokens) /\ NoBlank(trailer)
  <2>1. Digest \in Tokens /\ Digest # Blank
    BY TokensAre, TokensDiffer
  <2>2. PICK digest : digest = Digest
    OBVIOUS
  <2>3. trailer = <<>> \/ trailer = <<digest>>
    BY <2>2 DEF Digest
  <2>4. CASE trailer = <<>>
    BY <2>4 DEF NoBlank
  <2>5. CASE trailer = <<digest>>
    <3>1. trailer \in Seq(Tokens) /\ Len(trailer) = 1 /\ trailer[1] = digest
      BY <2>1, <2>2, <2>5
    <3>2. \A i \in 1 .. 1 : i = 1
      OBVIOUS
    <3>3. QED
      BY <2>1, <2>2, <3>1, <3>2 DEF NoBlank
  <2>6. QED
    BY <2>3, <2>4, <2>5
<1>7. InChunksWith(framed, body, ends, before, trailer)
  BY <1>2, <1>3, <1>4, <1>5, <1>6 DEF InChunksWith
<1>8. QED
  BY <1>7

LEMMA FollowersAre ==
    ASSUME NEW follower \in Followers
    PROVE  follower \in Seq(Tokens)
<1>1. PICK first, field : first = First("200") /\ field = LengthField(0)
  OBVIOUS
<1>2. first \in Tokens /\ field \in Tokens /\ Blank \in Tokens
  BY <1>1, TokensAre
<1>3. <<first, field, Blank>> \in Seq(Tokens)
  BY <1>2
<1>4. follower = <<>> \/ follower = <<first, field, Blank>>
  BY <1>1 DEF Followers, LengthField
<1>5. <<>> \in Seq(Tokens)
  OBVIOUS
<1>6. QED
  BY <1>3, <1>4, <1>5

\* Such a message is its head, a blank and a rest that reads as the body.
ReadsAs(message, word, fields, framing, body) ==
    \E rest \in Seq(Tokens) :
        /\ SaysItself(fields, framing)
        /\ message = Opened(HeadOf(word, fields), rest)
        /\ \A follower \in Seq(Tokens) : ReadBody(rest \o follower, framing) = Taken(body, follower)
        /\ \A k \in 0 .. Len(rest) - 1 :
               \/ ReadBody(SubSeq(rest, 1, k), framing) = Failed
               \/ /\ \E j \in 1 .. k : rest[j] = Size(0)
                  /\ \E left : ReadBody(SubSeq(rest, 1, k), framing) = Taken(body, left)

LEMMA LengthReads ==
    ASSUME NEW word \in {"POST", "200"}, NEW body, IsBody(body)
    PROVE  ReadsAs(Prefixed(word, ByLength(body)), word, <<LengthField(Len(body))>>,
                 Length(Len(body)), body)
<1>1. Len(body) \in Nat /\ body \in Seq(Tokens)
  BY DEF IsBody
<1>2. SaysItself(<<LengthField(Len(body))>>, Length(Len(body)))
  BY <1>1, LengthSays
<1>3. Prefixed(word, ByLength(body)) = Opened(HeadOf(word, <<LengthField(Len(body))>>), body)
  BY LengthOpened
<1>4. \A follower \in Seq(Tokens) : ReadBody(body \o follower, Length(Len(body))) = Taken(body, follower)
  BY LengthIsRead
<1>5. \A k \in 0 .. Len(body) - 1 : ReadBody(SubSeq(body, 1, k), Length(Len(body))) = Failed
  <2>1. \A k \in 0 .. Len(body) - 1 : k \in Nat /\ k < Len(body)
    BY <1>1
  <2>2. QED
    BY <2>1, LengthIsMissed
<1>6. QED
  BY <1>1, <1>2, <1>3, <1>4, <1>5 DEF ReadsAs

LEMMA ChunkedReads ==
    ASSUME NEW word \in {"POST", "200"}, NEW body, IsBody(body), NEW framed,
           NEW ends, NEW before, NEW trailer, InChunksWith(framed, body, ends, before, trailer)
    PROVE  ReadsAs(Prefixed(word, framed), word, before \o <<Encoding>>, Chunked, body)
<1>1. /\ CutsUp(ends, Len(body)) /\ before \in {<<>>, <<LengthField(1)>>} /\ before \in Seq(Tokens)
      /\ trailer \in Seq(Tokens) /\ NoBlank(trailer)
      /\ framed = ByChunks(body, ends, before, trailer)
  BY DEF InChunksWith
<1>2. PICK fields : fields = before \o <<Encoding>>
  OBVIOUS
<1>3. SaysItself(fields, Chunked)
  BY <1>1, <1>2, ChunksSay
<1>4. PICK rest : rest = InPieces(body, ends, trailer, <<>>)
  OBVIOUS
<1>5. Prefixed(word, framed) = Opened(HeadOf(word, fields), rest)
  BY <1>1, <1>2, <1>4, ChunksOpened
<1>6. \A follower \in Seq(Tokens) : ReadBody(rest \o follower, Chunked) = Taken(body, follower)
  <2>1. SUFFICES ASSUME NEW follower \in Seq(Tokens)
                 PROVE  ReadBody(rest \o follower, Chunked) = Taken(body, follower)
    OBVIOUS
  <2>2. rest \o follower = InPieces(body, ends, trailer, follower)
    BY <1>1, <1>4, InPiecesOn
  <2>3. ReadBody(InPieces(body, ends, trailer, follower), Chunked) = Taken(body, follower)
    BY <1>1, PiecesAreRead
  <2>4. QED
    BY <2>2, <2>3
<1>7. PICK o : o = PlaceOf(ends, Len(ends))
  OBVIOUS
<1>8. <<>> \in Seq(Tokens)
  OBVIOUS
<1>9. o \in Nat
  BY <1>1, <1>7, TokensAre, PiecesAre DEF IsBody
<1>10. rest \in Seq(Tokens) /\ rest[o + 1] = Size(0)
  <2>1. IsInPieces(rest, o, body, ends, trailer, <<>>)
    BY <1>1, <1>4, <1>7, <1>8, InPiecesAre
  <2>2. QED
    BY <2>1 DEF IsInPieces
<1>11. WholeOrNot(rest, o, body)
  BY <1>1, <1>4, <1>7, <1>8, PiecesAreRead
<1>12. ASSUME NEW k \in 0 .. Len(rest) - 1
       PROVE  \/ ReadBody(SubSeq(rest, 1, k), Chunked) = Failed
              \/ /\ \E j \in 1 .. k : rest[j] = Size(0)
                 /\ \E left : ReadBody(SubSeq(rest, 1, k), Chunked) = Taken(body, left)
  <2>1. k \in 0 .. Len(rest) /\ k \in Nat
    BY <1>10
  <2>2. k > o => o + 1 \in 1 .. k
    BY <1>9, <2>1
  <2>3. \/ ReadBody(SubSeq(rest, 1, k), Chunked) = Failed
        \/ k > o /\ \E left : ReadBody(SubSeq(rest, 1, k), Chunked) = Taken(body, left)
    BY <1>11, <2>1 DEF WholeOrNot
  <2>4. QED
    BY <1>10, <2>2, <2>3
<1>13. ReadsAs(Prefixed(word, framed), word, fields, Chunked, body)
  BY <1>3, <1>5, <1>6, <1>10, <1>12 DEF ReadsAs
<1>14. QED
  BY <1>2, <1>13

LEMMA FramedReads ==
    ASSUME NEW word \in {"POST", "200"}, NEW body, IsBody(body), NEW framed \in Framed(body)
    PROVE  \E fields, framing : ReadsAs(Prefixed(word, framed), word, fields, framing, body)
<1>1. CASE framed = ByLength(body)
  BY <1>1, LengthReads
<1>2. ASSUME NEW ends, NEW before, NEW trailer, InChunksWith(framed, body, ends, before, trailer)
      PROVE  \E fields, framing : ReadsAs(Prefixed(word, framed), word, fields, framing, body)
  BY <1>2, ChunkedReads
<1>3. QED
  BY <1>1, <1>2, FramedAre

LEMMA ReadsTheBody ==
    ASSUME NEW word \in {"POST", "200"}, NEW body, NEW message, NEW fields, NEW framing,
           ReadsAs(message, word, fields, framing, body), NEW follower \in Seq(Tokens)
    PROVE  BothRead(message \o follower, Taken(MessageOf(word, fields, body, FALSE), follower))
<1>1. PICK rest \in Seq(Tokens) :
          /\ SaysItself(fields, framing)
          /\ message = Opened(HeadOf(word, fields), rest)
          /\ ReadBody(rest \o follower, framing) = Taken(body, follower)
  BY DEF ReadsAs
<1>2. PICK all : all = rest \o follower
  OBVIOUS
<1>3. all \in Seq(Tokens)
  BY <1>2
<1>4. HeadOf(word, fields) \in Seq(Tokens)
  BY <1>1, HeadOfSays DEF HeadSays, SaysItself
<1>5. message \o follower = Opened(HeadOf(word, fields), all)
  BY <1>1, <1>2, <1>4, OpenedOn
<1>6. BothRead(Opened(HeadOf(word, fields), all), RestRead(word, fields, all, framing))
  BY <1>1, <1>3, OpenedIsRead
<1>7. RestRead(word, fields, all, framing) = Taken(MessageOf(word, fields, body, FALSE), follower)
  <2>1. PICK read : read = ReadBody(all, framing)
    OBVIOUS
  <2>2. IsTaken(read) /\ read.result = body /\ read.left = follower
    BY <1>1, <1>2, <2>1, TakenIs
  <2>3. QED
    BY <2>1, <2>2 DEF RestRead
<1>8. QED
  BY <1>5, <1>6, <1>7

LEMMA AllAreRelayed == EachIsRelayed
<1>1. SUFFICES ASSUME NEW body \in Bodies, NEW framed \in Framed(body), NEW follower \in Followers
               PROVE  /\ Relays(ReadRequest(Prefixed("POST", framed) \o follower), body,
                                EncodeRequest, ReadRequest, follower)
                      /\ Relays(ReadResponse(Prefixed("200", framed) \o follower, "POST"), body,
                                EncodeResponse, LAMBDA socket : ReadResponse(socket, "POST"), follower)
  BY DEF EachIsRelayed
<1>2. IsBody(body)
  BY BodiesAre
<1>3. follower \in Seq(Tokens)
  BY FollowersAre
<1>4. ASSUME NEW word \in {"POST", "200"}
      PROVE  IsRelayed(Prefixed(word, framed) \o follower, body, follower)
  <2>1. PICK fields, framing : ReadsAs(Prefixed(word, framed), word, fields, framing, body)
    BY <1>2, FramedReads
  <2>2. BothRead(Prefixed(word, framed) \o follower, Taken(MessageOf(word, fields, body, FALSE), follower))
    BY <1>3, <2>1, ReadsTheBody
  <2>3. Telling(fields)
    BY <2>1 DEF ReadsAs, SaysItself
  <2>4. QED
    BY <1>2, <1>3, <2>2, <2>3, WhatIsSentOn
<1>5. QED
  BY <1>4 DEF IsRelayed

\* Bodies that are not there.

Answers(socket, method, reading) == ReadResponse(socket, method) = reading

LEMMA BodilessIsRead ==
    ASSUME NEW word \in {"200", "204"}, NEW method, method = "HEAD" \/ word = "204",
           NEW fields, Telling(fields), NEW rest \in Seq(Tokens)
    PROVE  Answers(Opened(HeadOf(word, fields), rest), method,
                   Taken(MessageOf(word, fields, <<>>, FALSE), rest))
<1>1. PICK h : h = HeadOf(word, fields)
  OBVIOUS
<1>2. HeadSays(h, word, fields)
  BY <1>1, HeadOfSays
<1>3. ReadAs(h, word, fields, rest)
  BY <1>2, MessageIsRead
<1>4. ReadResponse(Opened(h, rest), method) = BodyRead(word, fields, rest, Empty)
  <2>1. ReadResponse(Opened(h, rest), method) =
            BodyRead(word, fields, rest,
                     IF method = "HEAD" \/ word = "204" THEN Empty ELSE Framing(fields, TRUE))
    BY <1>3 DEF ReadAs
  <2>2. QED
    BY <2>1
<1>5. BodyRead(word, fields, rest, Empty) = Taken(MessageOf(word, fields, <<>>, FALSE), rest)
  <2>1. PICK read : read = ReadBody(rest, Empty)
    OBVIOUS
  <2>2. IsTaken(read) /\ read.result = <<>> /\ read.left = rest
    BY <2>1, NothingIsRead, TakenIs
  <2>3. (Empty = UntilClose) = FALSE
    BY FramingsDiffer
  <2>4. QED
    BY <2>1, <2>2, <2>3 DEF BodyRead
<1>6. QED
  BY <1>1, <1>4, <1>5 DEF Answers

IsBodiless(socket, method, rest) ==
    Relays(ReadResponse(socket, method), <<>>,
           EncodeResponse, LAMBDA s : ReadResponse(s, method), rest)

\* What is sent on keeps its status, and says that it carries nothing or that
\* it has no body at all.
LEMMA BodilessIsSentOn ==
    ASSUME NEW word \in {"200", "204"}, NEW method, method = "HEAD" \/ word = "204",
           NEW fields, Telling(fields), NEW rest \in Seq(Tokens)
    PROVE  IsBodiless(Opened(HeadOf(word, fields), rest), method, rest)
<1>1. PICK message, reading :
          message = MessageOf(word, fields, <<>>, FALSE) /\ reading = Taken(message, rest)
  OBVIOUS
<1>2. IsTaken(reading) /\ reading.result = message /\ reading.left = rest /\ message.body = <<>>
  BY <1>1, TakenIs DEF MessageOf
<1>3. ReadResponse(Opened(HeadOf(word, fields), rest), method) = reading
  <2>1. Answers(Opened(HeadOf(word, fields), rest), method, reading)
    BY <1>1, BodilessIsRead
  <2>2. QED
    BY <2>1 DEF Answers
<1>4. PICK own : own = IF word = "204" THEN <<>> ELSE <<LengthField(0)>>
  OBVIOUS
<1>5. Telling(own)
  <2>1. Telling(<<>>)
    BY NoFields DEF SaysNothing
  <2>2. Telling(<<LengthField(0)>>)
    BY OneLength DEF SaysLength
  <2>3. QED
    BY <1>4, <2>1, <2>2
<1>6. PICK again, next : again = MessageOf(word, own, <<>>, FALSE) /\ next = Taken(again, rest)
  OBVIOUS
<1>7. IsTaken(next) /\ next.result = again /\ next.left = rest /\ again.body = <<>>
  BY <1>6, TakenIs DEF MessageOf
<1>8. <<>> \in Seq(Tokens) /\ Len(<<>>) = 0 /\ <<>> \o rest = rest
  BY EmptyJoined
<1>9. PICK whole : whole = Opened(HeadOf(word, own), <<>>)
  OBVIOUS
<1>10. EncodeResponse(message) = whole /\ EncodeResponse(again) = whole
  <2>1. EncodesAs(message, word, <<>>) /\ EncodesAs(again, word, <<>>)
    BY <1>1, <1>5, <1>6, <1>8, EncodedIs
  <2>2. PICK length : length = (word # "204")
    OBVIOUS
  <2>3. Encode(message, length) = whole /\ Encode(again, length) = whole
    <3>1. CASE word = "204"
      <4>1. length = FALSE /\ own = <<>>
        BY <1>4, <2>2, <3>1
      <4>2. QED
        BY <1>9, <2>1, <4>1 DEF EncodesAs
    <3>2. CASE word # "204"
      <4>1. length = TRUE /\ own = <<LengthField(0)>>
        BY <1>4, <2>2, <3>2
      <4>2. QED
        BY <1>8, <1>9, <2>1, <4>1 DEF EncodesAs
    <3>3. QED
      BY <3>1, <3>2
  <2>4. /\ message.first = word /\ message.openEnded = FALSE
        /\ again.first = word /\ again.openEnded = FALSE
    BY <1>1, <1>6 DEF MessageOf
  <2>5. (~message.openEnded /\ HasBody(message.first)) = length
    BY <2>2, <2>4 DEF HasBody
  <2>6. (~again.openEnded /\ HasBody(again.first)) = length
    BY <2>2, <2>4 DEF HasBody
  <2>7. QED
    BY <2>3, <2>5, <2>6 DEF EncodeResponse
<1>11. ReadResponse(whole \o rest, method) = next
  <2>1. HeadOf(word, own) \in Seq(Tokens)
    BY <1>5, HeadOfSays DEF HeadSays
  <2>2. whole \o rest = Opened(HeadOf(word, own), <<>> \o rest)
    BY <1>8, <1>9, <2>1, OpenedOn
  <2>3. whole \o rest = Opened(HeadOf(word, own), rest)
    BY <1>8, <2>2
  <2>4. Answers(Opened(HeadOf(word, own), rest), method, next)
    BY <1>5, <1>6, BodilessIsRead
  <2>5. QED
    BY <2>3, <2>4 DEF Answers
<1>12. QED
  BY <1>2, <1>3, <1>7, <1>10, <1>11 DEF IsBodiless, Relays

LEMMA BodilessAre == BodilessAreRelayed
<1>1. SUFFICES ASSUME NEW body \in Bodies, NEW follower \in Followers
               PROVE  /\ Relays(ReadResponse(Prefixed("204", <<Blank>>) \o follower, "POST"), <<>>,
                                EncodeResponse, LAMBDA socket : ReadResponse(socket, "POST"), follower)
                      /\ Relays(ReadResponse(Prefixed("200", ByLength(body)), "HEAD"), <<>>,
                                EncodeResponse, LAMBDA socket : ReadResponse(socket, "HEAD"), body)
  BY DEF BodilessAreRelayed
<1>2. IsBody(body) /\ follower \in Seq(Tokens)
  BY BodiesAre, FollowersAre
<1>3. Prefixed("204", <<Blank>>) \o follower = Opened(HeadOf("204", <<>>), follower)
  <2>1. <<>> \in Seq(Tokens) /\ <<>> \o follower = follower
    BY <1>2, EmptyJoined
  <2>2. <<Blank>> \in Seq(Tokens)
    BY TokensAre
  <2>3. <<Blank>> \o <<>> = <<Blank>>
    BY <2>2, EmptyJoined
  <2>4. Prefixed("204", <<Blank>> \o <<>>) = Opened(HeadOf("204", <<>>), <<>>)
    BY <2>1, NothingOpened
  <2>5. HeadOf("204", <<>>) \in Seq(Tokens)
    BY NoFields, HeadOfSays DEF HeadSays, SaysNothing
  <2>6. Opened(HeadOf("204", <<>>), <<>>) \o follower = Opened(HeadOf("204", <<>>), <<>> \o follower)
    BY <1>2, <2>1, <2>5, OpenedOn
  <2>7. QED
    BY <2>1, <2>3, <2>4, <2>6
<1>4. Prefixed("200", ByLength(body)) = Opened(HeadOf("200", <<LengthField(Len(body))>>), body)
  BY <1>2, LengthOpened
<1>5. Telling(<<>>) /\ Telling(<<LengthField(Len(body))>>)
  BY <1>2, NoFields, OneLength DEF IsBody, SaysNothing, SaysLength
<1>6. IsBodiless(Opened(HeadOf("204", <<>>), follower), "POST", follower)
  BY <1>2, <1>5, BodilessIsSentOn
<1>7. IsBodiless(Opened(HeadOf("200", <<LengthField(Len(body))>>), body), "HEAD", body)
  BY <1>2, <1>5, BodilessIsSentOn DEF IsBody
<1>8. QED
  BY <1>3, <1>4, <1>6, <1>7 DEF IsBodiless

\* A body that only the end of the connection ends.
LEMMA OpenEndsAre == OpenEndsAreClosed
<1>1. SUFFICES ASSUME NEW body \in Bodies
               PROVE  LET reading == ReadResponse(Prefixed("200", ByClosing(body)), "POST")
                      IN  /\ IsTaken(reading) /\ reading.result.body = body
                          /\ ClosesConnection(reading.result)
                          /\ EncodeResponse(reading.result) = Prefixed("200", ByClosing(body))
  BY DEF OpenEndsAreClosed
<1>2. IsBody(body) /\ body \in Seq(Tokens)
  BY BodiesAre DEF IsBody
<1>3. PICK whole : whole = Opened(HeadOf("200", <<>>), body)
  OBVIOUS
<1>4. Prefixed("200", ByClosing(body)) = whole
  BY <1>2, <1>3, NothingOpened DEF ByClosing
<1>5. Telling(<<>>) /\ Framing(<<>>, TRUE) = UntilClose
  BY NoFields DEF SaysNothing
<1>6. PICK message : message = MessageOf("200", <<>>, body, TRUE)
  OBVIOUS
<1>7. ReadResponse(whole, "POST") = Taken(message, <<>>)
  <2>1. PICK h, fields : h = HeadOf("200", <<>>) /\ fields = <<>>
    OBVIOUS
  <2>2. HeadSays(h, "200", fields)
    BY <1>5, <2>1, HeadOfSays
  <2>3. ReadAs(h, "200", fields, body)
    BY <1>2, <2>2, MessageIsRead
  <2>4. ReadResponse(Opened(h, body), "POST") =
            BodyRead("200", fields, body,
                     IF "POST" = "HEAD" \/ "200" = "204" THEN Empty ELSE Framing(fields, TRUE))
    BY <2>3 DEF ReadAs
  <2>5. ReadResponse(Opened(h, body), "POST") = BodyRead("200", fields, body, UntilClose)
    BY <1>5, <2>1, <2>4
  <2>6. PICK read : read = ReadBody(body, UntilClose)
    OBVIOUS
  <2>7. IsTaken(read) /\ read.result = body /\ read.left = <<>>
    BY <1>2, <2>6, OpenEndIsRead, TakenIs
  <2>8. BodyRead("200", fields, body, UntilClose) = Taken(message, <<>>)
    <3>1. (UntilClose = UntilClose) = TRUE
      OBVIOUS
    <3>2. QED
      BY <1>6, <2>1, <2>6, <2>7, <3>1 DEF BodyRead
  <2>9. QED
    BY <1>3, <2>1, <2>5, <2>8
<1>8. PICK reading : reading = ReadResponse(whole, "POST")
  OBVIOUS
<1>9. IsTaken(reading) /\ reading.result = message /\ message.body = body /\ message.openEnded = TRUE
  BY <1>6, <1>7, <1>8, TakenIs DEF MessageOf
<1>10. ClosesConnection(message)
  BY <1>9 DEF ClosesConnection
<1>11. EncodeResponse(message) = whole
  <2>1. EncodesAs(message, "200", body)
    BY <1>2, <1>5, <1>6, EncodedIs
  <2>2. (~message.openEnded /\ HasBody(message.first)) = FALSE
    BY <1>9
  <2>3. Encode(message, FALSE) = whole
    BY <1>3, <2>1 DEF EncodesAs
  <2>4. QED
    BY <2>2, <2>3 DEF EncodeResponse
<1>12. QED
  BY <1>4, <1>8, <1>9, <1>10, <1>11

\* Messages that are cut off.

CutOffAt(message, i) ==
    LET cut == SubSeq(message, 1, i)
    IN  \/ ~IsTaken(ReadRequest(cut)) /\ ~IsTaken(ReadResponse(cut, "POST"))
        \/ /\ \E j \in 1 .. i : message[j] = Size(0)
           /\ ReadRequest(cut).result = ReadRequest(message).result
           /\ ReadResponse(cut, "POST").result = ReadResponse(message, "POST").result

LEMMA CutOffIs ==
    ASSUME NEW word \in {"POST", "200"}, NEW body, NEW message, NEW fields, NEW framing,
           ReadsAs(message, word, fields, framing, body), NEW i \in 1 .. Len(message) - 1
    PROVE  CutOffAt(message, i)
<1>1. PICK rest \in Seq(Tokens) :
          /\ SaysItself(fields, framing)
          /\ message = Opened(HeadOf(word, fields), rest)
          /\ \A follower \in Seq(Tokens) : ReadBody(rest \o follower, framing) = Taken(body, follower)
          /\ \A k \in 0 .. Len(rest) - 1 :
                 \/ ReadBody(SubSeq(rest, 1, k), framing) = Failed
                 \/ /\ \E j \in 1 .. k : rest[j] = Size(0)
                    /\ \E left : ReadBody(SubSeq(rest, 1, k), framing) = Taken(body, left)
  BY DEF ReadsAs
<1>2. PICK head, h, r : head = HeadOf(word, fields) /\ h = Len(head) /\ r = Len(rest)
  OBVIOUS
<1>3. head \in Seq(Tokens) /\ NoBlank(head)
  BY <1>1, <1>2, HeadOfSays DEF HeadSays, SaysItself
<1>4. h \in Nat /\ r \in Nat
  BY <1>2, <1>3
<1>5. Len(message) = h + 1 + r /\ \A j \in 1 .. r : message[h + 1 + j] = rest[j]
  <2>1. IsOpened(Tokens, message, head, rest)
    BY <1>1, <1>2, <1>3, TokensAre, OpenedIs
  <2>2. QED
    BY <1>2, <2>1 DEF IsOpened
<1>6. i \in 1 .. h + r /\ i \in Nat
  BY <1>4, <1>5
<1>7. PICK cut : cut = SubSeq(message, 1, i)
  OBVIOUS
<1>8. /\ i <= h => cut \in Seq(Tokens) /\ NoBlank(cut)
      /\ i > h => /\ i - h - 1 \in 0 .. r - 1
                  /\ cut = Opened(head, SubSeq(rest, 1, i - h - 1))
  BY <1>1, <1>2, <1>3, <1>6, <1>7, TokensAre, CutOpened
<1>9. CASE i <= h
  <2>1. ~IsTaken(ReadRequest(cut)) /\ ~IsTaken(ReadResponse(cut, "POST"))
    BY <1>8, <1>9, HeadIsCutOff
  <2>2. QED
    BY <1>7, <2>1 DEF CutOffAt
<1>10. CASE ~(i <= h)
  <2>1. PICK k : k = i - h - 1
    OBVIOUS
  <2>2. i > h
    BY <1>4, <1>6, <1>10
  <2>3. k \in 0 .. r - 1 /\ k \in Nat /\ i = h + 1 + k /\ k <= r
    BY <1>4, <1>6, <1>8, <2>1, <2>2
  <2>4. PICK part : part = SubSeq(rest, 1, k)
    OBVIOUS
  <2>5. part \in Seq(Tokens)
    <3>1. k <= Len(rest)
      BY <1>2, <2>3
    <3>2. QED
      BY <2>3, <2>4, <3>1
  <2>6. cut = Opened(head, part)
    BY <1>8, <2>1, <2>2, <2>4
  <2>7. BothRead(cut, RestRead(word, fields, part, framing))
    BY <1>1, <1>2, <2>5, <2>6, OpenedIsRead
  <2>8. CASE ReadBody(part, framing) = Failed
    <3>1. RestRead(word, fields, part, framing) = Failed
      BY <2>8, TakenIs DEF RestRead
    <3>2. ~IsTaken(ReadRequest(cut)) /\ ~IsTaken(ReadResponse(cut, "POST"))
      BY <2>7, <3>1, TakenIs DEF BothRead
    <3>3. QED
      BY <1>7, <3>2 DEF CutOffAt
  <2>9. ASSUME NEW left, ReadBody(part, framing) = Taken(body, left), NEW j \in 1 .. k, rest[j] = Size(0)
        PROVE  CutOffAt(message, i)
    <3>1. PICK whole : whole = MessageOf(word, fields, body, FALSE)
      OBVIOUS
    <3>2. PICK read : read = ReadBody(part, framing)
      OBVIOUS
    <3>3. IsTaken(read) /\ read.result = body /\ read.left = left
      BY <2>9, <3>2, TakenIs
    <3>4. RestRead(word, fields, part, framing) = Taken(whole, left)
      BY <3>1, <3>2, <3>3 DEF RestRead
    <3>5. ReadRequest(cut).result = whole /\ ReadResponse(cut, "POST").result = whole
      BY <2>7, <3>4, TakenIs DEF BothRead
    <3>6. ReadRequest(message).result = whole /\ ReadResponse(message, "POST").result = whole
      <4>1. <<>> \in Seq(Tokens)
        OBVIOUS
      <4>2. BothRead(message \o <<>>, Taken(whole, <<>>))
        BY <3>1, <4>1, ReadsTheBody
      <4>3. message \in Seq(Tokens)
        BY <1>1, <1>2, <1>3, TokensAre, OpenedIs DEF IsOpened
      <4>4. message \o <<>> = message
        BY <4>3, EmptyJoined
      <4>5. QED
        BY <4>2, <4>4, TakenIs DEF BothRead
    <3>7. h + 1 + j \in 1 .. i /\ j \in 1 .. r
      BY <1>4, <2>3
    <3>8. message[h + 1 + j] = Size(0)
      BY <1>5, <2>9, <3>7
    <3>9. QED
      BY <1>7, <3>5, <3>6, <3>7, <3>8 DEF CutOffAt
  <2>10. QED
    BY <1>1, <1>2, <2>3, <2>4, <2>8, <2>9
<1>11. QED
  BY <1>9, <1>10

LEMMA NoneAreCutShort == NoneIsCutShort
<1>1. SUFFICES ASSUME NEW body \in Bodies, NEW framed \in Framed(body)
               PROVE  /\ CutOff(Prefixed("POST", framed), ReadRequest)
                      /\ CutOff(Prefixed("200", framed), LAMBDA socket : ReadResponse(socket, "POST"))
  BY DEF NoneIsCutShort
<1>2. ASSUME NEW word \in {"POST", "200"}
      PROVE  \A i \in 1 .. Len(Prefixed(word, framed)) - 1 : CutOffAt(Prefixed(word, framed), i)
  <2>1. IsBody(body)
    BY BodiesAre
  <2>2. PICK message : message = Prefixed(word, framed)
    OBVIOUS
  <2>3. PICK fields, framing : ReadsAs(message, word, fields, framing, body)
    BY <2>1, <2>2, FramedReads
  <2>4. \A i \in 1 .. Len(message) - 1 : CutOffAt(message, i)
    BY <2>3, CutOffIs
  <2>5. QED
    BY <2>2, <2>4
<1>3. PICK request, answer : request = Prefixed("POST", framed) /\ answer = Prefixed("200", framed)
  OBVIOUS
<1>4. \A i \in 1 .. Len(request) - 1 : CutOffAt(request, i)
  BY <1>2, <1>3
<1>5. \A i \in 1 .. Len(answer) - 1 : CutOffAt(answer, i)
  BY <1>2, <1>3
<1>6. CutOff(request, ReadRequest)
  BY <1>4 DEF CutOff, CutOffAt
<1>7. CutOff(answer, LAMBDA socket : ReadResponse(socket, "POST"))
  BY <1>5 DEF CutOff, CutOffAt
<1>8. QED
  BY <1>3, <1>6, <1>7

-----------------------------------------------------------------------------
\* corrupt changes one byte.
LEMMA OneByteIsCorrupted ==
    ASSUME NEW bytes \in Nat, NEW offsets \in Nat
    PROVE  CorruptsOneByte(bytes, offsets)
<1>1. SUFFICES ASSUME NEW n \in 1 .. bytes, NEW frame \in [1 .. n -> {0, 1}], NEW offset \in 0 .. offsets
               PROVE  \E i \in DOMAIN frame :
                          \A j \in DOMAIN frame : (Corrupt(frame, offset)[j] # frame[j]) <=> (i = j)
  BY DEF CorruptsOneByte
<1>2. n \in Nat /\ n # 0 /\ offset \in Nat
  OBVIOUS
<1>3. Len(frame) = n /\ frame # <<>> /\ DOMAIN frame = 1 .. n
  <2>1. frame \in Seq({0, 1}) /\ Len(frame) = n
    BY <1>2
  <2>2. QED
    BY <1>2, <2>1
<1>4. PICK i : i = (offset % n) + 1
  OBVIOUS
<1>5. i \in 1 .. n
  <2>1. PICK m : m = offset % n
    OBVIOUS
  <2>2. m \in 0 .. n - 1
    BY <1>2, <2>1
  <2>3. QED
    BY <1>2, <1>4, <2>1, <2>2
<1>6. Corrupt(frame, offset) = [frame EXCEPT ![i] = 1 - frame[i]]
  BY <1>3, <1>4 DEF Corrupt
<1>7. frame[i] \in {0, 1}
  BY <1>5
<1>8. \A j \in 1 .. n : (Corrupt(frame, offset)[j] # frame[j]) <=> (i = j)
  BY <1>3, <1>5, <1>6, <1>7
<1>9. i \in DOMAIN frame
  BY <1>3, <1>5
<1>10. \A j \in DOMAIN frame : (Corrupt(frame, offset)[j] # frame[j]) <=> (i = j)
  BY <1>3, <1>8
<1>11. QED
  BY <1>9, <1>10, Zenon

\* FramingAgrees, for heads and bodies of any length.
THEOREM FramingAlwaysAgrees == Spec => []FramingAgrees
<1>1. CorruptsOneByte(3, 4)
  BY OneByteIsCorrupted
<1>2. FramingAgrees
  BY <1>1, AllAreRelayed, BodilessAre, NoneAreCutShort, OpenEndsAre DEF FramingAgrees
<1>3. QED
  BY <1>2, PTL
=============================================================================
