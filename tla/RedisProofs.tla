----------------------------- MODULE RedisProofs -----------------------------
(***************************************************************************)
(* Theorems about the Redis adapter, for any clients, any scenario and any *)
(* number of commands.                                                     *)
(*                                                                         *)
(* One part of the inductive invariant says where a connection's commands  *)
(* are: what a client has got, what it asked and is deferred, to be sent,  *)
(* or answered and not yet sorted are four stretches of its numbers.  The  *)
(* other says what the lock checker knows of the server's lock while the   *)
(* exchanges do not overlap.                                               *)
(*                                                                         *)
(* Frames are taken by the line that begins them: a value is read whole at *)
(* any depth and before anything that follows it (IsValue), and one made   *)
(* of such values is one.                                                  *)
(***************************************************************************)
EXTENDS MCRedisProxy, SequenceTheorems, WellFoundedInduction, TLAPS

Stages == {"accepted", "refused", "reading", "forwarding", "written", "awaiting",
           "answering", "ended"}

Tasks ==
    [pc : Stages, asked : Seq({"set", "del"}), deferred : Seq(Nat), batch : Seq(Nat),
     last : BOOLEAN, answers : Seq(Nat), got : Seq(Nat),
     outcome : {"none", "ok", "error", "undoable"}]

Entries == (Clients \X Nat) \cup {Nobody}

\* Every variable holds what the code's types allow.
TaskTyped == conn \in [Clients -> Tasks]
ServerTyped ==
    /\ link \in [Clients -> {"open", "broken"}]
    /\ wire \in [Clients -> {"idle", "asked", "ok", "notOk", "refused"}]
    /\ lock \in Entries
CheckersTyped ==
    /\ unanswered \in [Clients -> Nat] /\ stranded \subseteq Clients
    /\ owner \in Entries /\ believed \in [Clients -> Entries]
    /\ pending \in [Clients -> Seq(Entries)]
    /\ reported \in BOOLEAN
HistoryTyped ==
    /\ secure \in BOOLEAN /\ trespassed \in BOOLEAN /\ overlapped \in BOOLEAN
    /\ stolen \subseteq Clients
Typed == TaskTyped /\ ServerTyped /\ CheckersTyped /\ HistoryTyped

-----------------------------------------------------------------------------
\* Where a connection's commands are.

Sending == {"forwarding", "written", "awaiting"}
AtServer == {"written", "awaiting"}

\* A client has got the replies of its first commands.  The commands after
\* those are deferred, or, once one was not deferred, go out last asked first.
Arranged(pc, n, got, deferred, answers, batch) ==
    /\ \A i \in 1 .. Len(got) : got[i] = i
    /\ pc # "ended" => Len(got) + Len(deferred) + Len(answers) + Len(batch) = n
    /\ pc \in {"accepted", "refused", "reading"} =>
           /\ Len(answers) = 0 /\ Len(batch) = 0
           /\ \A i \in 1 .. Len(deferred) : deferred[i] = Len(got) + i
    /\ pc \in Sending =>
           /\ Len(deferred) = 0 /\ Len(batch) # 0
           /\ \A i \in 1 .. Len(answers) : answers[i] = n + 1 - i
           /\ \A i \in 1 .. Len(batch) : batch[i] = n - Len(answers) + 1 - i
    /\ pc = "answering" =>
           /\ Len(deferred) = 0 /\ Len(batch) = 0
           /\ \A i \in 1 .. Len(answers) : answers[i] = Len(got) + i
    /\ \A i \in 1 .. Len(batch) : batch[i] \in 1 .. n
Fits(task) ==
    Arranged(task.pc, Len(task.asked), task.got, task.deferred, task.answers, task.batch)
Placed == \A c \in Clients : Fits(conn[c])

\* The two checkers wait for one reply, that of the command at the server.
Entry(c) == IF NameOf(c, Current(c)) = "set" THEN Token(c, Current(c)) ELSE Other
OneAwaited ==
    \A c \in Clients :
        /\ unanswered[c] = (IF conn[c].pc = "awaiting" THEN 1 ELSE 0)
        /\ pending[c] = (IF conn[c].pc = "awaiting" THEN <<Entry(c)>> ELSE <<>>)

\* A connection found stranded has ended as no reply it could take came.
Unreadable(c) == link[c] = "broken" \/ wire[c] = "refused"
StrandedEnded ==
    \A c \in stranded :
        conn[c].pc = "ended" /\ Unreadable(c) /\ conn[c].outcome = "error"

-----------------------------------------------------------------------------
\* What the lock checker knows of the lock.

OrderOf(token) == token[2]
Releasing(c) == NameOf(c, Current(c)) = "del"

\* Something is at the server, or on its way back, only for a command that was
\* sent, and only a SET is answered +OK.
WireIsOwn ==
    \A c \in Clients :
        /\ wire[c] # "idle" => conn[c].pc \in AtServer \cup {"ended"} /\ conn[c].batch # <<>>
        /\ wire[c] = "ok" => NameOf(c, Current(c)) = "set"

\* While the checker has an owner, that connection believes so until it ends,
\* and a connection believes nothing of another's token.
OwnerBelieves ==
    /\ owner # Nobody => \/ believed[HolderOf(owner)] = owner
                         \/ conn[HolderOf(owner)].pc = "ended"
    /\ \A c \in Clients : believed[c] # Nobody => HolderOf(believed[c]) = c

\* The lock holds the token of a command that was executed: one whose reply was
\* read, or the one at the server, with its reply on its way or lost.
Executed(c) ==
    /\ conn[c].pc \in AtServer
    /\ wire[c] \in {"ok", "refused"} \/ (wire[c] = "idle" /\ link[c] = "broken")
AskedFor(order, n, answered, got, executed) ==
    /\ order <= n
    /\ order <= got \/ order > n - answered \/ (executed /\ order = n - answered)
LockWasAsked ==
    \A c \in Clients :
        Holds(c) /\ conn[c].pc # "ended" =>
            AskedFor(OrderOf(lock), Len(conn[c].asked), Len(conn[c].answers),
                     Len(conn[c].got), Executed(c))

\* Exchanges did not overlap: no more than one is under way.
OneExchange ==
    ~overlapped => \A c, d \in Clients : InExchange(c) /\ InExchange(d) => c = d

\* The reply +OK is still true when it is read, or the lock expired.
OkMeansHeld ==
    ~overlapped =>
        \A c \in Clients :
            conn[c].pc \in AtServer /\ wire[c] = "ok" =>
                lock = Nobody \/ lock = Token(c, Current(c))

\* Who holds the lock and was told so is the owner, if there is one.
HolderIsOwner ==
    ~overlapped =>
        \A c \in Clients :
            /\ Holds(c) /\ conn[c].pc # "ended"
            /\ conn[c].pc \in AtServer => lock # Token(c, Current(c))
            => owner = Nobody \/ HolderOf(owner) = c

\* A DEL under way is of the owner, if no client trespassed.
SenderIsOwner ==
    ~overlapped /\ ~trespassed =>
        \A c \in Clients :
            conn[c].pc = "written" /\ Releasing(c) => owner = Nobody \/ HolderOf(owner) = c

\* A secure lock is the owner's, and its holder is not sending DEL.
SecureIsOwned ==
    ~overlapped /\ ~reported /\ secure => lock # Nobody /\ owner = lock
SecureIsKept ==
    ~overlapped /\ secure =>
        \A c \in Clients : conn[c].pc = "written" /\ Releasing(c) => ~Holds(c)

\* Once a DEL is observed there is no owner until it is executed.
ReleasedIsFree ==
    ~overlapped /\ ~reported =>
        \A c \in Clients :
            wire[c] = "asked" /\ conn[c].pc # "written" /\ Releasing(c) => owner = Nobody

\* A theft that is not reported has not been observed, and the owner is robbed.
TheftIsSeen ==
    ~overlapped /\ ~reported =>
        \A c \in stolen :
            /\ conn[c].pc = "written" /\ Releasing(c)
            /\ owner # Nobody /\ HolderOf(owner) # c

RepliesInv == Typed /\ Placed /\ OneAwaited /\ StrandedEnded
LockInv ==
    /\ WireIsOwn /\ OwnerBelieves /\ LockWasAsked
    /\ OneExchange /\ OkMeansHeld /\ HolderIsOwner
    /\ SenderIsOwner /\ QuietWithoutTrespass
    /\ SecureIsOwned /\ SecureIsKept /\ ReleasedIsFree /\ TheftIsSeen

-----------------------------------------------------------------------------
\* What the helpers compute.

\* A token tells its connection and its command, and is not Nobody.
LEMMA TokenProperties ==
    ASSUME NEW c \in Clients, NEW k \in Nat
    PROVE  /\ Token(c, k) \in Entries /\ Token(c, k) # Nobody
           /\ HolderOf(Token(c, k)) = c /\ OrderOf(Token(c, k)) = k
<1>1. QED
  BY DEF Token, Entries, Nobody, HolderOf, OrderOf

LEMMA EntryProperties ==
    ASSUME NEW entry \in Entries, entry # Nobody
    PROVE  /\ HolderOf(entry) \in Clients /\ OrderOf(entry) \in Nat
           /\ entry = Token(HolderOf(entry), OrderOf(entry))
<1>1. QED
  BY DEF Token, Entries, Nobody, HolderOf, OrderOf

\* A set of numbers that is not empty has a least.
LEMMA LeastExists ==
    ASSUME NEW set \in SUBSET Nat, set # {}
    PROVE  \E m \in set : \A n \in set : m <= n
<1>1. PICK m \in set : \A n \in set : ~ (<<n, m>> \in OpToRel(<, Nat))
  BY WFMin, NatLessThanWellFounded, Zenon
<1>2. \A n \in set : m <= n
  <2>1. \A n \in set : ~(n < m)
    BY <1>1, Zenon DEF OpToRel
  <2>2. QED
    BY <2>1
<1>3. QED
  BY <1>2


\* Numbers of an interval that grow, as many as it has, are all of it.
LEMMA GrowingFillsInterval ==
    ASSUME NEW n \in Nat, NEW low \in Nat, NEW s \in [1 .. n -> (low + 1) .. (low + n)],
           \A i, j \in 1 .. n : i < j => s[i] < s[j]
    PROVE  \A i \in 1 .. n : s[i] = low + i
<1>1. \A i \in 1 .. n : s[i] \in Nat /\ s[i] >= low + 1 /\ s[i] <= low + n
  OBVIOUS
<1>2. ASSUME NEW e \in 1 .. n, s[e] < low + e
      PROVE  FALSE
  <2> DEFINE Small == {i \in 1 .. n : s[i] < low + i}
  <2>1. PICK i \in Small : \A j \in Small : i <= j
    <3>1. e \in Small /\ Small \in SUBSET Nat
      BY <1>2
    <3>2. QED
      BY <3>1, LeastExists, Zenon
  <2>2. i \in 1 .. n /\ s[i] < low + i
    BY <2>1
  <2>3. i - 1 \in 1 .. n
    BY <1>1, <2>2
  <2>4. s[i - 1] >= low + (i - 1)
    <3>1. i - 1 \notin Small
      BY <2>1, <2>2, <2>3
    <3>2. QED
      BY <1>1, <2>3, <3>1
  <2>5. s[i - 1] < s[i]
    BY <2>2, <2>3
  <2>6. QED
    BY <1>1, <2>2, <2>3, <2>4, <2>5
<1>3. ASSUME NEW e \in 1 .. n, s[e] > low + e
      PROVE  FALSE
  <2> DEFINE Large == {k \in 1 .. n : s[n + 1 - k] > low + (n + 1 - k)}
  <2>1. PICK k \in Large : \A j \in Large : k <= j
    <3>1. n + 1 - e \in 1 .. n /\ n + 1 - (n + 1 - e) = e
      OBVIOUS
    <3>2. n + 1 - e \in Large /\ Large \in SUBSET Nat
      BY <1>3, <3>1
    <3>3. QED
      BY <3>2, LeastExists, Zenon
  <2>2. PICK i \in 1 .. n : i = n + 1 - k
    BY <2>1
  <2>3. k \in 1 .. n /\ s[i] > low + i
    BY <2>1, <2>2
  <2>4. i + 1 \in 1 .. n /\ k - 1 \in 1 .. n
    BY <1>1, <2>2, <2>3
  <2>5. s[i + 1] <= low + (i + 1)
    <3>1. k - 1 \notin Large
      <4>1. SUFFICES ASSUME k - 1 \in Large PROVE FALSE
        OBVIOUS
      <4>2. k <= k - 1
        BY <2>1, <4>1, Zenon
      <4>3. QED
        BY <2>3, <4>2
    <3>2. n + 1 - (k - 1) = i + 1
      BY <2>2, <2>3
    <3>3. QED
      BY <1>1, <2>4, <3>1, <3>2
  <2>6. s[i] < s[i + 1]
    BY <2>4
  <2>7. QED
    BY <1>1, <2>3, <2>4, <2>5, <2>6
<1>4. ASSUME NEW i \in 1 .. n
      PROVE  s[i] = low + i
  <2>1. ~(s[i] < low + i) /\ ~(s[i] > low + i)
    BY <1>2, <1>3
  <2>2. QED
    BY <1>1, <2>1
<1>5. QED
  BY <1>4

\* What an exchange answered from the last asked to the first is sorted into
\* the order asked.
LEMMA SortingReverses ==
    ASSUME NEW orders \in Seq(Nat), NEW top \in Nat, NEW low \in Nat,
           Len(orders) = top - low,
           \A i \in 1 .. Len(orders) : orders[i] = top + 1 - i
    PROVE  /\ InTheOrderAsked(orders) \in Seq(Nat)
           /\ Len(InTheOrderAsked(orders)) = Len(orders)
           /\ \A i \in 1 .. Len(orders) : InTheOrderAsked(orders)[i] = low + i
<1>1. PICK n \in Nat : n = Len(orders)
  BY LenProperties
<1>2. DOMAIN orders = 1 .. n /\ top = low + n
  BY <1>1, LenProperties
<1>3. ToSet(orders) = (low + 1) .. (low + n)
  <2>1. ASSUME NEW m \in (low + 1) .. (low + n)
        PROVE  m \in ToSet(orders)
    <3>1. top + 1 - m \in 1 .. n /\ orders[top + 1 - m] = m
      BY <1>1, <1>2
    <3>2. QED
      BY <1>2, <3>1 DEF ToSet
  <2>2. ASSUME NEW m \in ToSet(orders)
        PROVE  m \in (low + 1) .. (low + n)
    BY <1>1, <1>2, <2>2 DEF ToSet
  <2>3. QED
    BY <2>1, <2>2
<1>4. \E s \in [1 .. n -> (low + 1) .. (low + n)] : \A i, j \in 1 .. n : i < j => s[i] < s[j]
  <2>1. PICK s : s = [i \in 1 .. n |-> low + i]
    OBVIOUS
  <2>2. s \in [1 .. n -> (low + 1) .. (low + n)]
    BY <2>1
  <2>3. \A i, j \in 1 .. n : i < j => s[i] < s[j]
    BY <2>1
  <2>4. QED
    BY <2>2, <2>3
<1>5. PICK s : s = InTheOrderAsked(orders)
  OBVIOUS
<1>6. /\ s \in [1 .. n -> (low + 1) .. (low + n)]
      /\ \A i, j \in 1 .. n : i < j => s[i] < s[j]
  BY <1>2, <1>3, <1>4, <1>5 DEF InTheOrderAsked
<1>7. \A i \in 1 .. n : s[i] = low + i
  BY <1>6, GrowingFillsInterval
<1>8. s \in Seq(Nat) /\ Len(s) = n
  BY <1>6
<1>9. QED
  BY <1>1, <1>5, <1>7, <1>8

\* A sequence backwards.
LEMMA ReverseProperties ==
    ASSUME NEW orders \in Seq(Nat)
    PROVE  /\ Reverse(orders) \in Seq(Nat) /\ Len(Reverse(orders)) = Len(orders)
           /\ \A i \in 1 .. Len(orders) : Reverse(orders)[i] = orders[Len(orders) - i + 1]
<1>1. Len(orders) \in Nat
  BY LenProperties
<1>2. \A i \in 1 .. Len(orders) : Len(orders) - i + 1 \in 1 .. Len(orders)
  BY <1>1
<1>3. Reverse(orders) = [i \in 1 .. Len(orders) |-> orders[Len(orders) - i + 1]]
  BY DEF Reverse
<1>4. Reverse(orders) \in [1 .. Len(orders) -> Nat]
  BY <1>1, <1>2, <1>3, LenProperties
<1>5. QED
  BY <1>1, <1>3, <1>4

-----------------------------------------------------------------------------
\* Where a connection's commands are.

\* Nobody has been served yet.
LEMMA TasksStart ==
    ASSUME Init
    PROVE  TaskTyped /\ Placed
<1>1. TaskTyped
  BY EmptySeq DEF Init, TaskTyped, Tasks, Stages
<1>2. Placed
  BY DEF Init, Placed, Fits, Arranged, Sending
<1>3. QED
  BY <1>1, <1>2

\* What the fields of a connection are.
LEMMA TaskFields ==
    ASSUME NEW task \in Tasks
    PROVE  /\ task.asked \in Seq({"set", "del"}) /\ Len(task.asked) \in Nat
           /\ task.deferred \in Seq(Nat) /\ Len(task.deferred) \in Nat
           /\ task.batch \in Seq(Nat) /\ Len(task.batch) \in Nat
           /\ task.answers \in Seq(Nat) /\ Len(task.answers) \in Nat
           /\ task.got \in Seq(Nat) /\ Len(task.got) \in Nat
           /\ task.last \in BOOLEAN /\ task.pc \in Stages
           /\ task.deferred = <<>> <=> Len(task.deferred) = 0
           /\ task.batch = <<>> <=> Len(task.batch) = 0
           /\ task.answers = <<>> <=> Len(task.answers) = 0
<1>1. QED
  BY LenProperties, EmptySeq DEF Tasks

\* What the adapter makes of a connection.
EndsAs(task, result) ==
    [task EXCEPT !.pc = "ended", !.outcome = result, !.deferred = <<>>, !.answers = <<>>]
Deferring(task, name) ==
    [task EXCEPT !.asked = Append(@, name), !.deferred = Append(@, Len(task.asked) + 1)]
Sent(task, name) ==
    [task EXCEPT !.asked = Append(@, name),
                 !.batch = <<Len(task.asked) + 1>> \o Reverse(task.deferred),
                 !.deferred = <<>>, !.pc = "forwarding"]
Flushed(task) ==
    [task EXCEPT !.batch = Reverse(task.deferred), !.deferred = <<>>, !.last = TRUE,
                 !.pc = "forwarding"]
Answered(task) ==
    LET rest == Tail(task.batch)
        all == Append(task.answers, Head(task.batch))
    IN  [task EXCEPT !.batch = rest,
                     !.answers = IF rest = <<>> THEN InTheOrderAsked(all) ELSE all,
                     !.pc = IF rest = <<>> THEN "answering" ELSE "forwarding"]
Responded(task) ==
    [task EXCEPT !.got = Append(@, Head(task.answers)), !.answers = Tail(@)]

\* Append, Tail, \o and Reverse on sequences of numbers, as they are used below.
LEMMA Appending ==
    ASSUME NEW set, NEW s \in Seq(set), NEW e \in set, NEW n, n = Len(s), NEW new,
           new = Append(s, e)
    PROVE  /\ new \in Seq(set) /\ Len(new) = n + 1
           /\ \A i \in 1 .. n : new[i] = s[i]
           /\ new[n + 1] = e
<1>1. QED
  BY AppendProperties

LEMMA Trimming ==
    ASSUME NEW s \in Seq(Nat), NEW n, n = Len(s), n # 0, NEW new, new = Tail(s)
    PROVE  /\ new \in Seq(Nat) /\ Len(new) = n - 1
           /\ \A i \in 1 .. n - 1 : new[i] = s[i + 1]
<1>1. s # <<>>
  BY EmptySeq
<1>2. /\ new \in Seq(Nat) /\ Len(new) = Len(s) - 1
      /\ \A i \in 1 .. Len(new) : new[i] = s[i + 1]
  BY <1>1, HeadTailProperties
<1>3. QED
  BY <1>2

LEMMA Concatenating ==
    ASSUME NEW e \in Nat, NEW s \in Seq(Nat), NEW n \in Nat, n = Len(s), NEW new,
           new = <<e>> \o s
    PROVE  /\ new \in Seq(Nat) /\ Len(new) = 1 + n
           /\ new[1] = e
           /\ \A i \in 1 .. n : new[i + 1] = s[i]
<1>1. PICK first : first = <<e>>
  OBVIOUS
<1>2. first \in Seq(Nat) /\ Len(first) = 1 /\ first[1] = e
  BY <1>1
<1>4. new = first \o s
  BY <1>1
<1>5. /\ new \in Seq(Nat) /\ Len(new) = Len(first) + n
      /\ \A i \in 1 .. Len(first) + n :
             new[i] = IF i <= Len(first) THEN first[i] ELSE s[i - Len(first)]
  BY <1>2, <1>4, ConcatProperties
<1>6. new[1] = e
  <2>1. 1 \in 1 .. Len(first) + n /\ 1 <= Len(first)
    BY <1>2
  <2>2. QED
    BY <1>2, <1>5, <2>1
<1>7. ASSUME NEW i \in 1 .. n
      PROVE  new[i + 1] = s[i]
  <2>1. i + 1 \in 1 .. Len(first) + n /\ ~(i + 1 <= Len(first)) /\ i + 1 - Len(first) = i
    BY <1>2
  <2>2. QED
    BY <1>5, <2>1
<1>8. QED
  BY <1>1, <1>2, <1>4, <1>5, <1>6, <1>7

\* A connection that ends keeps what its client got, and keeps it in order.
LEMMA EndFits ==
    ASSUME NEW task \in Tasks, Fits(task), NEW result \in {"ok", "error", "undoable"},
           NEW next, next = EndsAs(task, result)
    PROVE  next \in Tasks /\ Fits(next)
<1>1. /\ next \in Tasks /\ next.pc = "ended" /\ next.deferred = <<>> /\ next.answers = <<>>
      /\ next.got = task.got /\ next.batch = task.batch /\ next.asked = task.asked
  BY EmptySeq DEF Tasks, Stages, EndsAs
<1>2. QED
  BY <1>1 DEF Fits, Arranged, Sending

\* Steps that only go on to the next stage.
LEMMA MoveFits ==
    ASSUME NEW task \in Tasks, Fits(task), NEW pc \in Stages, NEW next,
           next = [task EXCEPT !.pc = pc],
           \/ task.pc = "accepted" /\ pc \in {"refused", "reading"}
           \/ task.pc \in Sending /\ pc \in Sending
           \/ task.pc = "answering" /\ task.answers = <<>> /\ pc = "reading"
    PROVE  next \in Tasks /\ Fits(next)
<1>1. /\ next \in Tasks /\ next.pc = pc
      /\ next.got = task.got /\ next.batch = task.batch /\ next.asked = task.asked
      /\ next.deferred = task.deferred /\ next.answers = task.answers
  BY DEF Tasks
<1>2. task.answers = <<>> => Len(task.answers) = 0
  BY TaskFields
<1>3. PICK n, got, deferred, answers, batch :
          /\ n = Len(task.asked) /\ got = task.got /\ deferred = task.deferred
          /\ answers = task.answers /\ batch = task.batch
  OBVIOUS
<1>4. Arranged(task.pc, n, got, deferred, answers, batch)
  BY <1>3 DEF Fits
<1>5. Len(deferred) = 0 => \A i \in 1 .. Len(deferred) : deferred[i] = Len(got) + i
  OBVIOUS
<1>6. Arranged(pc, n, got, deferred, answers, batch)
  BY <1>2, <1>3, <1>4, <1>5 DEF Arranged, Sending
<1>7. QED
  BY <1>1, <1>3, <1>6 DEF Fits

\* A command is deferred behind those already deferred.
LEMMA DeferFits ==
    ASSUME NEW task \in Tasks, Fits(task), task.pc = "reading", NEW name \in {"set", "del"},
           NEW next, next = Deferring(task, name)
    PROVE  next \in Tasks /\ Fits(next)
<1>1. PICK n \in Nat, got \in Seq(Nat), deferred \in Seq(Nat),
            answers \in Seq(Nat), batch \in Seq(Nat) :
          /\ n = Len(task.asked) /\ got = task.got /\ deferred = task.deferred
          /\ answers = task.answers /\ batch = task.batch
  BY TaskFields
<1>2. PICK g \in Nat, d \in Nat : g = Len(got) /\ d = Len(deferred)
  BY LenProperties
<1>3. Arranged("reading", n, got, deferred, answers, batch)
  BY <1>1 DEF Fits
<1>4. /\ Len(answers) = 0 /\ Len(batch) = 0 /\ g + d = n
      /\ \A i \in 1 .. d : deferred[i] = g + i
      /\ \A i \in 1 .. g : got[i] = i
  BY <1>2, <1>3 DEF Arranged
<1>5. n + 1 \in Nat
  OBVIOUS
<1>6a. PICK new : new = Append(deferred, n + 1)
  OBVIOUS
<1>6. /\ new \in Seq(Nat) /\ Len(new) = d + 1
      /\ \A i \in 1 .. d : new[i] = deferred[i]
      /\ new[d + 1] = n + 1
  BY <1>6a, <1>2, <1>5, Appending
<1>7. ASSUME NEW i \in 1 .. d + 1
      PROVE  new[i] = g + i
  <2>1. CASE i \in 1 .. d
    BY <1>4, <1>6, <2>1
  <2>2. CASE i = d + 1
    <3>1. new[i] = n + 1 /\ n + 1 = g + i
      BY <1>4, <1>6, <2>2
    <3>2. QED
      BY <3>1
  <2>3. QED
    BY <2>1, <2>2
<1>8a. PICK asked : asked = Append(task.asked, name)
  OBVIOUS
<1>8. asked \in Seq({"set", "del"}) /\ Len(asked) = n + 1
  <2>1. task.asked \in Seq({"set", "del"})
    BY TaskFields
  <2>2. QED
    BY <1>1, <1>8a, <2>1, Appending
<1>9. /\ next \in Tasks /\ next.pc = "reading" /\ next.asked = asked /\ next.deferred = new
      /\ next.got = got /\ next.answers = answers /\ next.batch = batch
  BY <1>1, <1>6a, <1>6, <1>8a, <1>8 DEF Tasks, Deferring
<1>10. Arranged("reading", n + 1, got, new, answers, batch)
  BY <1>2, <1>4, <1>6, <1>7 DEF Arranged, Sending
<1>11. QED
  BY <1>8, <1>9, <1>10 DEF Fits

\* What was deferred, backwards.
Ascending(orders, after) == \A i \in 1 .. Len(orders) : orders[i] = after + i

LEMMA BackProperties ==
    ASSUME NEW deferred \in Seq(Nat), NEW g \in Nat, Ascending(deferred, g)
    PROVE  /\ Reverse(deferred) \in Seq(Nat) /\ Len(Reverse(deferred)) = Len(deferred)
           /\ \A i \in 1 .. Len(deferred) : Reverse(deferred)[i] = g + (Len(deferred) - i + 1)
<1>1. Len(deferred) \in Nat
  BY LenProperties
<1>2. ASSUME NEW i \in 1 .. Len(deferred)
      PROVE  Reverse(deferred)[i] = g + (Len(deferred) - i + 1)
  <2>1. Len(deferred) - i + 1 \in 1 .. Len(deferred)
    BY <1>1
  <2>2. deferred[Len(deferred) - i + 1] = g + (Len(deferred) - i + 1)
    BY <2>1 DEF Ascending
  <2>3. Reverse(deferred)[i] = deferred[Len(deferred) - i + 1]
    BY ReverseProperties
  <2>4. QED
    BY <2>2, <2>3
<1>3. QED
  BY <1>2, ReverseProperties, Zenon

\* A command that is not deferred goes out before the deferred ones, and those
\* go out from the last to the first.
LEMMA SendFits ==
    ASSUME NEW task \in Tasks, Fits(task), task.pc = "reading", NEW name \in {"set", "del"},
           NEW next, next = Sent(task, name)
    PROVE  next \in Tasks /\ Fits(next)
<1>1. PICK n \in Nat, got \in Seq(Nat), deferred \in Seq(Nat),
            answers \in Seq(Nat), old \in Seq(Nat) :
          /\ n = Len(task.asked) /\ got = task.got /\ deferred = task.deferred
          /\ answers = task.answers /\ old = task.batch
  BY TaskFields
<1>2. PICK g \in Nat, d \in Nat : g = Len(got) /\ d = Len(deferred)
  BY LenProperties
<1>3. Arranged("reading", n, got, deferred, answers, old)
  BY <1>1 DEF Fits
<1>4. /\ Len(answers) = 0 /\ g + d = n
      /\ \A i \in 1 .. d : deferred[i] = g + i
      /\ \A i \in 1 .. g : got[i] = i
  BY <1>2, <1>3 DEF Arranged
<1>5a. PICK back : back = Reverse(deferred)
  OBVIOUS
<1>5. /\ back \in Seq(Nat) /\ Len(back) = d
      /\ \A i \in 1 .. d : back[i] = n + 1 - i
  <2>1. Ascending(deferred, g)
    BY <1>2, <1>4 DEF Ascending
  <2>2. /\ back \in Seq(Nat) /\ Len(back) = d
        /\ \A i \in 1 .. d : back[i] = g + (d - i + 1)
    BY <1>2, <1>5a, <2>1, BackProperties
  <2>3. \A i \in 1 .. d : g + (d - i + 1) = n + 1 - i
    BY <1>4
  <2>4. QED
    BY <2>2, <2>3
<1>6. n + 1 \in Nat
  OBVIOUS
<1>7a. PICK batch : batch = <<n + 1>> \o back
  OBVIOUS
<1>7. /\ batch \in Seq(Nat) /\ Len(batch) = 1 + d
      /\ batch[1] = n + 1
      /\ \A i \in 1 .. d : batch[i + 1] = back[i]
  BY <1>7a, <1>2, <1>5, <1>6, Concatenating
<1>8. ASSUME NEW i \in 1 .. 1 + d
      PROVE  batch[i] = n + 1 + 1 - i /\ batch[i] \in 1 .. n + 1
  <2>1. CASE i = 1
    BY <1>7, <2>1
  <2>2. CASE i # 1
    <3>1. i - 1 \in 1 .. d /\ i - 1 + 1 = i
      BY <2>2
    <3>2. batch[i] = back[i - 1] /\ back[i - 1] = n + 1 - (i - 1)
      BY <1>5, <1>7, <3>1
    <3>3. n + 1 - (i - 1) = n + 1 + 1 - i /\ n + 1 - (i - 1) \in 1 .. n + 1
      BY <1>4, <3>1
    <3>4. QED
      BY <3>2, <3>3
  <2>3. QED
    BY <2>1, <2>2
<1>9a. PICK asked : asked = Append(task.asked, name)
  OBVIOUS
<1>9. asked \in Seq({"set", "del"}) /\ Len(asked) = n + 1
  <2>1. task.asked \in Seq({"set", "del"})
    BY TaskFields
  <2>2. QED
    BY <1>1, <1>9a, <2>1, Appending
<1>10. /\ next \in Tasks /\ next.pc = "forwarding" /\ next.asked = asked
       /\ next.batch = batch /\ next.deferred = <<>>
       /\ next.got = got /\ next.answers = answers
  BY <1>1, <1>5a, <1>7a, <1>7, <1>9a, <1>9, EmptySeq DEF Tasks, Stages, Sent
<1>11. Arranged("forwarding", n + 1, got, <<>>, answers, batch)
  <2>1. Len(<<>>) = 0
    BY EmptySeq
  <2>2. \A i \in 1 .. Len(answers) : answers[i] = n + 1 + 1 - i
    BY <1>4
  <2>3. /\ Len(got) + Len(<<>>) + Len(answers) + Len(batch) = n + 1 /\ Len(batch) # 0
        /\ \A i \in 1 .. Len(batch) : batch[i] = n + 1 - Len(answers) + 1 - i
    <3>1. Len(got) + 0 + 0 + (1 + d) = n + 1 /\ 1 + d # 0
      BY <1>2, <1>4
    <3>2. \A i \in 1 .. 1 + d : batch[i] = n + 1 - 0 + 1 - i
      BY <1>8
    <3>3. QED
      BY <1>4, <1>7, <2>1, <3>1, <3>2
  <2>4. QED
    BY <1>2, <1>4, <1>7, <1>8, <2>1, <2>2, <2>3 DEF Arranged, Sending
<1>12. QED
  BY <1>9, <1>10, <1>11 DEF Fits

\* So they do when the client has stopped sending.
LEMMA FlushFits ==
    ASSUME NEW task \in Tasks, Fits(task), task.pc = "reading", task.deferred # <<>>,
           NEW next, next = Flushed(task)
    PROVE  next \in Tasks /\ Fits(next)
<1>1. PICK n \in Nat, got \in Seq(Nat), deferred \in Seq(Nat),
            answers \in Seq(Nat), old \in Seq(Nat) :
          /\ n = Len(task.asked) /\ got = task.got /\ deferred = task.deferred
          /\ answers = task.answers /\ old = task.batch
  BY TaskFields
<1>2. PICK g \in Nat, d \in Nat : g = Len(got) /\ d = Len(deferred) /\ d # 0
  BY <1>1, LenProperties, TaskFields
<1>3. Arranged("reading", n, got, deferred, answers, old)
  BY <1>1 DEF Fits
<1>4. /\ Len(answers) = 0 /\ g + d = n
      /\ \A i \in 1 .. d : deferred[i] = g + i
      /\ \A i \in 1 .. g : got[i] = i
  BY <1>2, <1>3 DEF Arranged
<1>5a. PICK batch : batch = Reverse(deferred)
  OBVIOUS
<1>5. /\ batch \in Seq(Nat) /\ Len(batch) = d
      /\ \A i \in 1 .. d : batch[i] = n + 1 - i
  <2>1. Ascending(deferred, g)
    BY <1>2, <1>4 DEF Ascending
  <2>2. /\ batch \in Seq(Nat) /\ Len(batch) = d
        /\ \A i \in 1 .. d : batch[i] = g + (d - i + 1)
    BY <1>2, <1>5a, <2>1, BackProperties
  <2>3. \A i \in 1 .. d : g + (d - i + 1) = n + 1 - i
    BY <1>4
  <2>4. QED
    BY <2>2, <2>3
<1>6. /\ next \in Tasks /\ next.pc = "forwarding" /\ next.asked = task.asked
      /\ next.batch = batch /\ next.deferred = <<>>
      /\ next.got = got /\ next.answers = answers
  BY <1>1, <1>5a, <1>5, EmptySeq DEF Tasks, Stages, Flushed
<1>7. Arranged("forwarding", n, got, <<>>, answers, batch)
  <2>1. Len(<<>>) = 0
    BY EmptySeq
  <2>2. \A i \in 1 .. Len(answers) : answers[i] = n + 1 - i
    BY <1>4
  <2>3. /\ Len(got) + Len(<<>>) + Len(answers) + Len(batch) = n /\ Len(batch) # 0
        /\ \A i \in 1 .. Len(batch) : batch[i] = n - Len(answers) + 1 - i /\ batch[i] \in 1 .. n
    <3>1. Len(got) + 0 + 0 + d = n
      BY <1>2, <1>4
    <3>2. \A i \in 1 .. d : batch[i] = n - 0 + 1 - i /\ batch[i] \in 1 .. n
      <4>1. ASSUME NEW i \in 1 .. d
            PROVE  batch[i] = n - 0 + 1 - i /\ batch[i] \in 1 .. n
        BY <1>4, <1>5
      <4>2. QED
        BY <4>1
    <3>3. QED
      BY <1>2, <1>4, <1>5, <2>1, <3>1, <3>2
  <2>4. QED
    BY <1>2, <1>4, <1>5, <2>1, <2>2, <2>3 DEF Arranged, Sending
<1>8. QED
  BY <1>1, <1>6, <1>7 DEF Fits

\* The command at the server is the last asked of those not answered.
LEMMA CurrentIs ==
    ASSUME NEW task \in Tasks, Fits(task), task.pc \in Sending
    PROVE  /\ Head(task.batch) = Len(task.asked) - Len(task.answers)
           /\ Head(task.batch) \in Nat
<1>1. PICK n \in Nat, batch \in Seq(Nat), answers \in Seq(Nat) :
          n = Len(task.asked) /\ batch = task.batch /\ answers = task.answers
  BY TaskFields
<1>2. PICK a \in Nat, b \in Nat : a = Len(answers) /\ b = Len(batch)
  BY LenProperties
<1>3. Arranged(task.pc, n, task.got, task.deferred, answers, batch)
  BY <1>1 DEF Fits
<1>4. /\ b # 0 /\ \A i \in 1 .. b : batch[i] = n - a + 1 - i
      /\ \A i \in 1 .. b : batch[i] \in 1 .. n
  BY <1>2, <1>3 DEF Arranged
<1>5. 1 \in 1 .. b /\ Head(batch) = batch[1]
  BY <1>2, <1>4, EmptySeq
<1>6. batch[1] = n - a + 1 - 1 /\ batch[1] \in 1 .. n
  BY <1>4, <1>5
<1>7. Head(batch) = n - a /\ Head(batch) \in Nat
  BY <1>5, <1>6
<1>8. QED
  BY <1>1, <1>2, <1>7

\* A reply joins the answers, and the last of an exchange sorts them.
LEMMA AnswerFits ==
    ASSUME NEW task \in Tasks, Fits(task), task.pc = "awaiting",
           NEW next, next = Answered(task)
    PROVE  /\ next \in Tasks /\ Fits(next) /\ next.asked = task.asked /\ next.got = task.got
           /\ Len(next.answers) = Len(task.answers) + 1
<1>1. PICK n \in Nat, got \in Seq(Nat), answers \in Seq(Nat), batch \in Seq(Nat) :
          /\ n = Len(task.asked) /\ got = task.got
          /\ answers = task.answers /\ batch = task.batch
  BY TaskFields
<1>2. PICK g \in Nat, a \in Nat, b \in Nat : g = Len(got) /\ a = Len(answers) /\ b = Len(batch)
  BY LenProperties
<1>3. Arranged("awaiting", n, got, task.deferred, answers, batch)
  BY <1>1 DEF Fits
<1>4. /\ Len(task.deferred) = 0 /\ b # 0
      /\ g + Len(task.deferred) + a + b = n
      /\ \A i \in 1 .. b : batch[i] = n - a + 1 - i
      /\ \A i \in 1 .. b : batch[i] \in 1 .. n
      /\ \A i \in 1 .. a : answers[i] = n + 1 - i
      /\ \A i \in 1 .. g : got[i] = i
  BY <1>2, <1>3 DEF Arranged, Sending
<1>5. g + a + b = n
  <2>1. PICK zero \in Nat : zero = Len(task.deferred) /\ zero = 0
    BY <1>4
  <2>2. g + zero + a + b = n
    BY <1>4, <2>1
  <2>3. QED
    BY <2>1, <2>2
<1>6a. PICK rest : rest = Tail(batch)
  OBVIOUS
<1>6. /\ rest \in Seq(Nat) /\ Len(rest) = b - 1
      /\ \A i \in 1 .. b - 1 : rest[i] = batch[i + 1]
  BY <1>6a, <1>2, <1>4, Trimming
<1>7. \A i \in 1 .. Len(rest) : rest[i] = n - (a + 1) + 1 - i /\ rest[i] \in 1 .. n
  <2>1. ASSUME NEW i \in 1 .. b - 1
        PROVE  rest[i] = n - (a + 1) + 1 - i /\ rest[i] \in 1 .. n
    <3>1. i + 1 \in 1 .. b
      OBVIOUS
    <3>2. rest[i] = batch[i + 1] /\ batch[i + 1] = n - a + 1 - (i + 1) /\ batch[i + 1] \in 1 .. n
      BY <1>4, <1>6, <3>1
    <3>3. QED
      BY <3>2
  <2>2. QED
    BY <1>6, <2>1
<1>8. PICK head \in Nat : head = Head(batch) /\ head = n - a
  BY <1>1, <1>2, CurrentIs DEF Sending
<1>9a. PICK all : all = Append(answers, head)
  OBVIOUS
<1>9. /\ all \in Seq(Nat) /\ Len(all) = a + 1
      /\ \A i \in 1 .. a : all[i] = answers[i]
      /\ all[a + 1] = head
  BY <1>9a, <1>2, <1>8, Appending
<1>10. \A i \in 1 .. a + 1 : all[i] = n + 1 - i
  <2>1. ASSUME NEW i \in 1 .. a + 1
        PROVE  all[i] = n + 1 - i
    <3>1. CASE i \in 1 .. a
      BY <1>4, <1>9, <3>1
    <3>2. CASE i = a + 1
      BY <1>8, <1>9, <3>2
    <3>3. QED
      BY <3>1, <3>2
  <2>2. QED
    BY <2>1
<1>11. CASE rest # <<>>
  <2>1. Len(rest) # 0
    BY <1>11, EmptySeq
  <2>2. /\ next \in Tasks /\ next.pc = "forwarding" /\ next.asked = task.asked
        /\ next.got = got /\ next.deferred = task.deferred
        /\ next.answers = all /\ next.batch = rest
    BY <1>1, <1>6a, <1>6, <1>8, <1>9a, <1>9, <1>11 DEF Tasks, Stages, Answered
  <2>3. g + Len(task.deferred) + (a + 1) + Len(rest) = n
    <3>1. g + 0 + (a + 1) + (b - 1) = n
      BY <1>5
    <3>2. QED
      BY <1>4, <1>6, <3>1
  <2>4. Arranged("forwarding", n, got, task.deferred, all, rest)
    BY <1>2, <1>4, <1>7, <1>9, <1>10, <2>1, <2>3 DEF Arranged, Sending
  <2>5. QED
    BY <1>1, <1>2, <1>9, <2>2, <2>4 DEF Fits
<1>12. CASE rest = <<>>
  <2>1. Len(rest) = 0 /\ b = 1 /\ a + 1 = n - g
    <3>1. Len(rest) = 0
      BY <1>12, EmptySeq
    <3>2. b = 1
      <4>1. b - 1 = 0
        BY <1>6, <3>1
      <4>2. QED
        BY <4>1
    <3>3. QED
      BY <1>5, <3>1, <3>2
  <2>2. PICK sorted \in Seq(Nat) :
            /\ sorted = InTheOrderAsked(all) /\ Len(sorted) = a + 1
            /\ \A i \in 1 .. a + 1 : sorted[i] = g + i
    <3>1. /\ InTheOrderAsked(all) \in Seq(Nat) /\ Len(InTheOrderAsked(all)) = Len(all)
          /\ \A i \in 1 .. Len(all) : InTheOrderAsked(all)[i] = g + i
      <4>1. Len(all) = n - g /\ \A i \in 1 .. Len(all) : all[i] = n + 1 - i
        BY <1>9, <1>10, <2>1
      <4>2. QED
        BY <1>9, <4>1, SortingReverses, Zenon
    <3>2. QED
      BY <1>9, <3>1, Zenon
  <2>3. /\ next \in Tasks /\ next.pc = "answering" /\ next.asked = task.asked
        /\ next.got = got /\ next.deferred = task.deferred
        /\ next.answers = sorted /\ next.batch = rest
    BY <1>1, <1>6a, <1>6, <1>8, <1>9a, <1>9, <1>12, <2>2 DEF Tasks, Stages, Answered
  <2>4. g + Len(task.deferred) + (a + 1) + Len(rest) = n
    <3>1. g + 0 + (a + 1) + 0 = n
      BY <1>5, <2>1
    <3>2. QED
      BY <1>4, <2>1, <3>1
  <2>5. Arranged("answering", n, got, task.deferred, sorted, rest)
    BY <1>2, <1>4, <2>1, <2>2, <2>4 DEF Arranged, Sending
  <2>6. QED
    BY <1>1, <1>2, <2>2, <2>3, <2>5 DEF Fits
<1>13. QED
  BY <1>11, <1>12

\* The client is given the reply of the next command it asked.
LEMMA RespondFits ==
    ASSUME NEW task \in Tasks, Fits(task), task.pc = "answering", task.answers # <<>>,
           NEW next, next = Responded(task)
    PROVE  /\ next \in Tasks /\ Fits(next) /\ next.asked = task.asked
           /\ Len(next.got) = Len(task.got) + 1
           /\ Len(next.answers) = Len(task.answers) - 1
           /\ Len(task.got) + Len(task.answers) = Len(task.asked)
<1>1. PICK n \in Nat, got \in Seq(Nat), answers \in Seq(Nat),
            deferred \in Seq(Nat), batch \in Seq(Nat) :
          /\ n = Len(task.asked) /\ got = task.got /\ answers = task.answers
          /\ deferred = task.deferred /\ batch = task.batch
  BY TaskFields
<1>2. PICK g \in Nat, a \in Nat : g = Len(got) /\ a = Len(answers) /\ a # 0
  BY <1>1, LenProperties, TaskFields
<1>3. Arranged("answering", n, got, deferred, answers, batch)
  BY <1>1 DEF Fits
<1>4. /\ Len(deferred) = 0 /\ Len(batch) = 0 /\ g + Len(deferred) + a + Len(batch) = n
      /\ \A i \in 1 .. a : answers[i] = g + i
      /\ \A i \in 1 .. g : got[i] = i
  BY <1>2, <1>3 DEF Arranged, Sending
<1>5. g + a = n
  BY <1>4
<1>6. Head(answers) = g + 1
  <2>1. 1 \in 1 .. a /\ Head(answers) = answers[1]
    BY <1>2, EmptySeq
  <2>2. QED
    BY <1>4, <2>1
<1>7a. PICK new : new = Append(got, g + 1)
  OBVIOUS
<1>7. /\ new \in Seq(Nat) /\ Len(new) = g + 1
      /\ \A i \in 1 .. g : new[i] = got[i]
      /\ new[g + 1] = g + 1
  <2>1. g + 1 \in Nat
    OBVIOUS
  <2>2. QED
    BY <1>2, <1>7a, <2>1, Appending
<1>8. \A i \in 1 .. g + 1 : new[i] = i
  <2>1. ASSUME NEW i \in 1 .. g + 1
        PROVE  new[i] = i
    <3>1. CASE i \in 1 .. g
      BY <1>4, <1>7, <3>1
    <3>2. CASE i = g + 1
      BY <1>7, <3>2
    <3>3. QED
      BY <3>1, <3>2
  <2>2. QED
    BY <2>1
<1>9a. PICK rest : rest = Tail(answers)
  OBVIOUS
<1>9. /\ rest \in Seq(Nat) /\ Len(rest) = a - 1
      /\ \A i \in 1 .. a - 1 : rest[i] = answers[i + 1]
  BY <1>2, <1>9a, Trimming
<1>10. \A i \in 1 .. Len(rest) : rest[i] = g + 1 + i
  <2>1. ASSUME NEW i \in 1 .. a - 1
        PROVE  rest[i] = g + 1 + i
    <3>1. i + 1 \in 1 .. a
      OBVIOUS
    <3>2. QED
      BY <1>4, <1>9, <3>1
  <2>2. QED
    BY <1>9, <2>1
<1>11. /\ next \in Tasks /\ next.pc = "answering" /\ next.asked = task.asked
       /\ next.got = new /\ next.answers = rest
       /\ next.deferred = deferred /\ next.batch = batch
  BY <1>1, <1>6, <1>7a, <1>7, <1>9a, <1>9 DEF Tasks, Responded
<1>12. Arranged("answering", n, new, deferred, rest, batch)
  <2>1. Len(new) + Len(deferred) + Len(rest) + Len(batch) = n
    <3>1. (g + 1) + 0 + (a - 1) + 0 = n
      BY <1>5
    <3>2. QED
      BY <1>4, <1>7, <1>9, <3>1
  <2>2. QED
    BY <1>4, <1>7, <1>8, <1>10, <2>1 DEF Arranged, Sending
<1>13. QED
  BY <1>1, <1>2, <1>5, <1>7, <1>9, <1>11, <1>12 DEF Fits

\* A connection changes nothing of another's.
LEMMA OwnTask ==
    ASSUME TaskTyped, NEW c \in Clients, Adapter(c)
    PROVE  /\ conn' = [d \in Clients |-> conn'[d]]
           /\ \A d \in Clients : d # c => conn'[d] = conn[d]
<1> USE DEF TaskTyped, End
<1>1. CASE Refuse(c) \/ Connect(c)
  BY <1>1 DEF Refuse, Connect
<1>2. CASE ConnectFails(c) \/ ReadFails(c) \/ WriteFails(c) \/ NoReply(c) \/ RespondFails(c)
  BY <1>2 DEF ConnectFails, ReadFails, WriteFails, NoReply, RespondFails
<1>3. CASE Read(c)
  BY <1>3 DEF Read
<1>4. CASE StopReading(c)
  BY <1>4 DEF StopReading
<1>5. CASE Write(c) \/ ObserveCommand(c)
  BY <1>5 DEF Write, ObserveCommand
<1>6. CASE ObserveReply(c)
  BY <1>6 DEF ObserveReply
<1>7. CASE Respond(c)
  BY <1>7 DEF Respond
<1>8. CASE Return(c)
  BY <1>8 DEF Return
<1>9. QED
  BY <1>1, <1>2, <1>3, <1>4, <1>5, <1>6, <1>7, <1>8 DEF Adapter

\* What each action makes of its connection.
Results == {"ok", "error", "undoable"}

LEMMA EndMakes ==
    ASSUME TaskTyped, NEW c \in Clients, NEW result, End(c, result)
    PROVE  conn'[c] = EndsAs(conn[c], result)
<1>1. QED
  BY DEF End, EndsAs, TaskTyped

LEMMA ReadMakes ==
    ASSUME TaskTyped, NEW c \in Clients, Read(c)
    PROVE  /\ conn[c].pc = "reading"
           /\ \/ End(c, "ok")
              \/ \E name \in {"set", "del"} :
                     /\ UNCHANGED checkers
                     /\ conn'[c] \in {Deferring(conn[c], name), Sent(conn[c], name)}
<1>1. PICK task \in Tasks : task = conn[c]
  BY DEF TaskTyped
<1>2. ASSUME NEW name \in {"set", "del"},
             conn' = [conn EXCEPT ![c].asked = Append(conn[c].asked, name),
                                  ![c].deferred = Append(@, Len(conn[c].asked) + 1)]
      PROVE  conn'[c] = Deferring(task, name)
  BY <1>1, <1>2 DEF TaskTyped, Tasks, Deferring
<1>3. ASSUME NEW name \in {"set", "del"},
             conn' = [conn EXCEPT ![c].asked = Append(conn[c].asked, name),
                                  ![c].batch = <<Len(conn[c].asked) + 1>>
                                                   \o Reverse(conn[c].deferred),
                                  ![c].deferred = <<>>,
                                  ![c].pc = "forwarding"]
      PROVE  conn'[c] = Sent(task, name)
  BY <1>1, <1>3 DEF TaskTyped, Tasks, Sent
<1>4. QED
  BY <1>1, <1>2, <1>3 DEF Read

LEMMA StopReadingMakes ==
    ASSUME TaskTyped, NEW c \in Clients, StopReading(c)
    PROVE  /\ conn[c].pc = "reading"
           /\ \/ End(c, "ok")
              \/ /\ conn[c].deferred # <<>> /\ UNCHANGED checkers
                 /\ conn'[c] = Flushed(conn[c])
<1>1. QED
  BY DEF StopReading, TaskTyped, Tasks, Flushed

LEMMA ObserveReplyMakes ==
    ASSUME TaskTyped, NEW c \in Clients, ObserveReply(c)
    PROVE  conn[c].pc = "awaiting" /\ conn'[c] = Answered(conn[c])
<1>1. QED
  BY DEF ObserveReply, TaskTyped, Tasks, Answered, Current

LEMMA RespondMakes ==
    ASSUME TaskTyped, NEW c \in Clients, Respond(c)
    PROVE  /\ conn[c].pc = "answering" /\ conn[c].answers # <<>>
           /\ \/ \E result \in Results : End(c, result)
              \/ conn'[c] = Responded(conn[c]) /\ UNCHANGED checkers
<1>1. QED
  BY DEF Respond, TaskTyped, Tasks, Responded, Results

LEMMA MoveMakes ==
    ASSUME TaskTyped, NEW c \in Clients
    PROVE  /\ Refuse(c) => /\ conn[c].pc = "accepted"
                           /\ conn'[c] = [conn[c] EXCEPT !.pc = "refused"]
           /\ Connect(c) => /\ conn[c].pc = "accepted"
                            /\ conn'[c] = [conn[c] EXCEPT !.pc = "reading"]
           /\ Write(c) => /\ conn[c].pc = "forwarding"
                          /\ conn'[c] = [conn[c] EXCEPT !.pc = "written"]
           /\ ObserveCommand(c) => /\ conn[c].pc = "written"
                                   /\ conn'[c] = [conn[c] EXCEPT !.pc = "awaiting"]
           /\ Return(c) => /\ conn[c].pc = "answering" /\ conn[c].answers = <<>>
                           /\ \/ End(c, "ok")
                              \/ /\ conn'[c] = [conn[c] EXCEPT !.pc = "reading"]
                                 /\ UNCHANGED checkers
<1>1. QED
  BY DEF Refuse, Connect, Write, ObserveCommand, Return, TaskTyped, Tasks

\* A step of a connection leaves its commands where they should be.
LEMMA OwnPlace ==
    ASSUME TaskTyped, Placed, NEW c \in Clients, Adapter(c)
    PROVE  conn'[c] \in Tasks /\ Fits(conn'[c])
<1>1. conn[c] \in Tasks /\ Fits(conn[c])
  BY DEF TaskTyped, Placed
<1>2. ASSUME NEW result \in Results, End(c, result)
      PROVE  conn'[c] \in Tasks /\ Fits(conn'[c])
  BY <1>1, <1>2, EndMakes, EndFits DEF Results
<1>3. CASE Refuse(c) \/ Connect(c)
  BY <1>1, <1>3, MoveMakes, MoveFits DEF Stages
<1>4. CASE ConnectFails(c) \/ ReadFails(c) \/ WriteFails(c) \/ NoReply(c) \/ RespondFails(c)
  BY <1>2, <1>4 DEF ConnectFails, ReadFails, WriteFails, NoReply, RespondFails, Results
<1>5. CASE Read(c)
  BY <1>1, <1>2, <1>5, ReadMakes, DeferFits, SendFits DEF Results
<1>6. CASE StopReading(c)
  BY <1>1, <1>2, <1>6, StopReadingMakes, FlushFits DEF Results
<1>7. CASE Write(c) \/ ObserveCommand(c)
  BY <1>1, <1>7, MoveMakes, MoveFits DEF Stages, Sending
<1>8. CASE ObserveReply(c)
  BY <1>1, <1>8, ObserveReplyMakes, AnswerFits
<1>9. CASE Respond(c)
  BY <1>1, <1>2, <1>9, RespondMakes, RespondFits
<1>10. CASE Return(c)
  BY <1>1, <1>2, <1>10, MoveMakes, MoveFits DEF Stages, Results
<1>11. QED
  BY <1>3, <1>4, <1>5, <1>6, <1>7, <1>8, <1>9, <1>10 DEF Adapter

\* Every step does.
LEMMA PlacedKept ==
    ASSUME TaskTyped, Placed, Next
    PROVE  TaskTyped' /\ Placed'
<1>1. CASE UNCHANGED conn
  BY <1>1 DEF TaskTyped, Placed
<1>2. ASSUME NEW c \in Clients, Adapter(c)
      PROVE  TaskTyped' /\ Placed'
  <2>1. /\ conn' = [d \in Clients |-> conn'[d]]
        /\ \A d \in Clients : d # c => conn'[d] = conn[d]
        /\ conn'[c] \in Tasks /\ Fits(conn'[c])
    BY <1>2, OwnTask, OwnPlace
  <2>2. \A d \in Clients : conn'[d] \in Tasks /\ Fits(conn'[d])
    BY <2>1 DEF TaskTyped, Placed
  <2>3. QED
    BY <2>1, <2>2 DEF TaskTyped, Placed
<1>3. QED
  BY <1>1, <1>2 DEF Next, Expire, Execute, ServerReplies, Break

-----------------------------------------------------------------------------
\* The steps, told by what they do to the checkers and the server.

\* What a step leaves of a connection's commands.
Keeps(task, next) == next.asked = task.asked /\ next.batch = task.batch
SameCounts(task, next) ==
    /\ Len(next.asked) = Len(task.asked) /\ Len(next.got) = Len(task.got)
    /\ Len(next.answers) = Len(task.answers)
AsksOneMore(task, next) ==
    /\ Len(next.asked) = Len(task.asked) + 1 /\ Len(next.got) = Len(task.got)
    /\ Len(task.answers) = 0 /\ Len(next.answers) = 0
GetsOneMore(task, next) ==
    /\ Len(next.asked) = Len(task.asked) /\ Len(next.got) = Len(task.got) + 1
    /\ Len(next.answers) = Len(task.answers) - 1
    /\ Len(task.got) + Len(task.answers) = Len(task.asked)

\* A connection ends: it had a command at the server only if the server went.
Leaves(c) ==
    /\ SeeClose(c) /\ UNCHANGED <<server, history>>
    /\ conn[c].pc \notin {"ended", "refused", "written"}
    /\ conn'[c].pc = "ended" /\ Keeps(conn[c], conn'[c])
    /\ conn[c].pc = "awaiting" => Unreadable(c) /\ conn'[c].outcome = "error"

\* A connection goes on, with nothing at the server before or after.
Moves(c) ==
    /\ UNCHANGED <<server, checkers, history>>
    /\ conn[c].pc \notin AtServer \cup {"ended"} /\ conn'[c].pc \notin AtServer \cup {"ended"}
    /\ \/ SameCounts(conn[c], conn'[c])
       \/ AsksOneMore(conn[c], conn'[c])
       \/ GetsOneMore(conn[c], conn'[c])

\* The three steps of an exchange.
Sends(c) ==
    /\ Write(c) /\ conn[c].pc = "forwarding" /\ conn'[c].pc = "written"
    /\ Keeps(conn[c], conn'[c]) /\ SameCounts(conn[c], conn'[c])
Observes(c) ==
    /\ SeeCommand(c, Current(c)) /\ UNCHANGED <<server, history>>
    /\ conn[c].pc = "written" /\ conn'[c].pc = "awaiting"
    /\ Keeps(conn[c], conn'[c]) /\ SameCounts(conn[c], conn'[c])
Learns(c) ==
    /\ ObserveReply(c) /\ conn[c].pc = "awaiting" /\ conn'[c].pc \in {"forwarding", "answering"}
    /\ Len(conn'[c].asked) = Len(conn[c].asked) /\ Len(conn'[c].got) = Len(conn[c].got)
    /\ Len(conn'[c].answers) = Len(conn[c].answers) + 1

Others(c) == \A d \in Clients : d # c => conn'[d] = conn[d]

LEMMA EndLeaves ==
    ASSUME TaskTyped, NEW c \in Clients, NEW result \in Results, End(c, result),
           UNCHANGED <<server, history>>, conn[c].pc \notin {"ended", "refused", "written"},
           conn[c].pc = "awaiting" => Unreadable(c) /\ result = "error"
    PROVE  Leaves(c)
<1>1. conn[c] \in Tasks /\ conn'[c] = EndsAs(conn[c], result)
  BY EndMakes DEF TaskTyped
<1>2. conn'[c].pc = "ended" /\ conn'[c].outcome = result /\ Keeps(conn[c], conn'[c])
  BY <1>1 DEF EndsAs, Tasks, Keeps
<1>3. QED
  BY <1>1, <1>2 DEF Leaves, End

LEMMA AdapterCases ==
    ASSUME TaskTyped, Placed, NEW c \in Clients, Adapter(c)
    PROVE  Leaves(c) \/ Moves(c) \/ Sends(c) \/ Observes(c) \/ Learns(c)
<1>1. conn[c] \in Tasks /\ Fits(conn[c])
  BY DEF TaskTyped, Placed
<1>2. CASE Refuse(c) \/ Connect(c)
  <2>1. \E pc \in {"refused", "reading"} :
            conn[c].pc = "accepted" /\ conn'[c] = [conn[c] EXCEPT !.pc = pc]
    BY <1>2, MoveMakes
  <2>2. conn'[c].pc \in {"refused", "reading"} /\ SameCounts(conn[c], conn'[c])
    BY <1>1, <2>1 DEF Tasks, SameCounts
  <2>3. UNCHANGED <<server, checkers, history>>
    BY <1>2 DEF Refuse, Connect
  <2>4. QED
    BY <2>1, <2>2, <2>3 DEF Moves, AtServer
<1>3. CASE ConnectFails(c) \/ ReadFails(c) \/ WriteFails(c) \/ RespondFails(c)
  <2>1. /\ End(c, "error") /\ UNCHANGED <<server, history>>
        /\ conn[c].pc \in {"accepted", "reading", "forwarding", "answering"}
    BY <1>3 DEF ConnectFails, ReadFails, WriteFails, RespondFails
  <2>2. QED
    BY <2>1, EndLeaves DEF Results
<1>4. CASE NoReply(c)
  BY <1>4, EndLeaves DEF NoReply, Results, Unreadable
<1>5. CASE Read(c)
  <2>1. UNCHANGED <<server, history>>
    BY <1>5 DEF Read
  <2>2. CASE End(c, "ok")
    BY <1>5, <2>1, <2>2, ReadMakes, EndLeaves DEF Results
  <2>3. ASSUME NEW name \in {"set", "del"}, UNCHANGED checkers,
               conn'[c] \in {Deferring(conn[c], name), Sent(conn[c], name)}
        PROVE  Moves(c)
    <3>1. conn[c].pc = "reading"
      BY <1>5, ReadMakes
    <3>2. Len(Append(conn[c].asked, name)) = Len(conn[c].asked) + 1
      BY <1>1, TaskFields, Appending
    <3>3. Len(conn[c].answers) = 0
      BY <1>1, <3>1 DEF Fits, Arranged
    <3>4. conn'[c].pc \in {"reading", "forwarding"} /\ AsksOneMore(conn[c], conn'[c])
      BY <1>1, <2>3, <3>1, <3>2, <3>3 DEF Deferring, Sent, Tasks, AsksOneMore
    <3>5. QED
      BY <2>1, <2>3, <3>1, <3>4 DEF Moves, AtServer
  <2>4. QED
    BY <1>5, <2>2, <2>3, ReadMakes
<1>6. CASE StopReading(c)
  <2>1. UNCHANGED <<server, history>>
    BY <1>6 DEF StopReading
  <2>2. CASE End(c, "ok")
    BY <1>6, <2>1, <2>2, StopReadingMakes, EndLeaves DEF Results
  <2>3. CASE UNCHANGED checkers /\ conn'[c] = Flushed(conn[c])
    <3>1. conn'[c].pc = "forwarding" /\ SameCounts(conn[c], conn'[c])
      BY <1>1, <2>3 DEF Flushed, Tasks, SameCounts
    <3>2. QED
      BY <1>6, <2>1, <2>3, <3>1, StopReadingMakes DEF Moves, AtServer
  <2>4. QED
    BY <1>6, <2>2, <2>3, StopReadingMakes
<1>7. CASE Write(c)
  <2>1. conn[c].pc = "forwarding" /\ conn'[c] = [conn[c] EXCEPT !.pc = "written"]
    BY <1>7, MoveMakes
  <2>2. QED
    BY <1>1, <1>7, <2>1 DEF Sends, Tasks, Keeps, SameCounts
<1>8. CASE ObserveCommand(c)
  <2>1. conn[c].pc = "written" /\ conn'[c] = [conn[c] EXCEPT !.pc = "awaiting"]
    BY <1>8, MoveMakes
  <2>2. SeeCommand(c, Current(c)) /\ UNCHANGED <<server, history>>
    BY <1>8 DEF ObserveCommand
  <2>3. QED
    BY <1>1, <2>1, <2>2 DEF Observes, Tasks, Keeps, SameCounts
<1>9. CASE ObserveReply(c)
  <2>1. conn[c].pc = "awaiting" /\ conn'[c] = Answered(conn[c])
    BY <1>9, ObserveReplyMakes
  <2>2. /\ conn'[c].asked = conn[c].asked /\ conn'[c].got = conn[c].got
        /\ Len(conn'[c].answers) = Len(conn[c].answers) + 1
    BY <1>1, <2>1, AnswerFits
  <2>3. conn'[c].pc \in {"forwarding", "answering"}
    BY <1>1, <2>1 DEF Answered, Tasks
  <2>4. QED
    BY <1>9, <2>1, <2>2, <2>3 DEF Learns
<1>10. CASE Respond(c)
  <2>1. UNCHANGED <<server, history>>
    BY <1>10 DEF Respond
  <2>2. ASSUME NEW result \in Results, End(c, result)
        PROVE  Leaves(c)
    BY <1>10, <2>1, <2>2, RespondMakes, EndLeaves
  <2>3. CASE conn'[c] = Responded(conn[c]) /\ UNCHANGED checkers
    <3>1. GetsOneMore(conn[c], conn'[c])
      BY <1>1, <1>10, <2>3, RespondMakes, RespondFits DEF GetsOneMore
    <3>2. conn[c].pc = "answering" /\ conn'[c].pc = "answering"
      BY <1>1, <1>10, <2>3, RespondMakes DEF Responded, Tasks
    <3>3. QED
      BY <2>1, <2>3, <3>1, <3>2 DEF Moves, AtServer
  <2>4. QED
    BY <1>10, <2>2, <2>3, RespondMakes
<1>11. CASE Return(c)
  <2>1. UNCHANGED <<server, history>> /\ conn[c].pc = "answering"
    BY <1>11 DEF Return
  <2>2. CASE End(c, "ok")
    BY <2>1, <2>2, EndLeaves DEF Results
  <2>3. CASE conn'[c] = [conn[c] EXCEPT !.pc = "reading"] /\ UNCHANGED checkers
    <3>1. conn'[c].pc = "reading" /\ SameCounts(conn[c], conn'[c])
      BY <1>1, <2>3 DEF Tasks, SameCounts
    <3>2. QED
      BY <2>1, <2>3, <3>1 DEF Moves, AtServer
  <2>4. QED
    BY <1>11, <2>2, <2>3, MoveMakes
<1>12. QED
  BY <1>2, <1>3, <1>4, <1>5, <1>6, <1>7, <1>8, <1>9, <1>10, <1>11 DEF Adapter

LEMMA StepCases ==
    ASSUME TaskTyped, Placed, Next
    PROVE  \/ Expire
           \/ \E c \in Clients :
                  \/ Execute(c) \/ Break(c)
                  \/ Others(c) /\ (Leaves(c) \/ Moves(c) \/ Sends(c) \/ Observes(c) \/ Learns(c))
<1>1. QED
  BY AdapterCases, OwnTask DEF Next, Others

\* The command of a batch was asked, and is SET or DEL.
LEMMA CurrentAsked ==
    ASSUME TaskTyped, Placed, NEW c \in Clients, conn[c].batch # <<>>
    PROVE  Current(c) \in Nat /\ NameOf(c, Current(c)) \in {"set", "del"}
<1>1. conn[c] \in Tasks /\ Fits(conn[c])
  BY DEF TaskTyped, Placed
<1>2. PICK asked \in Seq({"set", "del"}), batch \in Seq(Nat) :
          asked = conn[c].asked /\ batch = conn[c].batch
  BY <1>1, TaskFields
<1>3. 1 \in 1 .. Len(batch) /\ Head(batch) = batch[1]
  BY <1>2, EmptySeq
<1>4. \A i \in 1 .. Len(batch) : batch[i] \in 1 .. Len(asked)
  BY <1>1, <1>2 DEF Fits, Arranged
<1>5. Head(batch) \in 1 .. Len(asked)
  BY <1>3, <1>4
<1>6. asked[Head(batch)] \in {"set", "del"} /\ Head(batch) \in Nat
  BY <1>5, ElementOfSeq
<1>7. QED
  BY <1>2, <1>6 DEF Current, NameOf

\* There is one while a connection is in an exchange.
LEMMA SendingCurrent ==
    ASSUME TaskTyped, Placed, NEW c \in Clients, conn[c].pc \in Sending
    PROVE  /\ conn[c].batch # <<>>
           /\ Current(c) = Len(conn[c].asked) - Len(conn[c].answers)
<1>1. conn[c] \in Tasks /\ Fits(conn[c])
  BY DEF TaskTyped, Placed
<1>2. Len(conn[c].batch) # 0
  BY <1>1 DEF Fits, Arranged
<1>3. QED
  BY <1>1, <1>2, TaskFields, CurrentIs DEF Current

-----------------------------------------------------------------------------
\* The checkers wait for one reply.

LEMMA CheckersStart ==
    ASSUME Init
    PROVE  ServerTyped /\ CheckersTyped /\ HistoryTyped /\ OneAwaited /\ StrandedEnded
<1>1. QED
  BY EmptySeq DEF Init, ServerTyped, CheckersTyped, HistoryTyped, OneAwaited, StrandedEnded,
     Entries

LEMMA SingleEntry ==
    ASSUME NEW entry \in Entries
    PROVE  /\ Append(<<>>, entry) = <<entry>> /\ <<entry>> \in Seq(Entries)
           /\ Head(<<entry>>) = entry /\ Tail(<<entry>>) = <<>>
<1>1. QED
  OBVIOUS

LEMMA EntryTyped ==
    ASSUME TaskTyped, Placed, NEW c \in Clients, conn[c].batch # <<>>
    PROVE  Entry(c) \in Entries /\ Token(c, Current(c)) \in Entries
<1>1. QED
  BY CurrentAsked, TokenProperties DEF Entry, Entries, Other, Nobody

LEMMA ServerTypedKept ==
    ASSUME TaskTyped, Placed, WireIsOwn, ServerTyped, Next
    PROVE  ServerTyped'
<1>1. ASSUME NEW c \in Clients, Execute(c)
      PROVE  ServerTyped'
  <2>1. conn[c].batch # <<>>
    BY <1>1 DEF WireIsOwn, Execute, ServerReplies
  <2>2. Token(c, Current(c)) \in Entries /\ Nobody \in Entries
    BY <2>1, EntryTyped DEF Entries
  <2>3. QED
    BY <1>1, <2>2 DEF Execute, ServerReplies, ServerTyped
<1>2. CASE Expire
  BY <1>2 DEF Expire, ServerTyped, Entries
<1>3. ASSUME NEW c \in Clients, Break(c) \/ Leaves(c) \/ Moves(c) \/ Observes(c)
      PROVE  ServerTyped'
  BY <1>3 DEF Break, Leaves, Moves, Observes, server, ServerTyped
<1>4. ASSUME NEW c \in Clients, Sends(c) \/ Learns(c)
      PROVE  ServerTyped'
  BY <1>4 DEF Sends, Write, Learns, ObserveReply, ServerTyped
<1>5. QED
  BY <1>1, <1>2, <1>3, <1>4, StepCases

LEMMA HistoryTypedKept ==
    ASSUME TaskTyped, Placed, HistoryTyped, Next
    PROVE  HistoryTyped'
<1> USE DEF HistoryTyped
<1>1. ASSUME NEW c \in Clients, Execute(c)
      PROVE  HistoryTyped'
  BY <1>1 DEF Execute, ServerReplies
<1>2. CASE Expire
  BY <1>2 DEF Expire
<1>3. ASSUME NEW c \in Clients, Break(c) \/ Leaves(c) \/ Moves(c) \/ Observes(c)
      PROVE  HistoryTyped'
  BY <1>3 DEF Break, Leaves, Moves, Observes, history
<1>4. ASSUME NEW c \in Clients, Sends(c)
      PROVE  HistoryTyped'
  <2>1. secure' \in BOOLEAN
    BY <1>4, Zenon DEF Sends, Write
  <2>2. trespassed' \in BOOLEAN
    BY <1>4, Zenon DEF Sends, Write
  <2>3. overlapped' \in BOOLEAN
    BY <1>4, Zenon DEF Sends, Write
  <2>4. stolen' = stolen
    BY <1>4 DEF Sends, Write
  <2>5. QED
    BY <2>1, <2>2, <2>3, <2>4
<1>5. ASSUME NEW c \in Clients, Learns(c)
      PROVE  HistoryTyped'
  <2>1. secure' \in BOOLEAN
    BY <1>5, Zenon DEF Learns, ObserveReply
  <2>2. UNCHANGED <<trespassed, overlapped, stolen>>
    BY <1>5 DEF Learns, ObserveReply
  <2>3. QED
    BY <2>1, <2>2
<1>6. QED
  BY <1>1, <1>2, <1>3, <1>4, <1>5, StepCases

\* Both checkers count the command at the server, and no other.
LEMMA CheckersKept ==
    ASSUME TaskTyped, Placed, CheckersTyped, OneAwaited, Next
    PROVE  CheckersTyped' /\ OneAwaited'
<1> USE DEF CheckersTyped, OneAwaited
<1>1. ASSUME UNCHANGED <<conn, checkers>>
      PROVE  CheckersTyped' /\ OneAwaited'
  <2>1. \A c \in Clients : Entry(c)' = Entry(c)
    BY <1>1 DEF Entry, NameOf, Current
  <2>2. QED
    BY <1>1, <2>1 DEF checkers, replyChecker, lockChecker
<1>2. ASSUME NEW c \in Clients, Others(c)
      PROVE  \A d \in Clients : d # c => Entry(d)' = Entry(d) /\ conn'[d].pc = conn[d].pc
  BY <1>2 DEF Others, Entry, NameOf, Current
<1>3. ASSUME NEW c \in Clients, Others(c), Leaves(c)
      PROVE  CheckersTyped' /\ OneAwaited'
  <2>1. /\ unanswered' = [unanswered EXCEPT ![c] = 0]
        /\ pending' = [pending EXCEPT ![c] = <<>>]
        /\ believed' = [believed EXCEPT ![c] = Nobody]
        /\ UNCHANGED <<owner, reported>>
        /\ stranded' \in {stranded, stranded \cup {c}}
        /\ conn'[c].pc = "ended"
    BY <1>3 DEF Leaves, SeeClose
  <2>2. CheckersTyped'
    BY <2>1, EmptySeq DEF Entries
  <2>3. OneAwaited'
    BY <1>2, <1>3, <2>1
  <2>4. QED
    BY <2>2, <2>3
<1>4. ASSUME NEW c \in Clients, Others(c), Moves(c) \/ Sends(c)
      PROVE  CheckersTyped' /\ OneAwaited'
  <2>1. UNCHANGED checkers /\ conn'[c].pc # "awaiting" /\ conn[c].pc # "awaiting"
    BY <1>4 DEF Moves, Sends, Write, AtServer
  <2>2. QED
    BY <1>2, <1>4, <2>1 DEF checkers, replyChecker, lockChecker
<1>5. ASSUME NEW c \in Clients, Others(c), Observes(c)
      PROVE  CheckersTyped' /\ OneAwaited'
  <2>1. /\ conn[c].pc = "written" /\ conn'[c].pc = "awaiting"
        /\ Keeps(conn[c], conn'[c]) /\ SeeCommand(c, Current(c))
    BY <1>5 DEF Observes
  <2>2. Entry(c)' = Entry(c)
    BY <2>1 DEF Keeps, Entry, NameOf, Current
  <2>3. conn[c].batch # <<>>
    BY <2>1, SendingCurrent DEF Sending
  <2>4. Entry(c) \in Entries
    BY <2>3, EntryTyped
  <2>5. pending[c] = <<>> /\ unanswered[c] = 0
    BY <2>1
  <2>6. /\ pending' = [pending EXCEPT ![c] = Append(@, Entry(c))]
        /\ unanswered' = [unanswered EXCEPT ![c] = @ + 1]
        /\ owner' \in {owner, Nobody} /\ believed' \in {believed, [believed EXCEPT ![c] = Nobody]}
        /\ stranded' = stranded
    BY <2>1, <2>3, CurrentAsked DEF SeeCommand, Queue, Release, Entry
  <2>7. pending' = [pending EXCEPT ![c] = <<Entry(c)>>]
    BY <2>4, <2>5, <2>6, SingleEntry
  <2>8. reported' \in BOOLEAN
    BY <2>1, Zenon DEF SeeCommand, Queue, Release
  <2>9a. pending' \in [Clients -> Seq(Entries)]
    BY <2>4, <2>7, SingleEntry
  <2>9b. unanswered' \in [Clients -> Nat]
    BY <2>5, <2>6
  <2>9c. owner' \in Entries /\ believed' \in [Clients -> Entries]
    BY <2>6 DEF Entries
  <2>9. CheckersTyped'
    BY <2>6, <2>8, <2>9a, <2>9b, <2>9c
  <2>10. OneAwaited'
    BY <1>2, <1>5, <2>1, <2>2, <2>5, <2>6, <2>7
  <2>11. QED
    BY <2>9, <2>10
<1>6. ASSUME NEW c \in Clients, Others(c), Learns(c)
      PROVE  CheckersTyped' /\ OneAwaited'
  <2>1. /\ conn[c].pc = "awaiting" /\ conn'[c].pc \in {"forwarding", "answering"}
        /\ SeeReply(c, wire[c])
    BY <1>6 DEF Learns, ObserveReply
  <2>2. Entry(c) \in Entries
    BY <2>1, SendingCurrent, EntryTyped DEF Sending
  <2>3. pending[c] = <<Entry(c)>> /\ unanswered[c] = 1
    BY <2>1
  <2>4. Head(pending[c]) = Entry(c) /\ Tail(pending[c]) = <<>>
    BY <2>2, <2>3, SingleEntry
  <2>5. /\ pending' = [pending EXCEPT ![c] = <<>>]
        /\ unanswered' = [unanswered EXCEPT ![c] = 0]
        /\ owner' \in {owner, Entry(c)} /\ believed' \in {believed, [believed EXCEPT ![c] = Entry(c)]}
        /\ UNCHANGED <<stranded, reported>>
    BY <2>1, <2>3, <2>4 DEF SeeReply, Answers
  <2>6. CheckersTyped'
    BY <2>2, <2>5, EmptySeq
  <2>7. OneAwaited'
    BY <1>2, <1>6, <2>1, <2>5
  <2>8. QED
    BY <2>6, <2>7
<1>7. QED
  BY <1>1, <1>3, <1>4, <1>5, <1>6, StepCases DEF Expire, Execute, ServerReplies, Break

\* A connection is found stranded only as it ends with its server gone.
LEMMA StrandedEndedKept ==
    ASSUME TaskTyped, Placed, CheckersTyped, ServerTyped, OneAwaited, StrandedEnded, Next
    PROVE  StrandedEnded'
<1> USE DEF StrandedEnded, CheckersTyped, ServerTyped
<1>1. CASE Expire
  BY <1>1 DEF Expire, checkers, replyChecker, Unreadable
<1>2. ASSUME NEW c \in Clients, Execute(c) \/ Break(c)
      PROVE  StrandedEnded'
  <2>1. conn' = conn /\ stranded' = stranded
    BY <1>2 DEF Execute, Break, checkers, replyChecker
  <2>2. \A d \in stranded : conn[d].pc = "ended" /\ Unreadable(d) => Unreadable(d)'
    BY <1>2 DEF Execute, ServerReplies, Break, Unreadable
  <2>3. QED
    BY <2>1, <2>2
<1>3. ASSUME NEW c \in Clients, Others(c), Leaves(c)
      PROVE  StrandedEnded'
  <2>1. /\ stranded' = IF unanswered[c] > 0 THEN stranded \cup {c} ELSE stranded
        /\ link' = link /\ conn[c].pc # "ended" /\ conn'[c].pc = "ended"
        /\ wire' = wire
        /\ conn[c].pc = "awaiting" => Unreadable(c) /\ conn'[c].outcome = "error"
    BY <1>3 DEF Leaves, SeeClose, server
  <2>2. unanswered[c] > 0 => conn[c].pc = "awaiting"
    BY DEF OneAwaited
  <2>3. ASSUME NEW d \in stranded'
        PROVE  conn'[d].pc = "ended" /\ Unreadable(d)' /\ conn'[d].outcome = "error"
    <3>1. CASE d = c
      <4>1. c \notin stranded
        BY <2>1
      <4>2. unanswered[c] > 0
        BY <2>1, <2>3, <3>1, <4>1
      <4>3. QED
        BY <2>1, <2>2, <3>1, <4>2 DEF Unreadable
    <3>2. CASE d # c
      <4>1. d \in stranded /\ d \in Clients
        BY <2>1, <2>3, <3>2
      <4>2. QED
        BY <1>3, <2>1, <3>2, <4>1 DEF Others, Unreadable
    <3>3. QED
      BY <3>1, <3>2
  <2>4. QED
    BY <2>3
<1>4. ASSUME NEW c \in Clients, Others(c), Moves(c) \/ Sends(c) \/ Observes(c) \/ Learns(c)
      PROVE  StrandedEnded'
  <2>1. conn[c].pc # "ended" /\ UNCHANGED <<stranded, link>>
    BY <1>4 DEF Moves, Sends, Write, Observes, Learns, ObserveReply, SeeCommand, SeeReply,
       checkers, replyChecker, server, AtServer
  <2>2. \A d \in Clients : d # c => wire'[d] = wire[d]
    BY <1>4 DEF Moves, Sends, Write, Observes, Learns, ObserveReply, server
  <2>3. QED
    BY <1>4, <2>1, <2>2 DEF Others, Unreadable
<1>5. QED
  BY <1>1, <1>2, <1>3, <1>4, StepCases

-----------------------------------------------------------------------------
\* What the steps of an exchange do to what the checker knows.

LEMMA CommandKept ==
    ASSUME NEW c \in Clients, Keeps(conn[c], conn'[c])
    PROVE  Current(c)' = Current(c) /\ Entry(c)' = Entry(c) /\ (Releasing(c)' <=> Releasing(c))
<1>1. Current(c)' = Current(c) /\ \A k : NameOf(c, k)' = NameOf(c, k)
  BY DEF Keeps, Current, NameOf
<1>2. NameOf(c, Current(c))' = NameOf(c, Current(c))
  BY DEF Keeps, Current, NameOf
<1>3. QED
  BY <1>1, <1>2 DEF Entry, Releasing

LEMMA OthersKept ==
    ASSUME NEW c \in Clients, Others(c), NEW d \in Clients, d # c
    PROVE  /\ conn'[d] = conn[d] /\ Current(d)' = Current(d)
           /\ Entry(d)' = Entry(d) /\ (Releasing(d)' <=> Releasing(d))
<1>1. conn'[d] = conn[d] /\ Keeps(conn[d], conn'[d])
  BY DEF Others, Keeps
<1>2. QED
  BY <1>1, CommandKept

LEMMA SendsDoes ==
    ASSUME NEW c \in Clients, Sends(c)
    PROVE  /\ ~overlapped' => ~overlapped /\ \A d \in Clients : d # c => ~InExchange(d)
           /\ ~trespassed' => ~trespassed /\ (Releasing(c) => Holds(c))
           /\ secure' => secure /\ ~(Releasing(c) /\ Holds(c))
           /\ UNCHANGED <<link, lock, checkers, stolen>>
           /\ \A d \in Clients : d # c => wire'[d] = wire[d]
<1>1. ~overlapped' => ~overlapped /\ \A d \in Clients : d # c => ~InExchange(d)
  BY Zenon DEF Sends, Write
<1>2. ~trespassed' => ~trespassed /\ (Releasing(c) => Holds(c))
  BY Zenon DEF Sends, Write, Releasing
<1>3. secure' => secure /\ ~(Releasing(c) /\ Holds(c))
  BY Zenon DEF Sends, Write, Releasing
<1>4. /\ UNCHANGED <<link, lock, checkers, stolen>>
      /\ \A d \in Clients : d # c => wire'[d] = wire[d]
  BY DEF Sends, Write
<1>5. QED
  BY <1>1, <1>2, <1>3, <1>4

LEMMA ObservesDoes ==
    ASSUME TaskTyped, Placed, CheckersTyped, NEW c \in Clients, Observes(c)
    PROVE  /\ \/ /\ UNCHANGED <<owner, believed>> /\ (reported' <=> reported)
                 /\ Releasing(c) => owner = Nobody
              \/ /\ Releasing(c) /\ owner # Nobody /\ owner' = Nobody
                 /\ believed' = [believed EXCEPT ![c] = Nobody]
                 /\ reported' <=> reported \/ believed[c] # owner
           /\ UNCHANGED stranded
<1>1. conn[c].batch # <<>> /\ SeeCommand(c, Current(c))
  BY SendingCurrent DEF Observes, Sending
<1>2. CASE NameOf(c, Current(c)) = "del" /\ owner # Nobody /\ Release(c)
  <2>1. reported' <=> reported \/ believed[c] # owner
    BY <1>2, Zenon DEF Release
  <2>2. QED
    BY <1>1, <1>2, <2>1 DEF Releasing, Release, SeeCommand
<1>3. ASSUME NameOf(c, Current(c)) = "set" \/ owner = Nobody, NEW entry, Queue(c, entry)
      PROVE  /\ UNCHANGED <<owner, believed, reported>>
             /\ Releasing(c) => owner = Nobody
  BY <1>3 DEF Releasing, Queue
<1>4. QED
  BY <1>1, <1>2, <1>3 DEF SeeCommand

LEMMA LearnsDoes ==
    ASSUME TaskTyped, Placed, CheckersTyped, OneAwaited, NEW c \in Clients, Learns(c)
    PROVE  /\ wire[c] \in {"ok", "notOk"}
           /\ \/ /\ wire[c] = "ok" /\ Entry(c) # Nobody /\ owner' = Entry(c)
                 /\ believed' = [believed EXCEPT ![c] = Entry(c)]
              \/ ~(wire[c] = "ok" /\ Entry(c) # Nobody) /\ UNCHANGED <<owner, believed>>
           /\ reported' = reported
           /\ secure' => secure \/ (wire[c] = "ok" /\ lock = Token(c, Current(c)))
           /\ wire' = [wire EXCEPT ![c] = "idle"]
           /\ UNCHANGED <<link, lock, trespassed, stolen, overlapped>>
<1>1. conn[c].pc = "awaiting" /\ SeeReply(c, wire[c]) /\ conn[c].batch # <<>>
  BY SendingCurrent DEF Learns, ObserveReply, Sending
<1>2. Entry(c) \in Entries /\ pending[c] = <<Entry(c)>>
  BY <1>1, EntryTyped DEF OneAwaited
<1>3. Head(pending[c]) = Entry(c)
  BY <1>2, SingleEntry
<1>4. /\ \/ /\ wire[c] = "ok" /\ Entry(c) # Nobody /\ owner' = Entry(c)
            /\ believed' = [believed EXCEPT ![c] = Entry(c)]
         \/ ~(wire[c] = "ok" /\ Entry(c) # Nobody) /\ UNCHANGED <<owner, believed>>
      /\ reported' = reported
  BY <1>1, <1>3 DEF SeeReply, Acquires, Other, Nobody
<1>5. secure' => secure \/ (wire[c] = "ok" /\ lock = Token(c, Current(c)))
  BY Zenon DEF Learns, ObserveReply
<1>6. QED
  BY <1>4, <1>5 DEF Learns, ObserveReply

\* An entry that is not Nobody is its connection's SET.
LEMMA EntryIsToken ==
    ASSUME TaskTyped, Placed, NEW c \in Clients, conn[c].batch # <<>>
    PROVE  /\ Token(c, Current(c)) # Nobody /\ HolderOf(Token(c, Current(c))) = c
           /\ OrderOf(Token(c, Current(c))) = Current(c)
           /\ Releasing(c) <=> NameOf(c, Current(c)) # "set"
           /\ Entry(c) # Nobody => Entry(c) = Token(c, Current(c))
           /\ NameOf(c, Current(c)) = "set" => Entry(c) = Token(c, Current(c))
<1>1. QED
  BY CurrentAsked, TokenProperties DEF Entry, Other, Nobody, Releasing

-----------------------------------------------------------------------------
\* The parts of the invariant about the lock, one lemma each.

LEMMA WireIsOwnKept ==
    ASSUME TaskTyped, Placed, ServerTyped, WireIsOwn, Next
    PROVE  WireIsOwn'
<1>1. ASSUME UNCHANGED conn,
             \A c \in Clients :
                 /\ wire'[c] # "idle" => wire[c] # "idle"
                 /\ wire'[c] = "ok" => wire[c] = "ok" \/ NameOf(c, Current(c)) = "set"
      PROVE  WireIsOwn'
  BY <1>1 DEF WireIsOwn, NameOf, Current
<1>2. ASSUME NEW c \in Clients, Execute(c)
      PROVE  WireIsOwn'
  BY <1>1, <1>2 DEF Execute, ServerReplies, ServerTyped
<1>3. ASSUME NEW c \in Clients, Break(c)
      PROVE  WireIsOwn'
  BY <1>1, <1>3 DEF Break, ServerTyped
<1>4. CASE Expire
  BY <1>1, <1>4 DEF Expire
<1>5. ASSUME NEW c \in Clients, Others(c),
             /\ wire'[c] # "idle" => conn'[c].pc \in AtServer \cup {"ended"} /\ conn'[c].batch # <<>>
             /\ wire'[c] = "ok" => (NameOf(c, Current(c)) = "set")',
             \A d \in Clients : d # c => wire'[d] = wire[d]
      PROVE  WireIsOwn'
  BY <1>5 DEF WireIsOwn, Others, NameOf, Current
<1>6. ASSUME NEW c \in Clients, Others(c), Leaves(c)
      PROVE  WireIsOwn'
  BY <1>5, <1>6 DEF Leaves, server, WireIsOwn, Keeps, NameOf, Current
<1>7. ASSUME NEW c \in Clients, Others(c), Moves(c)
      PROVE  WireIsOwn'
  BY <1>5, <1>7 DEF Moves, server, WireIsOwn
<1>8. ASSUME NEW c \in Clients, Others(c), Sends(c)
      PROVE  WireIsOwn'
  <2>1. wire[c] = "idle" /\ conn[c].batch # <<>>
    BY <1>8, SendingCurrent DEF WireIsOwn, Sends, AtServer, Sending
  <2>2. wire'[c] \in {"idle", "asked"} /\ \A d \in Clients : d # c => wire'[d] = wire[d]
    BY <1>8, <2>1 DEF Sends, Write, ServerTyped
  <2>3. QED
    BY <1>5, <1>8, <2>1, <2>2 DEF Sends, Keeps, AtServer
<1>9. ASSUME NEW c \in Clients, Others(c), Observes(c)
      PROVE  WireIsOwn'
  BY <1>5, <1>9 DEF Observes, server, WireIsOwn, Keeps, NameOf, Current, AtServer
<1>10. ASSUME NEW c \in Clients, Others(c), Learns(c)
       PROVE  WireIsOwn'
  BY <1>5, <1>10 DEF Learns, ObserveReply, ServerTyped
<1>11. QED
  BY <1>2, <1>3, <1>4, <1>6, <1>7, <1>8, <1>9, <1>10, StepCases

LEMMA OwnerBelievesKept ==
    ASSUME TaskTyped, Placed, CheckersTyped, OneAwaited, OwnerBelieves, Next
    PROVE  OwnerBelieves'
<1>1. owner # Nobody => HolderOf(owner) \in Clients
  BY EntryProperties DEF CheckersTyped
<1>2. CASE UNCHANGED <<conn, checkers>>
  BY <1>2 DEF OwnerBelieves, checkers, lockChecker
<1>3. ASSUME NEW c \in Clients, Others(c), Leaves(c)
      PROVE  OwnerBelieves'
  BY <1>1, <1>3 DEF OwnerBelieves, Leaves, SeeClose, Others, CheckersTyped
<1>4. ASSUME NEW c \in Clients, Others(c), Moves(c) \/ Sends(c)
      PROVE  OwnerBelieves'
  <2>1. UNCHANGED <<owner, believed>> /\ conn[c].pc # "ended"
    BY <1>4 DEF Moves, Sends, Write, checkers, lockChecker
  <2>2. QED
    BY <1>1, <1>4, <2>1 DEF OwnerBelieves, Others
<1>5. ASSUME NEW c \in Clients, Others(c), Observes(c)
      PROVE  OwnerBelieves'
  <2>1. conn[c].pc # "ended"
    BY <1>5 DEF Observes
  <2>2. CASE UNCHANGED <<owner, believed>>
    BY <1>1, <1>5, <2>1, <2>2 DEF OwnerBelieves, Others
  <2>3. CASE owner' = Nobody /\ believed' = [believed EXCEPT ![c] = Nobody]
    BY <2>3 DEF OwnerBelieves, CheckersTyped
  <2>4. QED
    BY <1>5, <2>2, <2>3, ObservesDoes
<1>6. ASSUME NEW c \in Clients, Others(c), Learns(c)
      PROVE  OwnerBelieves'
  <2>1. conn[c].pc = "awaiting" /\ conn[c].batch # <<>>
    BY <1>6, SendingCurrent DEF Learns, Sending
  <2>2. CASE UNCHANGED <<owner, believed>>
    BY <1>1, <1>6, <2>1, <2>2 DEF OwnerBelieves, Others
  <2>3. CASE 
             \/ Entry(c) # Nobody /\ owner' = Entry(c) /\ believed' = [believed EXCEPT ![c] = Entry(c)]
    <3>1. HolderOf(Entry(c)) = c
      BY <2>1, <2>3, EntryIsToken
    <3>2. QED
      BY <2>3, <3>1 DEF OwnerBelieves, CheckersTyped
  <2>4. QED
    BY <1>6, <2>2, <2>3, LearnsDoes
<1>7. QED
  BY <1>2, <1>3, <1>4, <1>5, <1>6, StepCases DEF Expire, Execute, ServerReplies, Break

\* No exchange starts but by a write, and that one alone if none overlap.
LEMMA ExchangesKept ==
    ASSUME TaskTyped, Placed, ServerTyped, HistoryTyped, WireIsOwn, OneExchange, Next
    PROVE  OneExchange'
<1>1. ASSUME ~overlapped' => ~overlapped,
             \A d \in Clients : InExchange(d)' => InExchange(d)
      PROVE  OneExchange'
  BY <1>1 DEF OneExchange
<1>2. CASE Expire
  BY <1>1, <1>2 DEF Expire, InExchange
<1>3. ASSUME NEW c \in Clients, Execute(c)
      PROVE  OneExchange'
  <2>1. wire'[c] # "asked" /\ conn' = conn /\ overlapped' = overlapped
    BY <1>3 DEF Execute, ServerReplies, ServerTyped
  <2>2. \A d \in Clients : d # c => wire'[d] = wire[d]
    BY <1>3 DEF Execute, ServerReplies, ServerTyped
  <2>3. QED
    BY <1>1, <2>1, <2>2 DEF InExchange
<1>4. ASSUME NEW c \in Clients, Break(c)
      PROVE  OneExchange'
  BY <1>1, <1>4 DEF Break, InExchange, ServerTyped, history
<1>5. ASSUME NEW c \in Clients, Others(c), Leaves(c) \/ Moves(c) \/ Observes(c)
      PROVE  OneExchange'
  <2>1. UNCHANGED <<wire, overlapped>>
    BY <1>5 DEF Leaves, Moves, Observes, server, history
  <2>2. InExchange(c)' => InExchange(c)
    BY <1>5, <2>1 DEF InExchange, Leaves, Moves, Observes, AtServer
  <2>3. QED
    BY <1>1, <1>5, <2>1, <2>2 DEF InExchange, Others
<1>6. ASSUME NEW c \in Clients, Others(c), Sends(c)
      PROVE  OneExchange'
  <2>1. SUFFICES ASSUME ~overlapped'
                 PROVE  \A d, e \in Clients : InExchange(d)' /\ InExchange(e)' => d = e
    BY DEF OneExchange
  <2>2. \A d \in Clients : d # c => ~InExchange(d)
    BY <1>6, <2>1, SendsDoes
  <2>3. \A d \in Clients : d # c => ~InExchange(d)'
    BY <1>6, <2>2, SendsDoes DEF InExchange, Others
  <2>4. QED
    BY <2>3
<1>7. ASSUME NEW c \in Clients, Others(c), Learns(c)
      PROVE  OneExchange'
  <2>1. overlapped' = overlapped /\ wire' = [wire EXCEPT ![c] = "idle"]
    BY <1>7 DEF Learns, ObserveReply
  <2>2. InExchange(c)' => InExchange(c)
    BY <1>7, <2>1 DEF InExchange, Learns, ServerTyped
  <2>3. QED
    BY <1>1, <1>7, <2>1, <2>2 DEF InExchange, Others, ServerTyped
<1>8. QED
  BY <1>2, <1>3, <1>4, <1>5, <1>6, <1>7, StepCases

\* Of two connections only one is in an exchange.
LEMMA NoOther ==
    ASSUME OneExchange, ~overlapped, NEW c \in Clients, NEW d \in Clients, d # c, InExchange(d)
    PROVE  wire[c] # "asked" /\ conn[c].pc \notin AtServer
<1>1. QED
  BY DEF OneExchange, InExchange, AtServer

LEMMA OkMeansHeldKept ==
    ASSUME TaskTyped, Placed, ServerTyped, HistoryTyped, WireIsOwn, OneExchange, OkMeansHeld, Next
    PROVE  OkMeansHeld'
<1>1. ASSUME ~overlapped', ~overlapped, NEW d \in Clients, conn'[d] = conn[d],
             wire'[d] = "ok" => wire[d] = "ok", lock' \in {lock, Nobody},
             conn'[d].pc \in AtServer, wire'[d] = "ok"
      PROVE  lock' = Nobody \/ lock' = Token(d, Current(d))'
  BY <1>1 DEF OkMeansHeld, Token, Current
<1>2. CASE Expire
  BY <1>1, <1>2 DEF Expire, OkMeansHeld
<1>3. ASSUME NEW c \in Clients, Execute(c)
      PROVE  OkMeansHeld'
  <2>1. SUFFICES ASSUME ~overlapped', NEW d \in Clients, conn'[d].pc \in AtServer, wire'[d] = "ok"
                 PROVE  lock' = Nobody \/ lock' = Token(d, Current(d))'
    BY DEF OkMeansHeld
  <2>2. ~overlapped /\ InExchange(c) /\ conn' = conn
    BY <1>3, <2>1 DEF Execute, ServerReplies, InExchange
  <2>3. d = c
    BY <2>1, <2>2, NoOther
  <2>4. lock' = Token(c, Current(c))
    BY <1>3, <2>1, <2>3 DEF Execute, ServerReplies, ServerTyped
  <2>5. QED
    BY <2>2, <2>3, <2>4 DEF Token, Current
<1>4. ASSUME NEW c \in Clients, Break(c)
      PROVE  OkMeansHeld'
  <2>1. UNCHANGED <<conn, lock, overlapped>>
    BY <1>4 DEF Break, history
  <2>2. \A d \in Clients : wire'[d] = "ok" => wire[d] = "ok"
    BY <1>4 DEF Break, ServerTyped
  <2>3. QED
    BY <1>1, <2>1, <2>2 DEF OkMeansHeld
<1>5. ASSUME NEW c \in Clients, Others(c), Leaves(c) \/ Moves(c) \/ Observes(c)
      PROVE  OkMeansHeld'
  <2>1. UNCHANGED <<wire, lock, overlapped>>
    BY <1>5 DEF Leaves, Moves, Observes, server, history
  <2>2. conn'[c].pc \in AtServer => conn[c].pc \in AtServer /\ Current(c)' = Current(c)
    BY <1>5, CommandKept DEF Leaves, Moves, Observes, AtServer
  <2>3. QED
    BY <1>1, <1>5, <2>1, <2>2 DEF OkMeansHeld, Others, Token
<1>6. ASSUME NEW c \in Clients, Others(c), Sends(c)
      PROVE  OkMeansHeld'
  <2>1. SUFFICES ASSUME ~overlapped', NEW d \in Clients, conn'[d].pc \in AtServer
                 PROVE  wire'[d] # "ok"
    BY DEF OkMeansHeld
  <2>2. CASE d # c
    <3>1. ~InExchange(d) /\ conn'[d] = conn[d]
      BY <1>6, <2>1, <2>2, SendsDoes DEF Others
    <3>2. QED
      BY <2>1, <3>1 DEF InExchange, AtServer
  <2>3. CASE d = c
    <3>1. wire[c] = "idle"
      BY <1>6 DEF WireIsOwn, Sends, AtServer
    <3>2. QED
      BY <1>6, <2>3, <3>1 DEF Sends, Write, ServerTyped
  <2>4. QED
    BY <2>2, <2>3
<1>7. ASSUME NEW c \in Clients, Others(c), Learns(c)
      PROVE  OkMeansHeld'
  <2>1. UNCHANGED <<lock, overlapped>> /\ wire' = [wire EXCEPT ![c] = "idle"]
    BY <1>7 DEF Learns, ObserveReply
  <2>2. conn'[c].pc \notin AtServer
    BY <1>7 DEF Learns, AtServer
  <2>3. QED
    BY <1>1, <1>7, <2>1, <2>2 DEF OkMeansHeld, Others, ServerTyped
<1>8. QED
  BY <1>2, <1>3, <1>4, <1>5, <1>6, <1>7, StepCases

\* What was executed stays so as commands are asked, answered and got.
LEMMA AskedForMoves ==
    ASSUME NEW o \in Nat, NEW n \in Nat, NEW a \in Nat, NEW g \in Nat,
           AskedFor(o, n, a, g, FALSE)
    PROVE  /\ a = 0 => AskedFor(o, n + 1, 0, g, FALSE)
           /\ g + a = n => AskedFor(o, n, a - 1, g + 1, FALSE)
<1>1. QED
  BY DEF AskedFor

LEMMA HolderTyped ==
    ASSUME ServerTyped, lock # Nobody
    PROVE  /\ HolderOf(lock) \in Clients /\ OrderOf(lock) \in Nat
           /\ lock = Token(HolderOf(lock), OrderOf(lock))
<1>1. QED
  BY EntryProperties DEF ServerTyped

LEMMA CountsTyped ==
    ASSUME TaskTyped, NEW c \in Clients
    PROVE  /\ Len(conn[c].asked) \in Nat /\ Len(conn[c].answers) \in Nat
           /\ Len(conn[c].got) \in Nat
<1>1. QED
  BY TaskFields, LenProperties DEF TaskTyped

LEMMA LockWasAskedKept ==
    ASSUME TaskTyped, Placed, ServerTyped, WireIsOwn, LockWasAsked, Next
    PROVE  LockWasAsked'
<1>1. CASE lock' = Nobody
  BY <1>1 DEF LockWasAsked, Holds
<1>2. ASSUME NEW c \in Clients, UNCHANGED <<conn, lock>>, Executed(c) => Executed(c)',
             Holds(c)', conn'[c].pc # "ended", ~Executed(c)' => ~Executed(c)
      PROVE  AskedFor(OrderOf(lock), Len(conn[c].asked), Len(conn[c].answers),
                      Len(conn[c].got), Executed(c))'
  BY <1>2 DEF LockWasAsked, Holds, AskedFor, OrderOf
<1>3. ASSUME NEW c \in Clients, Execute(c), lock' # Nobody
      PROVE  LockWasAsked'
  <2>1. conn' = conn /\ wire[c] = "asked" /\ ~Executed(c)
    BY <1>3 DEF Execute, ServerReplies, Executed
  <2>2. \A d \in Clients : d # c => (Executed(d)' <=> Executed(d))
    BY <1>3 DEF Execute, ServerReplies, Executed, ServerTyped
  <2>3. CASE lock' = lock
    <3>1. \A d \in Clients : Executed(d) => Executed(d)'
      BY <2>1, <2>2
    <3>2. QED
      BY <2>1, <2>3, <2>2, <3>1 DEF LockWasAsked, Holds, AskedFor, OrderOf
  <2>4. CASE lock' = Token(c, Current(c)) /\ wire'[c] \in {"ok", "refused"}
    <3>1. conn[c].batch # <<>> /\ conn[c].pc \in AtServer \cup {"ended"}
      BY <2>1 DEF WireIsOwn
    <3>2. HolderOf(lock') = c /\ OrderOf(lock)' = Current(c)
      BY <2>4, <3>1, EntryIsToken DEF OrderOf
    <3>3. SUFFICES ASSUME conn[c].pc # "ended"
                   PROVE  AskedFor(OrderOf(lock), Len(conn[c].asked), Len(conn[c].answers),
                                   Len(conn[c].got), Executed(c))'
      BY <2>1, <3>2 DEF LockWasAsked, Holds, HolderOf
    <3>4. conn[c].pc \in Sending /\ Executed(c)'
      BY <2>1, <2>4, <3>1, <3>3 DEF Sending, AtServer, Executed
    <3>5. Current(c) = Len(conn[c].asked) - Len(conn[c].answers)
      BY <3>4, SendingCurrent
    <3>6. Current(c) <= Len(conn[c].asked)
      <4>1. PICK n \in Nat, a \in Nat : n = Len(conn[c].asked) /\ a = Len(conn[c].answers)
        BY CountsTyped
      <4>2. Current(c) = n - a
        BY <3>5, <4>1
      <4>3. n - a <= n
        OBVIOUS
      <4>4. QED
        BY <4>1, <4>2, <4>3
    <3>7. QED
      BY <2>1, <3>2, <3>4, <3>5, <3>6 DEF AskedFor
  <2>5. QED
    BY <1>3, <2>3, <2>4 DEF Execute, ServerReplies, ServerTyped
<1>4. ASSUME NEW c \in Clients, Break(c)
      PROVE  LockWasAsked'
  <2>1. UNCHANGED <<conn, lock>>
    BY <1>4 DEF Break
  <2>2. \A d \in Clients : Executed(d) => Executed(d)'
    BY <1>4 DEF Break, Executed, ServerTyped
  <2>3. QED
    BY <2>1, <2>2 DEF LockWasAsked, Holds, AskedFor, OrderOf
<1>5. ASSUME NEW c \in Clients, Others(c), UNCHANGED <<link, lock>>,
             \A d \in Clients : d # c => wire'[d] = wire[d],
             Holds(c) /\ conn'[c].pc # "ended" =>
                 AskedFor(OrderOf(lock), Len(conn'[c].asked), Len(conn'[c].answers),
                          Len(conn'[c].got), Executed(c)')
      PROVE  LockWasAsked'
  <2>1. \A d \in Clients : d # c => conn'[d] = conn[d] /\ (Executed(d)' <=> Executed(d))
    BY <1>5 DEF Others, Executed
  <2>2. QED
    BY <1>5, <2>1 DEF LockWasAsked, Holds, AskedFor, OrderOf
<1>6. ASSUME NEW c \in Clients, Others(c), Leaves(c)
      PROVE  LockWasAsked'
  BY <1>5, <1>6 DEF Leaves, server
<1>7. ASSUME NEW c \in Clients, Others(c), Moves(c) \/ Sends(c) \/ Observes(c) \/ Learns(c),
             Holds(c)
      PROVE  AskedFor(OrderOf(lock), Len(conn'[c].asked), Len(conn'[c].answers),
                      Len(conn'[c].got), Executed(c)')
  <2>1. OrderOf(lock) \in Nat
    BY <1>7, HolderTyped DEF Holds
  <2>2. AskedFor(OrderOf(lock), Len(conn[c].asked), Len(conn[c].answers),
                 Len(conn[c].got), Executed(c))
    BY <1>7 DEF LockWasAsked, Moves, Sends, Observes, Learns
  <2>3. PICK o \in Nat, n \in Nat, a \in Nat, g \in Nat :
            /\ o = OrderOf(lock) /\ n = Len(conn[c].asked) /\ a = Len(conn[c].answers)
            /\ g = Len(conn[c].got)
    BY <2>1, CountsTyped
  <2>4. AskedFor(o, n, a, g, Executed(c))
    BY <2>2, <2>3
  <2>5. CASE Learns(c)
    <3>1. AskedFor(o, n, a + 1, g, FALSE)
      BY <2>4 DEF AskedFor
    <3>2. QED
      BY <2>3, <2>5, <3>1 DEF Learns, AskedFor
  <2>6. CASE Observes(c)
    <3>1. (Executed(c)' <=> Executed(c)) /\ SameCounts(conn[c], conn'[c])
      BY <2>6 DEF Observes, Executed, server, AtServer
    <3>2. QED
      BY <2>3, <2>4, <3>1 DEF SameCounts, AskedFor
  <2>7. CASE Moves(c) \/ Sends(c)
    <3>1. ~Executed(c)
      BY <2>7 DEF Executed, Moves, Sends, AtServer
    <3>2. AskedFor(o, n, a, g, FALSE)
      BY <2>4, <3>1 DEF AskedFor
    <3>3. CASE SameCounts(conn[c], conn'[c])
      BY <2>3, <3>2, <3>3 DEF SameCounts, AskedFor
    <3>4. CASE AsksOneMore(conn[c], conn'[c])
      <4>1. a = 0 /\ AskedFor(o, n + 1, 0, g, FALSE)
        BY <2>3, <3>2, <3>4, AskedForMoves DEF AsksOneMore
      <4>2. QED
        BY <2>3, <3>4, <4>1 DEF AsksOneMore, AskedFor
    <3>5. CASE GetsOneMore(conn[c], conn'[c])
      <4>1. g + a = n /\ AskedFor(o, n, a - 1, g + 1, FALSE)
        BY <2>3, <3>2, <3>5, AskedForMoves DEF GetsOneMore
      <4>2. QED
        BY <2>3, <3>5, <4>1 DEF GetsOneMore, AskedFor
    <3>6. QED
      BY <2>7, <3>3, <3>4, <3>5 DEF Moves, Sends
  <2>8. QED
    BY <1>7, <2>5, <2>6, <2>7
<1>8. ASSUME NEW c \in Clients, Others(c), Moves(c) \/ Sends(c) \/ Observes(c) \/ Learns(c)
      PROVE  LockWasAsked'
  <2>1. UNCHANGED <<link, lock>> /\ \A d \in Clients : d # c => wire'[d] = wire[d]
    BY <1>8 DEF Moves, Sends, Write, Observes, Learns, ObserveReply, server, ServerTyped
  <2>2. QED
    BY <1>5, <1>7, <1>8, <2>1
<1>9. QED
  BY <1>1, <1>3, <1>4, <1>6, <1>8, StepCases DEF Expire

\* The token of the command at the server is in the lock only if it was executed.
LEMMA LockAtServer ==
    ASSUME TaskTyped, Placed, LockWasAsked, NEW c \in Clients, conn[c].pc \in AtServer,
           lock = Token(c, Current(c))
    PROVE  Executed(c)
<1>1. conn[c] \in Tasks /\ Fits(conn[c]) /\ conn[c].batch # <<>>
  BY SendingCurrent DEF TaskTyped, Placed, Sending, AtServer
<1>2. PICK n \in Nat, a \in Nat, g \in Nat, b \in Nat, d \in Nat :
          /\ n = Len(conn[c].asked) /\ a = Len(conn[c].answers) /\ g = Len(conn[c].got)
          /\ b = Len(conn[c].batch) /\ d = Len(conn[c].deferred)
  BY <1>1, TaskFields, LenProperties
<1>3. g + d + a + b = n /\ b # 0
  BY <1>1, <1>2 DEF Fits, Arranged, AtServer, Sending
<1>4. Current(c) = n - a
  BY <1>2, SendingCurrent DEF AtServer, Sending
<1>5. Holds(c) /\ OrderOf(lock) = n - a
  BY <1>1, <1>4, EntryIsToken DEF Holds
<1>6. AskedFor(n - a, n, a, g, Executed(c))
  BY <1>2, <1>5 DEF LockWasAsked, AtServer
<1>7. QED
  BY <1>3, <1>6 DEF AskedFor

LEMMA HolderIsOwnerKept ==
    ASSUME TaskTyped, Placed, ServerTyped, CheckersTyped, HistoryTyped, OneAwaited,
           WireIsOwn, LockWasAsked, OneExchange, OkMeansHeld, HolderIsOwner, Next
    PROVE  HolderIsOwner'
<1>1. CASE lock' = Nobody
  BY <1>1 DEF HolderIsOwner, Holds
<1>2. ASSUME ~overlapped, NEW d \in Clients, conn'[d] = conn[d], lock' = lock,
             owner' \in {owner, Nobody}, Holds(d)', conn'[d].pc # "ended",
             conn'[d].pc \in AtServer => lock' # Token(d, Current(d))'
      PROVE  owner' = Nobody \/ HolderOf(owner)' = d
  BY <1>2 DEF HolderIsOwner, Holds, Token, Current, HolderOf
<1>3. ASSUME NEW c \in Clients, Execute(c), lock' # Nobody
      PROVE  HolderIsOwner'
  <2>1. UNCHANGED <<conn, owner, overlapped>>
    BY <1>3 DEF Execute, ServerReplies, checkers, lockChecker
  <2>2. CASE lock' = lock
    BY <1>2, <2>1, <2>2 DEF HolderIsOwner
  <2>3. CASE lock' = Token(c, Current(c))
    <3>1. conn[c].batch # <<>> /\ conn[c].pc \in AtServer \cup {"ended"}
      BY <1>3 DEF WireIsOwn, Execute, ServerReplies
    <3>2. \A d \in Clients : Holds(d)' => d = c
      BY <2>3, <3>1, EntryIsToken DEF Holds, HolderOf
    <3>3. lock' = Token(c, Current(c))'
      BY <2>1, <2>3 DEF Token, Current
    <3>4. QED
      BY <2>1, <3>1, <3>2, <3>3 DEF HolderIsOwner
  <2>4. QED
    BY <1>3, <2>2, <2>3 DEF Execute, ServerReplies
<1>4. ASSUME NEW c \in Clients, Break(c)
      PROVE  HolderIsOwner'
  BY <1>2, <1>4 DEF Break, HolderIsOwner, checkers, lockChecker, history
<1>5. ASSUME NEW c \in Clients, Others(c), Leaves(c)
      PROVE  HolderIsOwner'
  BY <1>2, <1>5 DEF Leaves, SeeClose, HolderIsOwner, Others, server, history
<1>6. ASSUME NEW c \in Clients, Others(c), Moves(c) \/ Sends(c) \/ Observes(c)
      PROVE  HolderIsOwner'
  <2>1. lock' = lock /\ owner' \in {owner, Nobody}
    BY <1>6, ObservesDoes DEF Moves, Sends, Write, Observes, server, checkers, lockChecker
  <2>2. overlapped' = overlapped \/ Sends(c)
    BY <1>6 DEF Moves, Observes, history
  <2>3. SUFFICES ASSUME ~overlapped', NEW d \in Clients, Holds(d)', conn'[d].pc # "ended",
                        conn'[d].pc \in AtServer => lock' # Token(d, Current(d))'
                 PROVE  owner' = Nobody \/ HolderOf(owner)' = d
    BY DEF HolderIsOwner
  <2>4. ~overlapped
    BY <2>2, <2>3, SendsDoes
  <2>5. CASE d # c
    BY <1>2, <1>6, <2>1, <2>3, <2>4, <2>5 DEF Others
  <2>6. CASE d = c
    <3>1. Holds(c) /\ conn[c].pc # "ended"
      BY <1>6, <2>1, <2>3, <2>6 DEF Holds, HolderOf, Moves, Sends, Observes
    <3>2. conn[c].pc \in AtServer => lock # Token(c, Current(c))
      <4>1. CASE Moves(c) \/ Sends(c)
        BY <4>1 DEF Moves, Sends, AtServer
      <4>2. CASE Observes(c)
        BY <2>1, <2>3, <2>6, <4>2, CommandKept DEF Observes, AtServer, Token
      <4>3. QED
        BY <1>6, <4>1, <4>2
    <3>3. owner = Nobody \/ HolderOf(owner) = c
      BY <2>4, <3>1, <3>2 DEF HolderIsOwner
    <3>4. QED
      BY <2>1, <2>6, <3>3 DEF HolderOf
  <2>7. QED
    BY <2>5, <2>6
<1>7. ASSUME NEW c \in Clients, Others(c), Learns(c)
      PROVE  HolderIsOwner'
  <2>1. SUFFICES ASSUME ~overlapped', NEW d \in Clients, Holds(d)', conn'[d].pc # "ended",
                        conn'[d].pc \in AtServer => lock' # Token(d, Current(d))'
                 PROVE  owner' = Nobody \/ HolderOf(owner)' = d
    BY DEF HolderIsOwner
  <2>2. /\ ~overlapped /\ lock' = lock /\ Holds(d) /\ wire[c] \in {"ok", "notOk"}
        /\ conn[c].pc = "awaiting" /\ conn[c].batch # <<>>
    BY <1>7, <2>1, LearnsDoes, SendingCurrent DEF Learns, Holds, HolderOf, Sending
  <2>3. CASE wire[c] = "ok" /\ Entry(c) # Nobody /\ owner' = Entry(c)
    <3>1. HolderOf(owner)' = c /\ HolderOf(Token(c, Current(c))) = c
      BY <2>2, <2>3, EntryIsToken DEF HolderOf
    <3>2. lock = Token(c, Current(c))
      BY <2>2, <2>3 DEF OkMeansHeld, Holds, AtServer
    <3>3. d = c
      BY <2>2, <3>1, <3>2 DEF Holds
    <3>4. QED
      BY <3>1, <3>3
  <2>4. CASE ~(wire[c] = "ok" /\ Entry(c) # Nobody) /\ owner' = owner
    <3>1. CASE d # c
      BY <1>2, <1>7, <2>1, <2>2, <2>4, <3>1 DEF Others
    <3>2. CASE d = c
      <4>1. lock # Token(c, Current(c))
        <5>1. SUFFICES ASSUME lock = Token(c, Current(c))
                       PROVE  FALSE
          OBVIOUS
        <5>2. wire[c] = "ok"
          BY <2>2, <5>1, LockAtServer DEF Executed, AtServer
        <5>3. Entry(c) = Token(c, Current(c)) /\ Token(c, Current(c)) # Nobody
          BY <2>2, <5>2, EntryIsToken DEF WireIsOwn
        <5>4. QED
          BY <2>4, <5>2, <5>3
      <4>2. owner = Nobody \/ HolderOf(owner) = c
        BY <2>2, <3>2, <4>1 DEF HolderIsOwner
      <4>3. QED
        BY <2>4, <3>2, <4>2 DEF HolderOf
    <3>3. QED
      BY <3>1, <3>2
  <2>5. QED
    BY <1>7, <2>3, <2>4, LearnsDoes
<1>8. QED
  BY <1>1, <1>3, <1>4, <1>5, <1>6, <1>7, StepCases DEF Expire

LEMMA SenderIsOwnerKept ==
    ASSUME TaskTyped, Placed, CheckersTyped, HistoryTyped, OneAwaited,
           OneExchange, HolderIsOwner, SenderIsOwner, Next
    PROVE  SenderIsOwner'
<1>1. ASSUME ~overlapped, ~trespassed, NEW d \in Clients, conn'[d] = conn[d],
             owner' \in {owner, Nobody}, conn'[d].pc = "written", Releasing(d)'
      PROVE  owner' = Nobody \/ HolderOf(owner)' = d
  <2>1. conn[d].pc = "written" /\ Releasing(d)
    BY <1>1, CommandKept DEF Keeps
  <2>2. QED
    BY <1>1, <2>1 DEF SenderIsOwner, HolderOf
<1>2. ASSUME UNCHANGED <<conn, owner, overlapped, trespassed>>
      PROVE  SenderIsOwner'
  BY <1>1, <1>2 DEF SenderIsOwner
<1>3. ASSUME NEW c \in Clients, Others(c), Leaves(c) \/ Moves(c) \/ Observes(c)
      PROVE  SenderIsOwner'
  <2>1. /\ UNCHANGED <<overlapped, trespassed>> /\ conn'[c].pc # "written"
        /\ owner' \in {owner, Nobody}
    BY <1>3, ObservesDoes DEF Leaves, SeeClose, Moves, Observes, history, checkers,
       lockChecker, AtServer
  <2>2. QED
    BY <1>1, <1>3, <2>1 DEF SenderIsOwner, Others
<1>4. ASSUME NEW c \in Clients, Others(c), Sends(c)
      PROVE  SenderIsOwner'
  <2>1. SUFFICES ASSUME ~overlapped', ~trespassed', NEW d \in Clients,
                        conn'[d].pc = "written", Releasing(d)'
                 PROVE  owner' = Nobody \/ HolderOf(owner)' = d
    BY DEF SenderIsOwner
  <2>2. /\ ~overlapped /\ ~trespassed /\ (Releasing(c) => Holds(c)) /\ owner' = owner
        /\ d # c => ~InExchange(d)
    BY <1>4, <2>1, SendsDoes DEF checkers, lockChecker
  <2>3. d = c
    BY <1>4, <2>1, <2>2 DEF InExchange, Others
  <2>4. Holds(c) /\ conn[c].pc = "forwarding"
    BY <1>4, <2>1, <2>2, <2>3, CommandKept DEF Sends
  <2>5. QED
    BY <2>2, <2>3, <2>4 DEF HolderIsOwner, HolderOf, AtServer
<1>5. ASSUME NEW c \in Clients, Others(c), Learns(c)
      PROVE  SenderIsOwner'
  <2>1. overlapped' = overlapped
    BY <1>5, LearnsDoes
  <2>2. InExchange(c) /\ conn'[c].pc # "written"
    BY <1>5 DEF Learns, InExchange
  <2>3. ASSUME ~overlapped, NEW d \in Clients, d # c
        PROVE  conn'[d].pc # "written"
    BY <1>5, <2>2, <2>3, NoOther DEF Others, AtServer
  <2>4. QED
    BY <2>1, <2>2, <2>3 DEF SenderIsOwner
<1>6. QED
  BY <1>2, <1>3, <1>4, <1>5, StepCases
     DEF Expire, Execute, ServerReplies, Break, checkers, lockChecker, history

\* The observer of a DEL reports it only if its sender had trespassed.
LEMMA QuietKept ==
    ASSUME TaskTyped, Placed, CheckersTyped, HistoryTyped, OneAwaited, OwnerBelieves,
           SenderIsOwner, QuietWithoutTrespass, Next
    PROVE  QuietWithoutTrespass'
<1>1. ASSUME reported' => reported, ~overlapped' => ~overlapped, ~trespassed' => ~trespassed
      PROVE  QuietWithoutTrespass'
  BY <1>1 DEF QuietWithoutTrespass
<1>2. ASSUME UNCHANGED <<reported, overlapped, trespassed>>
      PROVE  QuietWithoutTrespass'
  BY <1>1, <1>2
<1>3. ASSUME NEW c \in Clients, Leaves(c) \/ Moves(c) \/ Learns(c)
      PROVE  QuietWithoutTrespass'
  BY <1>2, <1>3, LearnsDoes DEF Leaves, SeeClose, Moves, checkers, lockChecker, history
<1>4. ASSUME NEW c \in Clients, Sends(c)
      PROVE  QuietWithoutTrespass'
  BY <1>1, <1>4, SendsDoes DEF checkers, lockChecker
<1>5. ASSUME NEW c \in Clients, Observes(c)
      PROVE  QuietWithoutTrespass'
  <2>1. UNCHANGED <<overlapped, trespassed>> /\ conn[c].pc = "written"
    BY <1>5 DEF Observes, history
  <2>2. CASE reported' => reported
    BY <1>1, <2>1, <2>2
  <2>3. CASE Releasing(c) /\ owner # Nobody /\ (reported' <=> reported \/ believed[c] # owner)
    <3>1. ASSUME ~overlapped, ~trespassed
          PROVE  believed[c] = owner
      BY <2>1, <2>3, <3>1 DEF SenderIsOwner, OwnerBelieves
    <3>2. QED
      BY <2>1, <2>3, <3>1 DEF QuietWithoutTrespass
  <2>4. QED
    BY <1>5, <2>2, <2>3, ObservesDoes
<1>6. QED
  BY <1>2, <1>3, <1>4, <1>5, StepCases
     DEF Expire, Execute, ServerReplies, Break, checkers, lockChecker, history

LEMMA SecureIsOwnedKept ==
    ASSUME TaskTyped, Placed, CheckersTyped, HistoryTyped, OneAwaited, WireIsOwn,
           OwnerBelieves, OkMeansHeld, SecureIsOwned, SecureIsKept, Next
    PROVE  SecureIsOwned'
<1>1. ASSUME ~overlapped' => ~overlapped, ~reported' => ~reported, secure' => secure,
             UNCHANGED <<lock, owner>>
      PROVE  SecureIsOwned'
  BY <1>1 DEF SecureIsOwned
<1>2. ASSUME UNCHANGED <<reported, overlapped, secure, lock, owner>>
      PROVE  SecureIsOwned'
  BY <1>1, <1>2
<1>3. CASE Expire
  BY <1>3 DEF Expire, SecureIsOwned
<1>4. ASSUME NEW c \in Clients, Execute(c)
      PROVE  SecureIsOwned'
  <2>1. UNCHANGED <<overlapped, owner, reported>>
    BY <1>4 DEF Execute, ServerReplies, checkers, lockChecker
  <2>2. CASE lock = Nobody /\ secure' = secure
    BY <2>1, <2>2 DEF SecureIsOwned
  <2>3. CASE secure' = FALSE
    BY <2>3 DEF SecureIsOwned
  <2>4. CASE UNCHANGED <<lock, secure>>
    BY <1>2, <2>1, <2>4
  <2>5. QED
    BY <1>4, <2>2, <2>3, <2>4 DEF Execute, ServerReplies
<1>5. ASSUME NEW c \in Clients, Break(c) \/ Leaves(c) \/ Moves(c)
      PROVE  SecureIsOwned'
  BY <1>2, <1>5 DEF Break, Leaves, SeeClose, Moves, server, checkers, lockChecker, history
<1>6. ASSUME NEW c \in Clients, Sends(c)
      PROVE  SecureIsOwned'
  BY <1>1, <1>6, SendsDoes DEF checkers, lockChecker
<1>7. ASSUME NEW c \in Clients, Observes(c)
      PROVE  SecureIsOwned'
  <2>1. UNCHANGED <<overlapped, secure, lock>> /\ conn[c].pc = "written"
    BY <1>7 DEF Observes, server, history
  <2>2. CASE owner' = owner /\ (reported' <=> reported)
    BY <1>1, <2>1, <2>2
  <2>3. CASE Releasing(c) /\ owner # Nobody /\ (reported' <=> reported \/ believed[c] # owner)
    <3>1. ASSUME ~overlapped, ~reported, secure
          PROVE  believed[c] # owner
      <4>1. owner = lock /\ ~Holds(c)
        BY <2>1, <2>3, <3>1 DEF SecureIsOwned, SecureIsKept
      <4>2. QED
        BY <2>3, <4>1 DEF OwnerBelieves, Holds
    <3>2. QED
      BY <2>1, <2>3, <3>1 DEF SecureIsOwned
  <2>4. QED
    BY <1>7, <2>2, <2>3, ObservesDoes
<1>8. ASSUME NEW c \in Clients, Learns(c)
      PROVE  SecureIsOwned'
  <2>1. /\ UNCHANGED <<overlapped, lock, reported>>
        /\ secure' => secure \/ (wire[c] = "ok" /\ lock = Token(c, Current(c)))
        /\ conn[c].pc = "awaiting" /\ conn[c].batch # <<>>
    BY <1>8, LearnsDoes, SendingCurrent DEF Learns, Sending
  <2>2. CASE wire[c] = "ok" /\ Entry(c) # Nobody /\ owner' = Entry(c)
    <3>1. owner' = Token(c, Current(c)) /\ Token(c, Current(c)) # Nobody
      BY <2>1, <2>2, EntryIsToken
    <3>2. ~overlapped => lock = Nobody \/ lock = Token(c, Current(c))
      BY <2>1, <2>2 DEF OkMeansHeld, AtServer
    <3>3. QED
      BY <2>1, <3>1, <3>2 DEF SecureIsOwned
  <2>3. CASE ~(wire[c] = "ok" /\ Entry(c) # Nobody) /\ owner' = owner
    <3>1. wire[c] = "ok" => Entry(c) # Nobody
      BY <2>1, EntryIsToken DEF WireIsOwn
    <3>2. secure' => secure
      BY <2>1, <2>3, <3>1
    <3>3. QED
      BY <1>1, <2>1, <2>3, <3>2
  <2>4. QED
    BY <1>8, <2>2, <2>3, LearnsDoes
<1>9. QED
  BY <1>3, <1>4, <1>5, <1>6, <1>7, <1>8, StepCases

LEMMA SecureIsKeptKept ==
    ASSUME TaskTyped, Placed, ServerTyped, CheckersTyped, HistoryTyped, OneAwaited, WireIsOwn,
           OneExchange, SecureIsKept, Next
    PROVE  SecureIsKept'
<1>1. ASSUME ~overlapped, secure, NEW d \in Clients, conn'[d] = conn[d], lock' = lock,
             conn'[d].pc = "written", Releasing(d)'
      PROVE  ~Holds(d)'
  <2>1. conn[d].pc = "written" /\ Releasing(d)
    BY <1>1, CommandKept DEF Keeps
  <2>2. QED
    BY <1>1, <2>1 DEF SecureIsKept, Holds
<1>2. CASE Expire
  BY <1>2 DEF Expire, SecureIsKept
<1>3. ASSUME NEW c \in Clients, Execute(c)
      PROVE  SecureIsKept'
  <2>1. UNCHANGED <<conn, overlapped>> /\ InExchange(c)
    BY <1>3 DEF Execute, ServerReplies, InExchange
  <2>2. CASE secure' = FALSE
    BY <2>2 DEF SecureIsKept
  <2>3. CASE UNCHANGED <<lock, secure>>
    BY <1>1, <2>1, <2>3 DEF SecureIsKept
  <2>4. CASE NameOf(c, Current(c)) = "set" /\ lock' = Token(c, Current(c))
    <3>1. SUFFICES ASSUME ~overlapped, NEW d \in Clients, conn[d].pc = "written", Releasing(d)
                   PROVE  ~Holds(d)'
      BY <2>1, CommandKept DEF SecureIsKept, Keeps
    <3>2. d = c
      BY <2>1, <3>1, NoOther DEF AtServer
    <3>3. QED
      BY <2>4, <3>1, <3>2 DEF Releasing
  <2>5. QED
    BY <1>3, <2>2, <2>3, <2>4 DEF Execute, ServerReplies
<1>4. ASSUME NEW c \in Clients, Break(c)
      PROVE  SecureIsKept'
  BY <1>1, <1>4 DEF Break, history, SecureIsKept
<1>5. ASSUME NEW c \in Clients, Others(c), Leaves(c) \/ Moves(c) \/ Observes(c)
      PROVE  SecureIsKept'
  <2>1. UNCHANGED <<overlapped, secure, lock>> /\ conn'[c].pc # "written"
    BY <1>5 DEF Leaves, Moves, Observes, server, history, AtServer
  <2>2. QED
    BY <1>1, <1>5, <2>1 DEF SecureIsKept, Others
<1>6. ASSUME NEW c \in Clients, Others(c), Sends(c)
      PROVE  SecureIsKept'
  <2>1. SUFFICES ASSUME ~overlapped', secure', NEW d \in Clients,
                        conn'[d].pc = "written", Releasing(d)'
                 PROVE  ~Holds(d)'
    BY DEF SecureIsKept
  <2>2. /\ ~(Releasing(c) /\ Holds(c)) /\ lock' = lock
        /\ d # c => ~InExchange(d)
    BY <1>6, <2>1, SendsDoes
  <2>3. d = c
    BY <1>6, <2>1, <2>2 DEF InExchange, Others
  <2>4. Releasing(c)
    BY <1>6, <2>1, <2>3, CommandKept DEF Sends
  <2>5. QED
    BY <2>2, <2>3, <2>4 DEF Holds
<1>7. ASSUME NEW c \in Clients, Others(c), Learns(c)
      PROVE  SecureIsKept'
  <2>1. overlapped' = overlapped
    BY <1>7, LearnsDoes
  <2>2. InExchange(c) /\ conn'[c].pc # "written"
    BY <1>7 DEF Learns, InExchange
  <2>3. ASSUME ~overlapped, NEW d \in Clients, d # c
        PROVE  conn'[d].pc # "written"
    BY <1>7, <2>2, <2>3, NoOther DEF Others, AtServer
  <2>4. QED
    BY <2>1, <2>2, <2>3 DEF SecureIsKept
<1>8. QED
  BY <1>2, <1>3, <1>4, <1>5, <1>6, <1>7, StepCases

LEMMA ReleasedIsFreeKept ==
    ASSUME TaskTyped, Placed, ServerTyped, CheckersTyped, HistoryTyped, OneAwaited,
           WireIsOwn, OneExchange, ReleasedIsFree, Next
    PROVE  ReleasedIsFree'
<1>1. ASSUME ~overlapped, ~reported, NEW d \in Clients, wire[d] = "asked",
             conn[d].pc # "written", Keeps(conn[d], conn'[d]), Releasing(d)',
             owner' \in {owner, Nobody}
      PROVE  owner' = Nobody
  BY <1>1, CommandKept DEF ReleasedIsFree
<1>2. ASSUME UNCHANGED <<conn, owner, reported, overlapped>>,
             \A d \in Clients : wire'[d] = "asked" => wire[d] = "asked"
      PROVE  ReleasedIsFree'
  BY <1>1, <1>2 DEF ReleasedIsFree, Keeps
<1>3. CASE Expire
  BY <1>2, <1>3 DEF Expire, checkers, lockChecker
<1>4. ASSUME NEW c \in Clients, Execute(c) \/ Break(c)
      PROVE  ReleasedIsFree'
  <2>1. UNCHANGED <<conn, owner, reported, overlapped>>
    BY <1>4 DEF Execute, ServerReplies, Break, checkers, lockChecker, history
  <2>2. \A d \in Clients : wire'[d] = "asked" => wire[d] = "asked"
    BY <1>4 DEF Execute, ServerReplies, Break, ServerTyped
  <2>3. QED
    BY <1>2, <2>1, <2>2
<1>5. ASSUME NEW c \in Clients, Others(c), UNCHANGED <<wire, overlapped>>,
             owner' \in {owner, Nobody}, ~reported' => ~reported,
             ~overlapped /\ ~reported' /\ wire[c] = "asked" /\ Releasing(c)' => owner' = Nobody
      PROVE  ReleasedIsFree'
  <2>1. SUFFICES ASSUME ~overlapped', ~reported', NEW d \in Clients, wire'[d] = "asked",
                        conn'[d].pc # "written", Releasing(d)'
                 PROVE  owner' = Nobody
    BY DEF ReleasedIsFree
  <2>2. CASE d = c
    BY <1>5, <2>1, <2>2
  <2>3. CASE d # c
    BY <1>1, <1>5, <2>1, <2>3 DEF Others, Keeps
  <2>4. QED
    BY <2>2, <2>3
<1>6. ASSUME NEW c \in Clients, Others(c), Leaves(c) \/ Moves(c)
      PROVE  ReleasedIsFree'
  <2>1. UNCHANGED <<wire, owner, reported, overlapped>>
    BY <1>6 DEF Leaves, SeeClose, Moves, server, checkers, lockChecker, history
  <2>2. wire[c] = "asked" => Leaves(c)
    BY <1>6 DEF WireIsOwn, Moves
  <2>3. ~overlapped /\ ~reported' /\ wire[c] = "asked" /\ Releasing(c)' => owner' = Nobody
    BY <1>1, <2>1, <2>2 DEF Leaves
  <2>4. QED
    BY <1>5, <1>6, <2>1, <2>3
<1>7. ASSUME NEW c \in Clients, Others(c), Observes(c)
      PROVE  ReleasedIsFree'
  <2>1. UNCHANGED <<wire, overlapped>> /\ (Releasing(c)' <=> Releasing(c))
    BY <1>7, CommandKept DEF Observes, server, history
  <2>2. owner' \in {owner, Nobody} /\ (~reported' => ~reported)
    BY <1>7, ObservesDoes
  <2>3. Releasing(c) => owner' = Nobody
    BY <1>7, ObservesDoes
  <2>4. QED
    BY <1>5, <1>7, <2>1, <2>2, <2>3
<1>8. ASSUME NEW c \in Clients, Others(c), Sends(c)
      PROVE  ReleasedIsFree'
  <2>1. SUFFICES ASSUME ~overlapped', ~reported', NEW d \in Clients, wire'[d] = "asked",
                        conn'[d].pc # "written", Releasing(d)'
                 PROVE  owner' = Nobody
    BY DEF ReleasedIsFree
  <2>2. d # c /\ ~overlapped /\ UNCHANGED <<owner, reported>> /\ wire'[d] = wire[d]
    BY <1>8, <2>1, SendsDoes DEF Sends, checkers, lockChecker
  <2>3. QED
    BY <1>1, <1>8, <2>1, <2>2 DEF Others, Keeps
<1>9. ASSUME NEW c \in Clients, Others(c), Learns(c)
      PROVE  ReleasedIsFree'
  <2>1. overlapped' = overlapped /\ wire' = [wire EXCEPT ![c] = "idle"] /\ InExchange(c)
    BY <1>9, LearnsDoes DEF Learns, InExchange
  <2>2. ~overlapped => \A d \in Clients : wire'[d] # "asked"
    BY <2>1, NoOther DEF ServerTyped
  <2>3. QED
    BY <2>1, <2>2 DEF ReleasedIsFree
<1>10. QED
  BY <1>3, <1>4, <1>6, <1>7, <1>8, <1>9, StepCases

LEMMA TheftIsSeenKept ==
    ASSUME TaskTyped, Placed, ServerTyped, CheckersTyped, HistoryTyped, OneAwaited, WireIsOwn,
           OwnerBelieves, OneExchange, SecureIsOwned, ReleasedIsFree, TheftIsSeen, Next
    PROVE  TheftIsSeen'
<1>1. ASSUME ~overlapped, ~reported, NEW d \in stolen, conn'[d] = conn[d], owner' = owner
      PROVE  (/\ conn[d].pc = "written" /\ Releasing(d)
              /\ owner # Nobody /\ HolderOf(owner) # d)'
  BY <1>1, CommandKept DEF TheftIsSeen, HolderOf, Keeps, HistoryTyped
<1>2. ASSUME UNCHANGED <<conn, owner, reported, overlapped, stolen>>
      PROVE  TheftIsSeen'
  BY <1>1, <1>2 DEF TheftIsSeen
<1>3. CASE Expire
  BY <1>2, <1>3 DEF Expire, checkers, lockChecker
<1>4. ASSUME NEW c \in Clients, Execute(c)
      PROVE  TheftIsSeen'
  <2>1. UNCHANGED <<conn, owner, reported, overlapped>> /\ wire[c] = "asked"
    BY <1>4 DEF Execute, ServerReplies, checkers, lockChecker
  <2>2. CASE stolen' = stolen
    BY <1>2, <2>1, <2>2
  <2>3. CASE NameOf(c, Current(c)) # "set" /\ secure /\ ~Holds(c) /\ stolen' = stolen \cup {c}
    <3>1. ASSUME ~overlapped, ~reported
          PROVE  (/\ conn[c].pc = "written" /\ Releasing(c)
                  /\ owner # Nobody /\ HolderOf(owner) # c)'
      <4>1. owner = lock /\ owner # Nobody /\ HolderOf(owner) # c
        BY <2>3, <3>1 DEF SecureIsOwned, Holds
      <4>2. Releasing(c)
        BY <2>1, <2>3, EntryIsToken DEF WireIsOwn
      <4>3. conn[c].pc = "written"
        BY <2>1, <3>1, <4>1, <4>2 DEF ReleasedIsFree
      <4>4. QED
        BY <2>1, <4>1, <4>2, <4>3, CommandKept DEF Keeps, HolderOf
    <3>2. QED
      BY <1>1, <2>1, <2>3, <3>1 DEF TheftIsSeen
  <2>4. QED
    BY <1>4, <2>2, <2>3 DEF Execute, ServerReplies
<1>5. ASSUME NEW c \in Clients, Break(c)
      PROVE  TheftIsSeen'
  BY <1>2, <1>5 DEF Break, checkers, lockChecker, history
<1>6. ASSUME NEW c \in Clients, Others(c), UNCHANGED <<stolen, owner>>,
             ~overlapped' => ~overlapped, ~reported' => ~reported,
             conn[c].pc # "written"
      PROVE  TheftIsSeen'
  <2>1. SUFFICES ASSUME ~overlapped', ~reported', NEW d \in stolen
                 PROVE  (/\ conn[d].pc = "written" /\ Releasing(d)
                         /\ owner # Nobody /\ HolderOf(owner) # d)'
    BY <1>6 DEF TheftIsSeen
  <2>2. d # c /\ d \in Clients
    BY <1>6, <2>1 DEF TheftIsSeen, HistoryTyped
  <2>3. QED
    BY <1>1, <1>6, <2>1, <2>2 DEF Others
<1>7. ASSUME NEW c \in Clients, Others(c), Leaves(c) \/ Moves(c)
      PROVE  TheftIsSeen'
  BY <1>6, <1>7 DEF Leaves, SeeClose, Moves, checkers, lockChecker, history, AtServer
<1>8. ASSUME NEW c \in Clients, Others(c), Sends(c)
      PROVE  TheftIsSeen'
  <2>1. UNCHANGED <<stolen, owner, reported>> /\ (~overlapped' => ~overlapped)
    BY <1>8, SendsDoes DEF checkers, lockChecker
  <2>2. QED
    BY <1>6, <1>8, <2>1 DEF Sends
<1>9. ASSUME NEW c \in Clients, Others(c), Observes(c) \/ Learns(c)
      PROVE  TheftIsSeen'
  <2>1. UNCHANGED <<overlapped, stolen>> /\ InExchange(c)
    BY <1>9, LearnsDoes DEF Observes, Learns, history, InExchange
  <2>2. ~reported' => ~reported
    BY <1>9, ObservesDoes, LearnsDoes
  <2>3. SUFFICES ASSUME ~overlapped, ~reported'
                 PROVE  stolen = {}
    BY <2>1 DEF TheftIsSeen
  <2>4. SUFFICES ASSUME NEW d \in stolen
                 PROVE  FALSE
    OBVIOUS
  <2>5. d \in Clients /\ conn[d].pc = "written" /\ Releasing(d) /\ owner # Nobody /\ HolderOf(owner) # d
    BY <2>2, <2>3, <2>4 DEF TheftIsSeen, HistoryTyped
  <2>6. d = c
    BY <2>1, <2>3, <2>5, NoOther DEF AtServer
  <2>7. Observes(c)
    BY <1>9, <2>5, <2>6 DEF Learns
  <2>8. believed[c] = owner
    BY <2>3, <2>5, <2>6, <2>7, ObservesDoes
  <2>9. QED
    BY <2>5, <2>6, <2>8 DEF OwnerBelieves
<1>10. QED
  BY <1>3, <1>4, <1>5, <1>7, <1>8, <1>9, StepCases

-----------------------------------------------------------------------------
\* Both parts hold of every state.

LEMMA LockStarts ==
    ASSUME Init
    PROVE  LockInv
<1>1. WireIsOwn /\ OwnerBelieves /\ LockWasAsked
  BY DEF Init, WireIsOwn, OwnerBelieves, LockWasAsked, Holds
<1>2. OneExchange /\ OkMeansHeld /\ HolderIsOwner
  BY DEF Init, OneExchange, OkMeansHeld, HolderIsOwner, InExchange, Holds
<1>3. SenderIsOwner /\ QuietWithoutTrespass
  BY DEF Init, SenderIsOwner, QuietWithoutTrespass
<1>4. SecureIsOwned /\ SecureIsKept /\ ReleasedIsFree /\ TheftIsSeen
  BY DEF Init, SecureIsOwned, SecureIsKept, ReleasedIsFree, TheftIsSeen
<1>5. QED
  BY <1>1, <1>2, <1>3, <1>4 DEF LockInv

LEMMA Invariant ==
    Spec => [](RepliesInv /\ LockInv)
<1>1. Init => RepliesInv /\ LockInv
  BY TasksStart, CheckersStart, LockStarts DEF RepliesInv, Typed
<1>2. RepliesInv /\ LockInv /\ [Next]_vars => (RepliesInv /\ LockInv)'
  <2> SUFFICES ASSUME RepliesInv, LockInv, [Next]_vars
               PROVE  (RepliesInv /\ LockInv)'
    OBVIOUS
  <2>1. CASE UNCHANGED vars
    <3>1. UNCHANGED <<conn, link, wire, lock, unanswered, stranded, owner, believed, pending,
                      reported, secure, trespassed, stolen, overlapped>>
      BY <2>1 DEF vars, server, checkers, replyChecker, lockChecker, history
    <3>2. RepliesInv'
      BY <3>1 DEF RepliesInv, Typed, TaskTyped, ServerTyped, CheckersTyped, HistoryTyped,
         Placed, OneAwaited, StrandedEnded, Unreadable, Entry, NameOf, Current
    <3>3. (WireIsOwn /\ OwnerBelieves /\ LockWasAsked)'
      BY <3>1 DEF LockInv, WireIsOwn, OwnerBelieves, LockWasAsked, Executed, Holds, NameOf,
         Current
    <3>4. (OneExchange /\ OkMeansHeld /\ HolderIsOwner)'
      BY <3>1 DEF LockInv, OneExchange, OkMeansHeld, HolderIsOwner, InExchange, Holds, Current
    <3>5. (SenderIsOwner /\ QuietWithoutTrespass)'
      BY <3>1 DEF LockInv, SenderIsOwner, QuietWithoutTrespass, Releasing, NameOf, Current
    <3>6. (SecureIsOwned /\ SecureIsKept /\ ReleasedIsFree /\ TheftIsSeen)'
      BY <3>1 DEF LockInv, SecureIsOwned, SecureIsKept, ReleasedIsFree, TheftIsSeen,
         Releasing, Holds, NameOf, Current
    <3>7. QED
      BY <3>2, <3>3, <3>4, <3>5, <3>6 DEF LockInv
  <2>2. CASE Next
    <3>1. /\ TaskTyped /\ Placed /\ ServerTyped /\ CheckersTyped /\ HistoryTyped
          /\ OneAwaited /\ StrandedEnded
          /\ WireIsOwn /\ OwnerBelieves /\ LockWasAsked
          /\ OneExchange /\ OkMeansHeld /\ HolderIsOwner
          /\ SenderIsOwner /\ QuietWithoutTrespass
          /\ SecureIsOwned /\ SecureIsKept /\ ReleasedIsFree /\ TheftIsSeen
      BY DEF RepliesInv, Typed, LockInv
    <3>2. RepliesInv'
      BY <2>2, <3>1, PlacedKept, ServerTypedKept, CheckersKept, HistoryTypedKept,
         StrandedEndedKept DEF RepliesInv, Typed
    <3>3. (WireIsOwn /\ OwnerBelieves /\ LockWasAsked)'
      BY <2>2, <3>1, WireIsOwnKept, OwnerBelievesKept, LockWasAskedKept
    <3>4. (OneExchange /\ OkMeansHeld /\ HolderIsOwner)'
      BY <2>2, <3>1, ExchangesKept, OkMeansHeldKept, HolderIsOwnerKept
    <3>5. (SenderIsOwner /\ QuietWithoutTrespass)'
      BY <2>2, <3>1, SenderIsOwnerKept, QuietKept
    <3>6. (SecureIsOwned /\ SecureIsKept /\ ReleasedIsFree /\ TheftIsSeen)'
      BY <2>2, <3>1, SecureIsOwnedKept, SecureIsKeptKept, ReleasedIsFreeKept, TheftIsSeenKept
    <3>7. QED
      BY <3>2, <3>3, <3>4, <3>5, <3>6 DEF LockInv
  <2>3. QED
    BY <2>1, <2>2
<1>3. QED
  BY <1>1, <1>2, PTL DEF Spec

\* Every variable holds what the code's types allow.
THEOREM TypeCorrect == Spec => []Typed
<1>1. RepliesInv => Typed
  BY DEF RepliesInv
<1>2. QED
  BY <1>1, Invariant, PTL

\* The n-th reply a client reads is that of its n-th command, in whatever order
\* the schedule had exchange send them: the sort puts an exchange's replies back
\* in the order asked, and an exchange starts where the one before it ended.
THEOREM RepliesInOrder == Spec => []RepliesMatchPositions
<1>1. RepliesInv => RepliesMatchPositions
  <2>1. SUFFICES ASSUME RepliesInv, NEW c \in Clients, NEW i \in DOMAIN conn[c].got
                 PROVE  conn[c].got[i] = i
    BY DEF RepliesMatchPositions
  <2>2. conn[c].got \in Seq(Nat) /\ Fits(conn[c])
    BY <2>1, TaskFields DEF RepliesInv, Typed, TaskTyped, Placed
  <2>3. DOMAIN conn[c].got = 1 .. Len(conn[c].got)
    BY <2>2, LenProperties
  <2>4. QED
    BY <2>1, <2>2, <2>3 DEF Fits, Arranged
<1>2. QED
  BY <1>1, Invariant, PTL

\* EveryCommandGetsAReply fires for no fault of the schedule.
THEOREM StrandedByServer == Spec => []StrandedOnlyByServer
<1>1. RepliesInv => StrandedOnlyByServer
  BY DEF RepliesInv, StrandedEnded, Unreadable, StrandedOnlyByServer
<1>2. QED
  BY <1>1, Invariant, PTL

\* While exchanges do not overlap, LockReleasedByOwner fires only if some client
\* sent DEL for a lock it did not hold, and it reports every DEL that took away
\* a lock another connection had taken and was not releasing.
THEOREM LockJudgedRightly == Spec => []LockReportsAreRight
<1>1. LockInv => QuietWithoutTrespass
  BY DEF LockInv
<1>2. LockInv => TheftIsReported
  BY DEF LockInv, TheftIsSeen, TheftIsReported
<1>3. LockInv => LockReportsAreRight
  BY <1>1, <1>2 DEF LockReportsAreRight
<1>4. QED
  BY <1>3, Invariant, PTL

-----------------------------------------------------------------------------
\* Sockets.

Sockets == Seq(OnSocket)
Types == Scalars \cup Blobs \cup Aggregates \cup {"|"}

LEMMA TypesAre ==
    /\ \A type \in {"+", "-"} : type \in Scalars /\ type \notin Blobs /\ type \notin Aggregates
    /\ \A type \in {"$", "!"} : type \in Blobs /\ type \notin Scalars /\ type \notin Aggregates
    /\ \A type \in {"*", "%", "~", ">"} : type \in Aggregates /\ type \notin Scalars /\ type \notin Blobs
    /\ "|" \notin Scalars /\ "|" \notin Blobs /\ "|" \notin Aggregates
    /\ \A type \in Types : type = "|" \/ type \in Scalars \/ type \in Blobs \/ type \in Aggregates
BY Zenon DEF Scalars, Blobs, Aggregates, Types

LEMMA TokensAre ==
    /\ \A type \in Types, count \in Int :
           /\ Line(type, count) \in OnSocket /\ Line(type, count).token = "line"
           /\ Line(type, count).type = type /\ Line(type, count).count = count
    /\ \A word \in Seq(Letters) :
           Body(word) \in OnSocket /\ Body(word).token = "body" /\ Body(word).word = word
    /\ Torn \in OnSocket /\ Torn.token = "torn"
BY DEF OnSocket, Types, Line, Body, Torn

LEMMA TakenIs ==
    ASSUME NEW message, NEW left
    PROVE  /\ IsTaken(Taken(message, left)) /\ Taken(message, left).result = message
           /\ Taken(message, left).left = left /\ ~IsTaken(Failed) /\ ~IsTaken(Ended)
BY DEF IsTaken, Taken, Failed, Ended

LEMMA SameSeq ==
    ASSUME NEW U, NEW s \in Seq(U), NEW t \in Seq(U), Len(s) = Len(t),
           \A i \in 1 .. Len(s) : s[i] = t[i]
    PROVE  s = t
OBVIOUS

LEMMA Regroup ==
    ASSUME NEW U, NEW a \in Seq(U), NEW b \in Seq(U), NEW c \in Seq(U)
    PROVE  (a \o b) \o c = a \o (b \o c)
OBVIOUS

Regrouped(a, b, c) == (a \o b) \o c = a \o (b \o c)

LEMMA SocketsRegroup ==
    ASSUME NEW a \in Sockets, NEW b \in Sockets, NEW c \in Sockets
    PROVE  Regrouped(a, b, c)
BY Regroup DEF Sockets, Regrouped

LEMMA EmptyJoined ==
    ASSUME NEW U, NEW a \in Seq(U)
    PROVE  a \o <<>> = a /\ <<>> \o a = a /\ <<>> \in Seq(U)
OBVIOUS

IsJoined(U, whole, a, b) ==
    /\ whole \in Seq(U) /\ Len(whole) = Len(a) + Len(b)
    /\ \A i \in 1 .. Len(a) : whole[i] = a[i]
    /\ \A i \in 1 .. Len(b) : whole[Len(a) + i] = b[i]

LEMMA JoinedIs ==
    ASSUME NEW U, NEW a \in Seq(U), NEW b \in Seq(U)
    PROVE  IsJoined(U, a \o b, a, b)
BY DEF IsJoined

\* A sequence by its first element.
Leads(U, s, x, rest) ==
    s \in Seq(U) /\ s # <<>> /\ Head(s) = x /\ Tail(s) = rest /\ Len(s) = 1 + Len(rest)

LEMMA Led ==
    ASSUME NEW U, NEW x \in U, NEW rest \in Seq(U)
    PROVE  Leads(U, <<x>> \o rest, x, rest)
<1>1. PICK one, n : one = <<x>> /\ n = Len(rest)
  OBVIOUS
<1>2. one \in Seq(U) /\ Len(one) = 1 /\ one[1] = x
  BY <1>1
<1>3. n \in Nat
  BY <1>1
<1>4. PICK s : s = one \o rest
  OBVIOUS
<1>5. /\ s \in Seq(U) /\ Len(s) = 1 + n /\ \A i \in 1 .. 1 : s[i] = one[i]
      /\ \A i \in 1 .. n : s[1 + i] = rest[i]
  <2>1. IsJoined(U, s, one, rest)
    BY <1>2, <1>4, JoinedIs
  <2>2. QED
    BY <1>1, <1>2, <2>1 DEF IsJoined
<1>6. s[1] = x
  BY <1>2, <1>5
<1>7. s # <<>> /\ Head(s) = x
  BY <1>3, <1>5, <1>6
<1>8. Tail(s) = rest
  <2>1. Len(Tail(s)) = n /\ Tail(s) \in Seq(U) /\ \A i \in 1 .. n : Tail(s)[i] = s[i + 1]
    BY <1>3, <1>5, <1>7
  <2>2. \A i \in 1 .. n : Tail(s)[i] = rest[i]
    <3>1. \A i \in 1 .. n : i + 1 = 1 + i
      OBVIOUS
    <3>2. QED
      BY <1>5, <2>1, <3>1
  <2>3. QED
    BY <1>1, <2>1, <2>2, SameSeq
<1>9. Leads(U, s, x, rest)
  BY <1>1, <1>5, <1>7, <1>8 DEF Leads
<1>10. QED
  BY <1>1, <1>4, <1>9

LEMMA OneLed ==
    ASSUME NEW U, NEW x \in U
    PROVE  Leads(U, <<x>>, x, <<>>)
<1>1. PICK one : one = <<x>>
  OBVIOUS
<1>2. one \in Seq(U) /\ one \o <<>> = one /\ <<>> \in Seq(U)
  BY <1>1, EmptyJoined
<1>3. Leads(U, <<x>> \o <<>>, x, <<>>)
  BY <1>2, Led
<1>4. QED
  BY <1>1, <1>2, <1>3

-----------------------------------------------------------------------------
\* Where a stream may be cut off.

IsCut(cut, tokens) ==
    \E i \in 1 .. Len(tokens) :
        cut = SubSeq(tokens, 1, i - 1) \/ cut = SubSeq(tokens, 1, i - 1) \o <<Torn>>

IsFirst(U, part, s, n) == part \in Seq(U) /\ Len(part) = n /\ \A j \in 1 .. n : part[j] = s[j]

LEMMA FirstIs ==
    ASSUME NEW U, NEW s \in Seq(U), NEW n \in Nat, n <= Len(s)
    PROVE  IsFirst(U, SubSeq(s, 1, n), s, n)
<1>1. PICK part : part = SubSeq(s, 1, n)
  OBVIOUS
<1>2. part \in Seq(U) /\ Len(part) = n /\ \A j \in 1 .. n : part[j] = s[j]
  BY <1>1
<1>3. QED
  BY <1>1, <1>2 DEF IsFirst

\* In the first of two parts, or in the second.
CutIn(cut, a, b) == IsCut(cut, a) \/ \E rest \in Sockets : IsCut(rest, b) /\ cut = a \o rest

LEMMA CutJoined ==
    ASSUME NEW a \in Sockets, NEW b \in Sockets, NEW cut, IsCut(cut, a \o b)
    PROVE  CutIn(cut, a, b)
<1>1. PICK whole : whole = a \o b
  OBVIOUS
<1>2. PICK m, n : m = Len(a) /\ n = Len(b)
  OBVIOUS
<1>3. m \in Nat /\ n \in Nat
  BY <1>2 DEF Sockets
<1>4. /\ whole \in Sockets /\ Len(whole) = m + n
      /\ \A i \in 1 .. m : whole[i] = a[i]
      /\ \A i \in 1 .. n : whole[m + i] = b[i]
  <2>1. IsJoined(OnSocket, whole, a, b)
    BY <1>1, JoinedIs DEF Sockets
  <2>2. QED
    BY <1>2, <2>1 DEF IsJoined, Sockets
<1>5. PICK i \in 1 .. m + n : cut = SubSeq(whole, 1, i - 1) \/ cut = SubSeq(whole, 1, i - 1) \o <<Torn>>
  BY <1>1, <1>4 DEF IsCut
<1>6. PICK k : k = i - 1
  OBVIOUS
<1>7. k \in Nat /\ k < m + n /\ k <= Len(whole) /\ i \in Nat /\ k + 1 = i
  BY <1>3, <1>4, <1>6
<1>8. PICK part : part = SubSeq(whole, 1, k)
  OBVIOUS
<1>9. part \in Sockets /\ Len(part) = k /\ \A j \in 1 .. k : part[j] = whole[j]
  <2>1. IsFirst(OnSocket, part, whole, k)
    BY <1>4, <1>7, <1>8, FirstIs DEF Sockets
  <2>2. QED
    BY <2>1 DEF IsFirst, Sockets
<1>10. cut = part \/ cut = part \o <<Torn>>
  BY <1>5, <1>6, <1>8
<1>11. CASE k < m
  <2>1. PICK short : short = SubSeq(a, 1, k)
    OBVIOUS
  <2>2. short \in Sockets /\ Len(short) = k /\ \A j \in 1 .. k : short[j] = a[j]
    <3>1. k <= Len(a)
      BY <1>2, <1>3, <1>7, <1>11
    <3>2. IsFirst(OnSocket, short, a, k)
      BY <1>7, <2>1, <3>1, FirstIs DEF Sockets
    <3>3. QED
      BY <3>2 DEF IsFirst, Sockets
  <2>3. \A j \in 1 .. k : j \in 1 .. m
    BY <1>3, <1>7, <1>11
  <2>4. short = part
    <3>1. \A j \in 1 .. k : short[j] = part[j]
      BY <1>4, <1>9, <2>2, <2>3
    <3>2. QED
      BY <1>9, <2>2, <3>1, SameSeq DEF Sockets
  <2>5. i \in 1 .. Len(a)
    BY <1>2, <1>3, <1>6, <1>7, <1>11
  <2>6. QED
    BY <1>6, <1>10, <2>1, <2>4, <2>5 DEF IsCut, CutIn
<1>12. CASE ~(k < m)
  <2>1. PICK l : l = k - m
    OBVIOUS
  <2>2. l \in Nat /\ k = m + l /\ l < n /\ l <= Len(b)
    BY <1>2, <1>3, <1>7, <1>12, <2>1
  <2>3. PICK short : short = SubSeq(b, 1, l)
    OBVIOUS
  <2>4. short \in Sockets /\ Len(short) = l /\ \A j \in 1 .. l : short[j] = b[j]
    <3>1. IsFirst(OnSocket, short, b, l)
      BY <2>2, <2>3, FirstIs DEF Sockets
    <3>2. QED
      BY <3>1 DEF IsFirst, Sockets
  <2>5. PICK all : all = a \o short
    OBVIOUS
  <2>6. /\ all \in Sockets /\ Len(all) = m + l
        /\ \A j \in 1 .. m : all[j] = a[j]
        /\ \A j \in 1 .. l : all[m + j] = short[j]
    <3>1. IsJoined(OnSocket, all, a, short)
      BY <2>4, <2>5, JoinedIs DEF Sockets
    <3>2. QED
      BY <1>2, <2>4, <3>1 DEF IsJoined, Sockets
  <2>7. all = part
    <3>1. ASSUME NEW j \in 1 .. k PROVE all[j] = part[j]
      <4>1. CASE j <= m
        <5>1. j \in 1 .. m
          BY <4>1
        <5>2. QED
          BY <1>4, <1>9, <2>6, <5>1
      <4>2. CASE ~(j <= m)
        <5>1. PICK o : o = j - m
          OBVIOUS
        <5>2. o \in 1 .. l /\ o \in 1 .. n /\ j = m + o
          BY <1>3, <2>2, <4>2, <5>1
        <5>3. all[j] = b[o] /\ whole[j] = b[o]
          BY <1>4, <2>4, <2>6, <5>2
        <5>4. QED
          BY <1>9, <5>3
      <4>3. QED
        BY <4>1, <4>2
    <3>2. QED
      BY <1>9, <2>2, <2>6, <3>1, SameSeq DEF Sockets
  <2>8. l + 1 \in 1 .. Len(b) /\ (l + 1) - 1 = l
    BY <1>2, <1>3, <2>2
  <2>9. <<Torn>> \in Sockets
    BY TokensAre DEF Sockets
  <2>10. CASE cut = part
    <3>1. IsCut(short, b)
      BY <2>3, <2>8 DEF IsCut
    <3>2. QED
      BY <2>4, <2>5, <2>7, <2>10, <3>1 DEF CutIn
  <2>11. CASE cut = part \o <<Torn>>
    <3>1. PICK end : end = short \o <<Torn>>
      OBVIOUS
    <3>2. end \in Sockets
      BY <2>4, <2>9, <3>1 DEF Sockets
    <3>3. IsCut(end, b)
      BY <2>3, <2>8, <3>1 DEF IsCut
    <3>4. (a \o short) \o <<Torn>> = a \o (short \o <<Torn>>)
      <4>1. Regrouped(a, short, <<Torn>>)
        BY <2>4, <2>9, SocketsRegroup
      <4>2. QED
        BY <4>1 DEF Regrouped
    <3>5. QED
      BY <2>5, <2>7, <2>11, <3>1, <3>2, <3>3, <3>4 DEF CutIn
  <2>12. QED
    BY <1>10, <2>10, <2>11
<1>13. QED
  BY <1>11, <1>12

LEMMA CutOne ==
    ASSUME NEW x \in OnSocket, NEW cut, IsCut(cut, <<x>>)
    PROVE  cut = <<>> \/ cut = <<Torn>>
<1>1. PICK one : one = <<x>>
  OBVIOUS
<1>2. Len(one) = 1 /\ one \in Sockets
  BY <1>1 DEF Sockets
<1>3. PICK i \in 1 .. 1 : cut = SubSeq(one, 1, i - 1) \/ cut = SubSeq(one, 1, i - 1) \o <<Torn>>
  BY <1>1, <1>2 DEF IsCut
<1>4. i - 1 = 0
  OBVIOUS
<1>5. SubSeq(one, 1, 0) = <<>>
  BY <1>2 DEF Sockets
<1>6. <<>> \o <<Torn>> = <<Torn>>
  OBVIOUS
<1>7. QED
  BY <1>3, <1>4, <1>5, <1>6

LEMMA CutNothing ==
    ASSUME NEW cut
    PROVE  ~IsCut(cut, <<>>)
BY DEF IsCut

-----------------------------------------------------------------------------
\* Lines and bodies.

LEMMA LineRead ==
    ASSUME NEW x \in OnSocket, NEW rest \in Sockets
    PROVE  ReadLine(<<x>> \o rest) = IF x.token \in {"line", "inline"} THEN Taken(x, rest) ELSE Failed
<1>1. PICK s : s = <<x>> \o rest
  OBVIOUS
<1>2. s # <<>> /\ Head(s) = x /\ Tail(s) = rest
  <2>1. Leads(OnSocket, s, x, rest)
    BY <1>1, Led DEF Sockets
  <2>2. QED
    BY <2>1 DEF Leads
<1>3. QED
  BY <1>1, <1>2 DEF ReadLine

\* What is read of nothing, and of a beginning.
LineCut == ReadLine(<<>>) = Ended /\ ReadLine(<<Torn>>) = Failed

LEMMA LineCutFails == LineCut
<1>1. ReadLine(<<>>) = Ended
  BY DEF ReadLine
<1>2. PICK s : s = <<Torn>>
  OBVIOUS
<1>3. s # <<>> /\ Head(s) = Torn
  BY <1>2
<1>4. Torn.token \notin {"line", "inline"}
  BY TokensAre
<1>5. ReadLine(s) = Failed
  BY <1>3, <1>4 DEF ReadLine
<1>6. QED
  BY <1>1, <1>2, <1>5 DEF LineCut

LEMMA BodyRead ==
    ASSUME NEW word \in Seq(Letters), Len(word) <= MaxBulk, NEW rest \in Sockets
    PROVE  ReadBody(<<Body(word)>> \o rest, Len(word)) = Taken(word, rest)
<1>1. PICK s : s = <<Body(word)>> \o rest
  OBVIOUS
<1>2. PICK x : x = Body(word)
  OBVIOUS
<1>3. x \in OnSocket /\ x.token = "body" /\ x.word = word
  BY <1>2, TokensAre
<1>4. s # <<>> /\ Head(s) = x /\ Tail(s) = rest
  <2>1. Leads(OnSocket, s, x, rest)
    BY <1>1, <1>2, <1>3, Led DEF Sockets
  <2>2. QED
    BY <2>1 DEF Leads
<1>5. ReadBody(s, Len(word)) = Taken(word, rest)
  BY <1>3, <1>4 DEF ReadBody
<1>6. QED
  BY <1>1, <1>5

LEMMA BodyCutFails ==
    ASSUME NEW length
    PROVE  ReadBody(<<>>, length) = Failed /\ ReadBody(<<Torn>>, length) = Failed
<1>1. ReadBody(<<>>, length) = Failed
  BY DEF ReadBody
<1>2. PICK s : s = <<Torn>>
  OBVIOUS
<1>3. Head(s).token # "body"
  BY <1>2, TokensAre
<1>4. ReadBody(s, length) = Failed
  BY <1>3 DEF ReadBody
<1>5. QED
  BY <1>1, <1>2, <1>4

-----------------------------------------------------------------------------
\* Replies in a row, turn by turn.

PartsOver(f, socket, nested, raw, n) ==
    f = [turns \in 0 .. n |->
            IF turns = 0 THEN Taken(raw, socket) ELSE NextReply(f[turns - 1], nested)]

LEMMA PartsExist ==
    ASSUME NEW socket, NEW nested, NEW raw, NEW n \in Nat
    PROVE  \E f : PartsOver(f, socket, nested, raw, n)
<1>1. SUFFICES ASSUME ~ \E f : PartsOver(f, socket, nested, raw, n) PROVE FALSE
  OBVIOUS
<1>2. PICK bad : bad = {m \in Nat : ~ \E f : PartsOver(f, socket, nested, raw, m)}
  OBVIOUS
<1>3. bad \in SUBSET Nat /\ bad # {}
  BY <1>1, <1>2
<1>4. PICK m \in bad : \A k \in bad : m <= k
  BY <1>3, LeastExists
<1>5. m \in Nat
  BY <1>3
<1>6. m # 0
  <2>1. PICK f : f = [turns \in 0 .. 0 |-> Taken(raw, socket)]
    OBVIOUS
  <2>2. f = [turns \in 0 .. 0 |->
                IF turns = 0 THEN Taken(raw, socket) ELSE NextReply(f[turns - 1], nested)]
    BY <2>1
  <2>3. PartsOver(f, socket, nested, raw, 0)
    BY <2>2 DEF PartsOver
  <2>4. QED
    BY <1>2, <2>3
<1>7. PICK k \in Nat : m = k + 1
  BY <1>5, <1>6
<1>8. PICK f : PartsOver(f, socket, nested, raw, k)
  <2>1. k \notin bad
    BY <1>4, <1>7
  <2>2. QED
    BY <1>2, <2>1
<1>9. \A turns \in 0 .. k :
          f[turns] = IF turns = 0 THEN Taken(raw, socket) ELSE NextReply(f[turns - 1], nested)
  BY <1>8 DEF PartsOver
<1>10. PICK g : g = [turns \in 0 .. m |->
                        IF turns = 0 THEN Taken(raw, socket) ELSE NextReply(f[turns - 1], nested)]
  OBVIOUS
<1>11. \A turns \in 0 .. k : turns \in 0 .. m /\ g[turns] = f[turns]
  BY <1>7, <1>9, <1>10
<1>12. \A turns \in 0 .. m : turns # 0 => turns - 1 \in 0 .. k
  BY <1>7
<1>13. g = [turns \in 0 .. m |->
               IF turns = 0 THEN Taken(raw, socket) ELSE NextReply(g[turns - 1], nested)]
  BY <1>10, <1>11, <1>12
<1>14. PartsOver(g, socket, nested, raw, m)
  BY <1>13 DEF PartsOver
<1>15. QED
  BY <1>2, <1>14

PartsAre(f, socket, count, nested, raw) ==
    /\ f[0] = Taken(raw, socket)
    /\ \A k \in 1 .. count : f[k] = NextReply(f[k - 1], nested)
    /\ ReadReplies(socket, count, nested, raw) = f[count]

LEMMA PartsTakeTurns ==
    ASSUME NEW socket, NEW nested, NEW raw, NEW n \in Nat \ {0}
    PROVE  \E f : PartsAre(f, socket, n, nested, raw)
<1>1. \E f : PartsOver(f, socket, nested, raw, n)
  BY PartsExist
<1>2. PICK f : f = CHOOSE g : PartsOver(g, socket, nested, raw, n)
  OBVIOUS
<1>3. PartsOver(f, socket, nested, raw, n)
  BY <1>1, <1>2
<1>4. ReadReplies(socket, n, nested, raw) = f[n]
  <2>1. f = CHOOSE g : g = [turns \in 0 .. n |->
                 IF turns = 0 THEN Taken(raw, socket) ELSE NextReply(g[turns - 1], nested)]
    BY <1>2 DEF PartsOver
  <2>2. ~(n <= 0)
    OBVIOUS
  <2>3. QED
    BY <2>1, <2>2 DEF ReadReplies
<1>5. f[0] = Taken(raw, socket) /\ \A k \in 1 .. n : f[k] = NextReply(f[k - 1], nested)
  BY <1>3 DEF PartsOver
<1>6. PartsAre(f, socket, n, nested, raw)
  BY <1>4, <1>5 DEF PartsAre
<1>7. QED
  BY <1>6

\* One reply, and two.
LEMMA OnePart ==
    ASSUME NEW socket, NEW nested, NEW raw
    PROVE  ReadReplies(socket, 1, nested, raw) = NextReply(Taken(raw, socket), nested)
<1>1. PICK f : PartsAre(f, socket, 1, nested, raw)
  BY PartsTakeTurns
<1>2. 1 \in 1 .. 1 /\ 1 - 1 = 0
  OBVIOUS
<1>3. QED
  BY <1>1, <1>2 DEF PartsAre

LEMMA TwoParts ==
    ASSUME NEW socket, NEW nested, NEW raw
    PROVE  ReadReplies(socket, 2, nested, raw) = NextReply(NextReply(Taken(raw, socket), nested), nested)
<1>1. PICK f : PartsAre(f, socket, 2, nested, raw)
  BY PartsTakeTurns
<1>2. 1 \in 1 .. 2 /\ 2 \in 1 .. 2 /\ 1 - 1 = 0 /\ 2 - 1 = 1
  OBVIOUS
<1>3. f[1] = NextReply(f[0], nested) /\ f[2] = NextReply(f[1], nested) /\ f[0] = Taken(raw, socket)
  BY <1>1, <1>2 DEF PartsAre
<1>4. ReadReplies(socket, 2, nested, raw) = f[2]
  BY <1>1 DEF PartsAre
<1>5. QED
  BY <1>3, <1>4

LEMMA NoParts ==
    ASSUME NEW socket, NEW nested, NEW raw
    PROVE  ReadReplies(socket, 0, nested, raw) = Taken(raw, socket)
BY DEF ReadReplies

-----------------------------------------------------------------------------
\* The levels a reply may nest.

LevelsOver(f, n) ==
    f = [levels \in 0 .. n |->
            [s \in Sockets |-> IF levels = 0 THEN Failed ELSE ReadValue(s, f[levels - 1])]]

LEMMA LevelsExist ==
    ASSUME NEW n \in Nat
    PROVE  \E f : LevelsOver(f, n)
<1>1. SUFFICES ASSUME ~ \E f : LevelsOver(f, n) PROVE FALSE
  OBVIOUS
<1>2. PICK bad : bad = {m \in Nat : ~ \E f : LevelsOver(f, m)}
  OBVIOUS
<1>3. bad \in SUBSET Nat /\ bad # {}
  BY <1>1, <1>2
<1>4. PICK m \in bad : \A k \in bad : m <= k
  BY <1>3, LeastExists
<1>5. m \in Nat
  BY <1>3
<1>6. m # 0
  <2>1. PICK f : f = [levels \in 0 .. 0 |-> [s \in Sockets |-> Failed]]
    OBVIOUS
  <2>2. f = [levels \in 0 .. 0 |->
                [s \in Sockets |-> IF levels = 0 THEN Failed ELSE ReadValue(s, f[levels - 1])]]
    BY <2>1
  <2>3. LevelsOver(f, 0)
    BY <2>2 DEF LevelsOver
  <2>4. QED
    BY <1>2, <2>3
<1>7. PICK k \in Nat : m = k + 1
  BY <1>5, <1>6
<1>8. PICK f : LevelsOver(f, k)
  <2>1. k \notin bad
    BY <1>4, <1>7
  <2>2. QED
    BY <1>2, <2>1
<1>9. \A levels \in 0 .. k :
          f[levels] = [s \in Sockets |-> IF levels = 0 THEN Failed ELSE ReadValue(s, f[levels - 1])]
  BY <1>8 DEF LevelsOver
<1>10. PICK g : g = [levels \in 0 .. m |->
                        [s \in Sockets |-> IF levels = 0 THEN Failed ELSE ReadValue(s, f[levels - 1])]]
  OBVIOUS
<1>11. \A levels \in 0 .. k : levels \in 0 .. m /\ g[levels] = f[levels]
  BY <1>7, <1>9, <1>10
<1>12. \A levels \in 0 .. m : levels # 0 => levels - 1 \in 0 .. k
  BY <1>7
<1>13. g = [levels \in 0 .. m |->
               [s \in Sockets |-> IF levels = 0 THEN Failed ELSE ReadValue(s, g[levels - 1])]]
  BY <1>10, <1>11, <1>12
<1>14. LevelsOver(g, m)
  BY <1>13 DEF LevelsOver
<1>15. QED
  BY <1>2, <1>14

\* What reads the parts of a reply at a depth.
Nested(depth) == [s \in Sockets |-> ReadReply(s, depth)]

RepliesAre(f) ==
    /\ \A levels \in 0 .. MaxDepth + 1 :
           f[levels] = [s \in Sockets |-> IF levels = 0 THEN Failed ELSE ReadValue(s, f[levels - 1])]
    /\ \A socket, depth : ReadReply(socket, depth) = f[MaxDepth + 1 - depth][socket]

LEMMA RepliesByLevel == \E f : RepliesAre(f)
<1>0. PICK n \in Nat : n = MaxDepth + 1
  BY RespAssumption
<1>1. \E f : LevelsOver(f, n)
  BY <1>0, LevelsExist
<1>2. PICK f : f = CHOOSE g : LevelsOver(g, n)
  OBVIOUS
<1>3. LevelsOver(f, n)
  BY <1>1, <1>2
<1>4. f = CHOOSE g : g = [levels \in 0 .. MaxDepth + 1 |->
             [s \in Seq(OnSocket) |-> IF levels = 0 THEN Failed ELSE ReadValue(s, g[levels - 1])]]
  BY <1>0, <1>2 DEF LevelsOver, Sockets
<1>5. \A socket, depth : ReadReply(socket, depth) = f[MaxDepth + 1 - depth][socket]
  BY <1>4 DEF ReadReply
<1>6. \A levels \in 0 .. MaxDepth + 1 :
          f[levels] = [s \in Sockets |-> IF levels = 0 THEN Failed ELSE ReadValue(s, f[levels - 1])]
  BY <1>0, <1>3 DEF LevelsOver
<1>7. RepliesAre(f)
  BY <1>5, <1>6 DEF RepliesAre
<1>8. QED
  BY <1>7

LEMMA ReplyIs ==
    ASSUME NEW socket \in Sockets, NEW depth \in 0 .. MaxDepth + 1
    PROVE  ReadReply(socket, depth) =
               IF depth <= MaxDepth THEN ReadValue(socket, Nested(depth + 1)) ELSE Failed
<1>1. PICK f : RepliesAre(f)
  BY RepliesByLevel
<1>2. MaxDepth \in Nat /\ depth \in Nat
  BY RespAssumption
<1>3. PICK l : l = MaxDepth + 1 - depth
  OBVIOUS
<1>4. l \in 0 .. MaxDepth + 1 /\ (l = 0 <=> ~(depth <= MaxDepth))
  BY <1>2, <1>3
<1>5. ReadReply(socket, depth) = IF l = 0 THEN Failed ELSE ReadValue(socket, f[l - 1])
  <2>1. f[l] = [s \in Sockets |-> IF l = 0 THEN Failed ELSE ReadValue(s, f[l - 1])]
    BY <1>1, <1>4 DEF RepliesAre
  <2>2. f[l][socket] = IF l = 0 THEN Failed ELSE ReadValue(socket, f[l - 1])
    BY <2>1
  <2>3. QED
    BY <1>1, <1>3, <2>2 DEF RepliesAre
<1>6. ASSUME l # 0 PROVE f[l - 1] = Nested(depth + 1)
  <2>1. PICK k : k = l - 1
    OBVIOUS
  <2>2. k \in 0 .. MaxDepth + 1 /\ k = MaxDepth + 1 - (depth + 1)
    BY <1>2, <1>3, <1>4, <1>6, <2>1
  <2>3. f[k] = [s \in Sockets |-> IF k = 0 THEN Failed ELSE ReadValue(s, f[k - 1])]
    BY <1>1, <2>2 DEF RepliesAre
  <2>4. f[k] = [s \in Sockets |-> f[k][s]]
    BY <2>3
  <2>5. \A s : ReadReply(s, depth + 1) = f[k][s]
    BY <1>1, <2>2 DEF RepliesAre
  <2>6. f[k] = [s \in Sockets |-> ReadReply(s, depth + 1)]
    BY <2>4, <2>5
  <2>7. QED
    BY <2>1, <2>6 DEF Nested
<1>7. QED
  BY <1>4, <1>5, <1>6

\* What a line announces is read as what it announces.
Announces(type, count, rest, nested) ==
    LET line == Line(type, count)
        value == ReadValue(<<line>> \o rest, nested)
    IN  /\ type \in Scalars => value = Taken(Reply(<<line>>, type = "-", Some(<<>>)), rest)
        /\ type \in Blobs => value = ReadBlob(line, rest)
        /\ type \in Aggregates => value = ReadAggregate(line, rest, nested)
        /\ type = "|" => value = ReadAttributed(line, rest, nested)

LEMMA LineAnnounces ==
    ASSUME NEW type \in Types, NEW count \in Int, NEW rest \in Sockets, NEW nested
    PROVE  Announces(type, count, rest, nested)
<1>1. PICK line : line = Line(type, count)
  OBVIOUS
<1>2. line \in OnSocket /\ line.token = "line" /\ line.type = type
  BY <1>1, TokensAre
<1>3. PICK s : s = <<line>> \o rest
  OBVIOUS
<1>4. ReadLine(s) = Taken(line, rest)
  BY <1>2, <1>3, LineRead
<1>5. PICK reading : reading = ReadLine(s)
  OBVIOUS
<1>6. IsTaken(reading) /\ reading.result = line /\ reading.left = rest
  BY <1>4, <1>5, TakenIs
<1>7. type \in Scalars => type \notin Blobs /\ type \notin Aggregates /\ type # "|"
  BY Zenon DEF Scalars, Blobs, Aggregates
<1>8. type \in Blobs => type \notin Scalars /\ type \notin Aggregates /\ type # "|"
  BY Zenon DEF Scalars, Blobs, Aggregates
<1>9. type \in Aggregates => type \notin Scalars /\ type \notin Blobs /\ type # "|"
  BY Zenon DEF Scalars, Blobs, Aggregates
<1>18. type = "|" => type \notin Scalars /\ type \notin Blobs /\ type \notin Aggregates
  BY TypesAre, Zenon
<1>10. type \in {"|"} <=> type = "|"
  OBVIOUS
<1>11. PICK value : value = ReadValue(s, nested)
  OBVIOUS
<1>12. ASSUME type \in Scalars PROVE value = Taken(Reply(<<line>>, type = "-", Some(<<>>)), rest)
  BY <1>2, <1>5, <1>6, <1>7, <1>10, <1>11, <1>12 DEF ReadValue
<1>13. ASSUME type \in Blobs PROVE value = ReadBlob(line, rest)
  BY <1>2, <1>5, <1>6, <1>8, <1>10, <1>11, <1>13 DEF ReadValue
<1>14. ASSUME type \in Aggregates PROVE value = ReadAggregate(line, rest, nested)
  BY <1>2, <1>5, <1>6, <1>9, <1>10, <1>11, <1>14 DEF ReadValue
<1>15. ASSUME type = "|" PROVE value = ReadAttributed(line, rest, nested)
  BY <1>2, <1>5, <1>6, <1>10, <1>11, <1>15, <1>18 DEF ReadValue
<1>16. QED
  BY <1>1, <1>3, <1>11, <1>12, <1>13, <1>14, <1>15 DEF Announces

-----------------------------------------------------------------------------
\* Values that are read whole.

\* What reading a value gives where it is nested so deeply.
Reads(v, depth, follower) ==
    IF depth + v.deep <= MaxDepth THEN Taken(Reply(v.tokens, v.error, v.value), follower) ELSE Failed

IsValue(v) ==
    /\ v.tokens \in Sockets /\ v.deep \in Nat
    /\ \A depth \in 0 .. MaxDepth + 1, follower \in Sockets :
           ReadReply(v.tokens \o follower, depth) = Reads(v, depth, follower)
    /\ \A depth \in 0 .. MaxDepth + 1, cut \in Sockets :
           IsCut(cut, v.tokens) => ReadReply(cut, depth) = Failed

LEMMA ValueCutFails ==
    ASSUME NEW nested
    PROVE  ReadValue(<<>>, nested) = Failed /\ ReadValue(<<Torn>>, nested) = Failed
<1>1. PICK s, t : s = <<>> /\ t = <<Torn>>
  OBVIOUS
<1>2. ~IsTaken(ReadLine(s)) /\ ~IsTaken(ReadLine(t))
  BY <1>1, LineCutFails, TakenIs DEF LineCut
<1>3. ReadValue(s, nested) = Failed
  BY <1>2 DEF ReadValue
<1>4. ReadValue(t, nested) = Failed
  BY <1>2 DEF ReadValue
<1>5. QED
  BY <1>1, <1>3, <1>4

\* It is enough to look at what a line announces and at what follows it.
LEMMA Composed ==
    ASSUME NEW type \in Types, NEW count \in Int, NEW tail \in Sockets, NEW v, v.deep \in Nat,
           v.tokens = <<Line(type, count)>> \o tail,
           \A depth \in 0 .. MaxDepth, follower \in Sockets :
               ReadValue(<<Line(type, count)>> \o (tail \o follower), Nested(depth + 1)) =
                   Reads(v, depth, follower),
           \A depth \in 0 .. MaxDepth, cut \in Sockets :
               IsCut(cut, tail) => ReadValue(<<Line(type, count)>> \o cut, Nested(depth + 1)) = Failed
    PROVE  IsValue(v)
<1>0. MaxDepth \in Nat
  BY RespAssumption
<1>1. PICK line : line = Line(type, count)
  OBVIOUS
<1>2. line \in OnSocket
  BY <1>1, TokensAre
<1>3. PICK one : one = <<line>>
  OBVIOUS
<1>4. one \in Sockets /\ v.tokens = one \o tail
  BY <1>1, <1>2, <1>3 DEF Sockets
<1>5. v.tokens \in Sockets
  <2>1. one \o tail \in Sockets
    BY <1>4 DEF Sockets
  <2>2. QED
    BY <1>4, <2>1
<1>6. ASSUME NEW depth \in 0 .. MaxDepth + 1, NEW follower \in Sockets
      PROVE  ReadReply(v.tokens \o follower, depth) = Reads(v, depth, follower)
  <2>1. v.tokens \o follower \in Sockets
    BY <1>5 DEF Sockets
  <2>2. CASE ~(depth <= MaxDepth)
    <3>1. ReadReply(v.tokens \o follower, depth) = Failed
      BY <2>1, <2>2, ReplyIs
    <3>2. ~(depth + v.deep <= MaxDepth)
      BY <1>0, <2>2
    <3>3. QED
      BY <3>1, <3>2 DEF Reads
  <2>3. CASE depth <= MaxDepth
    <3>1. depth \in 0 .. MaxDepth
      BY <2>3
    <3>2. (one \o tail) \o follower = one \o (tail \o follower)
      <4>1. Regrouped(one, tail, follower)
        BY <1>4, SocketsRegroup
      <4>2. QED
        BY <4>1 DEF Regrouped
    <3>3. ReadReply(v.tokens \o follower, depth) = ReadValue(v.tokens \o follower, Nested(depth + 1))
      BY <2>1, <2>3, ReplyIs
    <3>4. ReadValue(one \o (tail \o follower), Nested(depth + 1)) = Reads(v, depth, follower)
      BY <1>1, <1>3, <3>1
    <3>5. QED
      BY <1>4, <3>2, <3>3, <3>4
  <2>4. QED
    BY <2>2, <2>3
<1>7. ASSUME NEW depth \in 0 .. MaxDepth + 1, NEW cut \in Sockets, IsCut(cut, v.tokens)
      PROVE  ReadReply(cut, depth) = Failed
  <2>1. CASE ~(depth <= MaxDepth)
    BY <2>1, ReplyIs
  <2>2. CASE depth <= MaxDepth
    <3>1. ReadReply(cut, depth) = ReadValue(cut, Nested(depth + 1))
      BY <2>2, ReplyIs
    <3>2. IsCut(cut, one) \/ \E rest \in Sockets : IsCut(rest, tail) /\ cut = one \o rest
      <4>1. IsCut(cut, one \o tail)
        BY <1>4, <1>7
      <4>2. CutIn(cut, one, tail)
        BY <1>4, <4>1, CutJoined
      <4>3. QED
        BY <4>2 DEF CutIn
    <3>3. CASE IsCut(cut, one)
      <4>1. cut = <<>> \/ cut = <<Torn>>
        BY <1>2, <1>3, <3>3, CutOne
      <4>2. QED
        BY <3>1, <4>1, ValueCutFails
    <3>4. CASE \E rest \in Sockets : IsCut(rest, tail) /\ cut = one \o rest
      <4>1. PICK rest \in Sockets : IsCut(rest, tail) /\ cut = one \o rest
        BY <3>4
      <4>2. depth \in 0 .. MaxDepth
        BY <2>2
      <4>3. ReadValue(one \o rest, Nested(depth + 1)) = Failed
        BY <1>1, <1>3, <4>1, <4>2
      <4>4. QED
        BY <3>1, <4>1, <4>3
    <3>5. QED
      BY <3>2, <3>3, <3>4
  <2>3. QED
    BY <2>1, <2>2
<1>8. QED
  BY <1>5, <1>6, <1>7 DEF IsValue

-----------------------------------------------------------------------------
\* The parts of a value.

LEMMA ReplyIsRecord ==
    ASSUME NEW raw, NEW error, NEW value
    PROVE  /\ Reply(raw, error, value).raw = raw /\ Reply(raw, error, value).error = error
           /\ Reply(raw, error, value).value = value
BY DEF Reply

LEMMA PartRead ==
    ASSUME NEW v, IsValue(v), NEW depth \in 0 .. MaxDepth, NEW raw, NEW follower \in Sockets
    PROVE  NextReply(Taken(raw, v.tokens \o follower), Nested(depth + 1)) =
               IF depth + 1 + v.deep <= MaxDepth THEN Taken(raw \o v.tokens, follower) ELSE Failed
<1>0. MaxDepth \in Nat
  BY RespAssumption
<1>1. PICK s : s = v.tokens \o follower
  OBVIOUS
<1>2. s \in Sockets
  BY <1>1 DEF IsValue, Sockets
<1>3. PICK d : d = depth + 1
  OBVIOUS
<1>4. d \in 0 .. MaxDepth + 1
  BY <1>0, <1>3
<1>5. Nested(d)[s] = ReadReply(s, d)
  BY <1>2 DEF Nested
<1>6. ReadReply(s, d) = Reads(v, d, follower)
  BY <1>1, <1>4 DEF IsValue
<1>7. PICK sofar : sofar = Taken(raw, s)
  OBVIOUS
<1>8. IsTaken(sofar) /\ sofar.result = raw /\ sofar.left = s
  BY <1>7, TakenIs
<1>9. CASE d + v.deep <= MaxDepth
  <2>1. PICK reply : reply = Nested(d)[s]
    OBVIOUS
  <2>2. reply = Taken(Reply(v.tokens, v.error, v.value), follower)
    BY <1>5, <1>6, <1>9, <2>1 DEF Reads
  <2>3. IsTaken(reply) /\ reply.result.raw = v.tokens /\ reply.left = follower
    BY <2>2, TakenIs, ReplyIsRecord
  <2>4. NextReply(sofar, Nested(d)) = Taken(raw \o v.tokens, follower)
    BY <1>8, <2>1, <2>3 DEF NextReply
  <2>5. QED
    BY <1>1, <1>3, <1>7, <1>9, <2>4
<1>10. CASE ~(d + v.deep <= MaxDepth)
  <2>1. ~IsTaken(Nested(d)[s])
    BY <1>5, <1>6, <1>10, TakenIs DEF Reads
  <2>2. NextReply(sofar, Nested(d)) = Failed
    BY <1>8, <2>1 DEF NextReply
  <2>3. QED
    BY <1>1, <1>3, <1>7, <1>10, <2>2
<1>11. QED
  BY <1>9, <1>10

LEMMA PartCut ==
    ASSUME NEW v, IsValue(v), NEW depth \in 0 .. MaxDepth, NEW raw,
           NEW cut \in Sockets, IsCut(cut, v.tokens)
    PROVE  NextReply(Taken(raw, cut), Nested(depth + 1)) = Failed
<1>0. MaxDepth \in Nat
  BY RespAssumption
<1>1. PICK d : d = depth + 1
  OBVIOUS
<1>2. d \in 0 .. MaxDepth + 1
  BY <1>0, <1>1
<1>3. Nested(d)[cut] = ReadReply(cut, d)
  BY DEF Nested
<1>4. ReadReply(cut, d) = Failed
  BY <1>2 DEF IsValue
<1>5. PICK sofar : sofar = Taken(raw, cut)
  OBVIOUS
<1>6. sofar.left = cut
  BY <1>5, TakenIs
<1>7. ~IsTaken(Nested(d)[cut])
  BY <1>3, <1>4, TakenIs
<1>8. NextReply(sofar, Nested(d)) = Failed
  BY <1>6, <1>7 DEF NextReply
<1>9. QED
  BY <1>1, <1>5, <1>8

LEMMA PartFailed ==
    ASSUME NEW nested
    PROVE  NextReply(Failed, nested) = Failed
BY TakenIs DEF NextReply

LEMMA DeepestIs ==
    ASSUME NEW a \in Int, NEW b \in Int
    PROVE  /\ Deepest(a, b) \in Int /\ Deepest(a, b) >= a /\ Deepest(a, b) >= b
           /\ Deepest(a, b) = a \/ Deepest(a, b) = b
BY DEF Deepest

LEMMA TwoRead ==
    ASSUME NEW a, IsValue(a), NEW b, IsValue(b), NEW depth \in 0 .. MaxDepth, NEW raw,
           NEW follower \in Sockets
    PROVE  ReadReplies(a.tokens \o (b.tokens \o follower), 2, Nested(depth + 1), raw) =
               IF depth + 1 + Deepest(a.deep, b.deep) <= MaxDepth
               THEN Taken((raw \o a.tokens) \o b.tokens, follower) ELSE Failed
<1>0. MaxDepth \in Nat /\ a.deep \in Nat /\ b.deep \in Nat
  BY RespAssumption DEF IsValue
<1>1. PICK rest : rest = b.tokens \o follower
  OBVIOUS
<1>2. rest \in Sockets
  BY <1>1 DEF IsValue, Sockets
<1>3. PICK m : m = Deepest(a.deep, b.deep)
  OBVIOUS
<1>4. m \in Int /\ m >= a.deep /\ m >= b.deep /\ (m = a.deep \/ m = b.deep)
  <2>1. PICK i, j : i = a.deep /\ j = b.deep
    OBVIOUS
  <2>2. i \in Int /\ j \in Int
    BY <1>0, <2>1
  <2>3. m = Deepest(i, j)
    BY <1>3, <2>1
  <2>4. m \in Int /\ m >= i /\ m >= j /\ (m = i \/ m = j)
    BY <2>2, <2>3, DeepestIs
  <2>5. QED
    BY <2>1, <2>4
<1>5. PICK nested : nested = Nested(depth + 1)
  OBVIOUS
<1>6. PICK first : first = NextReply(Taken(raw, a.tokens \o rest), nested)
  OBVIOUS
<1>7. ReadReplies(a.tokens \o rest, 2, nested, raw) = NextReply(first, nested)
  BY <1>6, TwoParts
<1>8. first = IF depth + 1 + a.deep <= MaxDepth THEN Taken(raw \o a.tokens, rest) ELSE Failed
  BY <1>2, <1>5, <1>6, PartRead
<1>9. CASE ~(depth + 1 + a.deep <= MaxDepth)
  <2>1. NextReply(first, nested) = Failed
    BY <1>8, <1>9, PartFailed
  <2>2. ~(depth + 1 + m <= MaxDepth)
    BY <1>0, <1>4, <1>9
  <2>3. QED
    BY <1>1, <1>3, <1>5, <1>7, <2>1, <2>2
<1>10. CASE depth + 1 + a.deep <= MaxDepth
  <2>1. PICK more : more = raw \o a.tokens
    OBVIOUS
  <2>2. first = Taken(more, b.tokens \o follower)
    BY <1>1, <1>8, <1>10, <2>1
  <2>3. NextReply(first, nested) =
            IF depth + 1 + b.deep <= MaxDepth THEN Taken(more \o b.tokens, follower) ELSE Failed
    BY <1>5, <2>2, PartRead
  <2>4. depth + 1 + b.deep <= MaxDepth <=> depth + 1 + m <= MaxDepth
    BY <1>0, <1>4, <1>10
  <2>5. QED
    BY <1>1, <1>3, <1>5, <1>7, <2>1, <2>3, <2>4
<1>11. QED
  BY <1>9, <1>10

LEMMA TwoCut ==
    ASSUME NEW a, IsValue(a), NEW b, IsValue(b), NEW depth \in 0 .. MaxDepth, NEW raw,
           NEW cut \in Sockets, IsCut(cut, a.tokens \o b.tokens)
    PROVE  ReadReplies(cut, 2, Nested(depth + 1), raw) = Failed
<1>1. PICK nested : nested = Nested(depth + 1)
  OBVIOUS
<1>2. PICK first : first = NextReply(Taken(raw, cut), nested)
  OBVIOUS
<1>3. ReadReplies(cut, 2, nested, raw) = NextReply(first, nested)
  BY <1>2, TwoParts
<1>4. NextReply(Failed, nested) = Failed
  BY PartFailed
<1>5. a.tokens \in Sockets /\ b.tokens \in Sockets
  BY DEF IsValue
<1>6. IsCut(cut, a.tokens) \/ \E rest \in Sockets : IsCut(rest, b.tokens) /\ cut = a.tokens \o rest
  <2>1. CutIn(cut, a.tokens, b.tokens)
    BY <1>5, CutJoined
  <2>2. QED
    BY <2>1 DEF CutIn
<1>7. CASE IsCut(cut, a.tokens)
  <2>1. first = Failed
    BY <1>1, <1>2, <1>7, PartCut
  <2>2. QED
    BY <1>1, <1>3, <1>4, <2>1
<1>8. CASE \E rest \in Sockets : IsCut(rest, b.tokens) /\ cut = a.tokens \o rest
  <2>1. PICK rest \in Sockets : IsCut(rest, b.tokens) /\ cut = a.tokens \o rest
    BY <1>8
  <2>2. first = IF depth + 1 + a.deep <= MaxDepth THEN Taken(raw \o a.tokens, rest) ELSE Failed
    BY <1>1, <1>2, <2>1, PartRead
  <2>3. NextReply(Taken(raw \o a.tokens, rest), nested) = Failed
    BY <1>1, <2>1, PartCut
  <2>4. NextReply(first, nested) = Failed
    BY <1>4, <2>2, <2>3
  <2>5. QED
    BY <1>1, <1>3, <2>4
<1>9. QED
  BY <1>6, <1>7, <1>8

-----------------------------------------------------------------------------
\* Aggregates.

LEMMA ElementsAre ==
    ASSUME NEW count \in Int
    PROVE  /\ \A type \in {"*", "~", ">"} : Elements(Line(type, count)) = count
           /\ Elements(Line("%", count)) = 2 * count
<1>1. ASSUME NEW type \in {"*", "~", ">"} PROVE type # "%"
  BY Zenon
<1>2. ASSUME NEW type PROVE Line(type, count).type = type /\ Line(type, count).count = count
  BY DEF Line
<1>3. ASSUME NEW type \in {"*", "~", ">"} PROVE Elements(Line(type, count)) = count
  BY <1>1, <1>2, Zenon DEF Elements
<1>4. Elements(Line("%", count)) = 2 * count
  BY <1>2, Zenon DEF Elements
<1>5. QED
  BY <1>3, <1>4, Zenon

LEMMA ValueIs ==
    ASSUME NEW tokens, NEW deep, NEW error, NEW value
    PROVE  /\ Value(tokens, deep, error, value).tokens = tokens
           /\ Value(tokens, deep, error, value).deep = deep
           /\ Value(tokens, deep, error, value).error = error
           /\ Value(tokens, deep, error, value).value = value
BY DEF Value

IsAround(v, one, a, b) ==
    /\ v.tokens = (one \o a.tokens) \o b.tokens /\ v.deep = 1 + Deepest(a.deep, b.deep)
    /\ v.error = FALSE /\ v.value = Nil

LEMMA AroundIs ==
    ASSUME NEW type, NEW count, NEW a, NEW b
    PROVE  IsAround(Around(type, count, a, b), <<Line(type, count)>>, a, b)
<1>1. PICK tokens, deep :
          tokens = (<<Line(type, count)>> \o a.tokens) \o b.tokens /\ deep = 1 + Deepest(a.deep, b.deep)
  OBVIOUS
<1>2. PICK v : v = Value(tokens, deep, FALSE, Nil)
  OBVIOUS
<1>3. Around(type, count, a, b) = v
  BY <1>1, <1>2 DEF Around
<1>4. v.tokens = tokens /\ v.deep = deep /\ v.error = FALSE /\ v.value = Nil
  BY <1>2 DEF Value
<1>5. QED
  BY <1>1, <1>3, <1>4 DEF IsAround

\* How an aggregate is read, by how its elements are.
LEMMA AggregateRead ==
    ASSUME NEW type \in Types, type \in Aggregates, NEW count \in Nat, NEW rest \in Sockets, NEW nested,
           NEW parts, parts = ReadReplies(rest, Elements(Line(type, count)), nested, <<Line(type, count)>>)
    PROVE  ReadValue(<<Line(type, count)>> \o rest, nested) =
               IF IsTaken(parts) THEN Taken(Reply(parts.result, FALSE, Nil), parts.left) ELSE Failed
<1>2. PICK line : line = Line(type, count)
  OBVIOUS
<1>3. line.count = count /\ ~(line.count < 0) /\ line.count >= 0
  BY <1>2, TokensAre
<1>4. ReadAggregate(line, rest, nested) =
          IF IsTaken(parts) THEN Taken(Reply(parts.result, FALSE, Nil), parts.left) ELSE Failed
  BY <1>2, <1>3 DEF ReadAggregate
<1>5. ReadValue(<<line>> \o rest, nested) = ReadAggregate(line, rest, nested)
  <2>1. Announces(type, count, rest, nested)
    BY LineAnnounces
  <2>2. QED
    BY <1>2, <2>1 DEF Announces
<1>6. QED
  BY <1>2, <1>4, <1>5

LEMMA TwoElements ==
    ASSUME NEW type \in Types, type \in Aggregates, NEW count \in Nat, Elements(Line(type, count)) = 2,
           NEW a, IsValue(a), NEW b, IsValue(b)
    PROVE  IsValue(Around(type, count, a, b))
<1>0. MaxDepth \in Nat /\ a.deep \in Nat /\ b.deep \in Nat
  BY RespAssumption DEF IsValue
<1>1. PICK v : v = Around(type, count, a, b)
  OBVIOUS
<1>2. PICK line : line = Line(type, count)
  OBVIOUS
<1>3. PICK x, y, m : x = a.tokens /\ y = b.tokens /\ m = Deepest(a.deep, b.deep)
  OBVIOUS
<1>4. x \in Sockets /\ y \in Sockets /\ line \in OnSocket
  BY <1>2, <1>3, TokensAre DEF IsValue
<1>5. m \in Nat
  <2>1. PICK i, j : i = a.deep /\ j = b.deep
    OBVIOUS
  <2>2. i \in Nat /\ j \in Nat
    BY <1>0, <2>1
  <2>3. m = Deepest(i, j)
    BY <1>3, <2>1
  <2>4. QED
    BY <2>2, <2>3 DEF Deepest
<1>6. v.tokens = (<<line>> \o x) \o y /\ v.deep = 1 + m /\ v.error = FALSE /\ v.value = Nil
  <2>1. IsAround(v, <<line>>, a, b)
    BY <1>1, <1>2, AroundIs
  <2>2. QED
    BY <1>3, <2>1 DEF IsAround
<1>7. PICK one : one = <<line>>
  OBVIOUS
<1>15. PICK tail : tail = x \o y
  OBVIOUS
<1>8. one \in Sockets /\ tail \in Sockets
  BY <1>4, <1>7, <1>15 DEF Sockets
<1>9. v.tokens = one \o tail
  <2>1. Regrouped(one, x, y)
    BY <1>4, <1>8, SocketsRegroup
  <2>2. QED
    BY <1>6, <1>7, <1>15, <2>1 DEF Regrouped
<1>10. ASSUME NEW depth \in 0 .. MaxDepth, NEW follower \in Sockets
       PROVE  ReadValue(one \o (tail \o follower), Nested(depth + 1)) = Reads(v, depth, follower)
  <2>1. PICK rest : rest = tail \o follower
    OBVIOUS
  <2>2. rest \in Sockets
    BY <1>8, <2>1 DEF Sockets
  <2>3. rest = x \o (y \o follower)
    <3>1. Regrouped(x, y, follower)
      BY <1>4, SocketsRegroup
    <3>2. QED
      BY <1>15, <2>1, <3>1 DEF Regrouped
  <2>4. PICK nested : nested = Nested(depth + 1)
    OBVIOUS
  <2>5. PICK parts : parts = ReadReplies(rest, 2, nested, one)
    OBVIOUS
  <2>6. parts = IF depth + 1 + m <= MaxDepth THEN Taken((one \o x) \o y, follower) ELSE Failed
    BY <1>3, <2>3, <2>4, <2>5, TwoRead
  <2>7. ReadValue(one \o rest, nested) =
            IF IsTaken(parts) THEN Taken(Reply(parts.result, FALSE, Nil), parts.left) ELSE Failed
    BY <1>2, <1>7, <2>2, <2>5, AggregateRead
  <2>8. depth + 1 + m <= MaxDepth <=> depth + v.deep <= MaxDepth
    <3>1. PICK d : d = v.deep
      OBVIOUS
    <3>2. d = 1 + m
      BY <1>6, <3>1
    <3>3. QED
      BY <1>0, <1>5, <3>1, <3>2
  <2>9. CASE depth + 1 + m <= MaxDepth
    <3>1. parts = Taken(v.tokens, follower)
      BY <1>6, <1>7, <2>6, <2>9
    <3>2. IsTaken(parts) /\ parts.result = v.tokens /\ parts.left = follower
      BY <3>1, TakenIs
    <3>3. QED
      BY <1>6, <2>1, <2>4, <2>7, <2>8, <2>9, <3>2 DEF Reads
  <2>10. CASE ~(depth + 1 + m <= MaxDepth)
    <3>1. ~IsTaken(parts)
      BY <2>6, <2>10, TakenIs
    <3>2. QED
      BY <2>1, <2>4, <2>7, <2>8, <2>10, <3>1 DEF Reads
  <2>11. QED
    BY <2>9, <2>10
<1>11. ASSUME NEW depth \in 0 .. MaxDepth, NEW cut \in Sockets, IsCut(cut, tail)
       PROVE  ReadValue(one \o cut, Nested(depth + 1)) = Failed
  <2>1. PICK parts : parts = ReadReplies(cut, 2, Nested(depth + 1), one)
    OBVIOUS
  <2>2. parts = Failed
    BY <1>3, <1>11, <1>15, <2>1, TwoCut
  <2>3. ReadValue(one \o cut, Nested(depth + 1)) =
            IF IsTaken(parts) THEN Taken(Reply(parts.result, FALSE, Nil), parts.left) ELSE Failed
    BY <1>2, <1>7, <2>1, AggregateRead
  <2>4. QED
    BY <2>2, <2>3, TakenIs
<1>12. v.deep \in Nat
  BY <1>5, <1>6
<1>13. IsValue(v)
  BY <1>2, <1>7, <1>8, <1>9, <1>10, <1>11, <1>12, Composed
<1>14. QED
  BY <1>1, <1>13

IsAroundOne(v, one, a) ==
    v.tokens = one \o a.tokens /\ v.deep = 1 + a.deep /\ v.error = FALSE /\ v.value = Nil

LEMMA AroundOne ==
    ASSUME NEW type, NEW count, NEW a, a.tokens \in Sockets, a.deep \in Nat, Line(type, count) \in OnSocket
    PROVE  IsAroundOne(Around(type, count, a, Nothing), <<Line(type, count)>>, a)
<1>1. PICK v, x, d, one :
          v = Around(type, count, a, Nothing) /\ x = a.tokens /\ d = a.deep /\ one = <<Line(type, count)>>
  OBVIOUS
<1>2. x \in Sockets /\ d \in Nat /\ one \in Sockets
  BY <1>1 DEF Sockets
<1>3. Nothing.tokens = <<>> /\ Nothing.deep = -1
  BY DEF Nothing, Value
<1>4. v.tokens = (one \o x) \o <<>> /\ v.deep = 1 + Deepest(d, -1) /\ v.error = FALSE /\ v.value = Nil
  <2>1. IsAround(v, one, a, Nothing)
    BY <1>1, AroundIs
  <2>2. QED
    BY <1>1, <1>3, <2>1 DEF IsAround
<1>5. one \o x \in Sockets
  BY <1>2 DEF Sockets
<1>6. (one \o x) \o <<>> = one \o x
  BY <1>5, EmptyJoined DEF Sockets
<1>7. Deepest(d, -1) = d
  BY <1>2 DEF Deepest
<1>8. QED
  BY <1>1, <1>4, <1>6, <1>7 DEF IsAroundOne

LEMMA OneElement ==
    ASSUME NEW type \in Types, type \in Aggregates, NEW count \in Nat, Elements(Line(type, count)) = 1,
           NEW a, IsValue(a)
    PROVE  IsValue(Around(type, count, a, Nothing))
<1>0. MaxDepth \in Nat /\ a.deep \in Nat
  BY RespAssumption DEF IsValue
<1>1. PICK v : v = Around(type, count, a, Nothing)
  OBVIOUS
<1>2. PICK line : line = Line(type, count)
  OBVIOUS
<1>3. PICK one, tail, m : one = <<line>> /\ tail = a.tokens /\ m = a.deep
  OBVIOUS
<1>4. tail \in Sockets /\ line \in OnSocket /\ m \in Nat
  BY <1>0, <1>2, <1>3, TokensAre DEF IsValue
<1>5. v.tokens = one \o tail /\ v.deep = 1 + m /\ v.error = FALSE /\ v.value = Nil
  <2>1. a.tokens \in Sockets /\ a.deep \in Nat /\ Line(type, count) \in OnSocket
    BY <1>2, <1>3, <1>4
  <2>2. IsAroundOne(v, one, a)
    BY <1>1, <1>2, <1>3, <2>1, AroundOne
  <2>3. QED
    BY <1>3, <2>2 DEF IsAroundOne
<1>6. ASSUME NEW depth \in 0 .. MaxDepth, NEW follower \in Sockets
      PROVE  ReadValue(one \o (tail \o follower), Nested(depth + 1)) = Reads(v, depth, follower)
  <2>1. PICK rest : rest = tail \o follower
    OBVIOUS
  <2>2. rest \in Sockets
    BY <1>4, <2>1 DEF Sockets
  <2>3. PICK nested : nested = Nested(depth + 1)
    OBVIOUS
  <2>4. PICK parts : parts = ReadReplies(rest, 1, nested, one)
    OBVIOUS
  <2>5. parts = IF depth + 1 + m <= MaxDepth THEN Taken(one \o tail, follower) ELSE Failed
    <3>1. parts = NextReply(Taken(one, rest), nested)
      BY <2>4, OnePart
    <3>2. QED
      BY <1>3, <2>1, <2>3, <3>1, PartRead
  <2>6. ReadValue(one \o rest, nested) =
            IF IsTaken(parts) THEN Taken(Reply(parts.result, FALSE, Nil), parts.left) ELSE Failed
    BY <1>2, <1>3, <2>2, <2>4, AggregateRead
  <2>7. depth + 1 + m <= MaxDepth <=> depth + v.deep <= MaxDepth
    <3>1. PICK d : d = v.deep
      OBVIOUS
    <3>2. d = 1 + m
      BY <1>5, <3>1
    <3>3. QED
      BY <1>0, <1>4, <3>1, <3>2
  <2>8. CASE depth + 1 + m <= MaxDepth
    <3>1. parts = Taken(v.tokens, follower)
      BY <1>5, <2>5, <2>8
    <3>2. IsTaken(parts) /\ parts.result = v.tokens /\ parts.left = follower
      BY <3>1, TakenIs
    <3>3. QED
      BY <1>5, <2>1, <2>3, <2>6, <2>7, <2>8, <3>2 DEF Reads
  <2>9. CASE ~(depth + 1 + m <= MaxDepth)
    <3>1. ~IsTaken(parts)
      BY <2>5, <2>9, TakenIs
    <3>2. QED
      BY <2>1, <2>3, <2>6, <2>7, <2>9, <3>1 DEF Reads
  <2>10. QED
    BY <2>8, <2>9
<1>7. ASSUME NEW depth \in 0 .. MaxDepth, NEW cut \in Sockets, IsCut(cut, tail)
      PROVE  ReadValue(one \o cut, Nested(depth + 1)) = Failed
  <2>1. PICK parts : parts = ReadReplies(cut, 1, Nested(depth + 1), one)
    OBVIOUS
  <2>2. parts = NextReply(Taken(one, cut), Nested(depth + 1))
    BY <2>1, OnePart
  <2>3. parts = Failed
    BY <1>3, <1>7, <2>2, PartCut
  <2>4. ReadValue(one \o cut, Nested(depth + 1)) =
            IF IsTaken(parts) THEN Taken(Reply(parts.result, FALSE, Nil), parts.left) ELSE Failed
    BY <1>2, <1>3, <2>1, AggregateRead
  <2>5. QED
    BY <2>3, <2>4, TakenIs
<1>8. v.deep \in Nat
  BY <1>4, <1>5
<1>9. IsValue(v)
  BY <1>2, <1>3, <1>4, <1>5, <1>6, <1>7, <1>8, Composed
<1>10. QED
  BY <1>1, <1>9

\* Values of one line.
LEMMA LineIsValue ==
    ASSUME NEW type \in Types, NEW count \in Int, NEW v, v.deep = 0, v.tokens = <<Line(type, count)>>,
           \A nested : \A rest \in Sockets :
               ReadValue(<<Line(type, count)>> \o rest, nested) =
                   Taken(Reply(<<Line(type, count)>>, v.error, v.value), rest)
    PROVE  IsValue(v)
<1>0. MaxDepth \in Nat
  BY RespAssumption
<1>1. PICK one : one = <<Line(type, count)>>
  OBVIOUS
<1>2. one \in Sockets
  BY <1>1, TokensAre DEF Sockets
<1>3. one \o <<>> = one /\ <<>> \in Sockets
  BY <1>2, EmptyJoined DEF Sockets
<1>4. v.tokens = one \o <<>>
  BY <1>1, <1>3
<1>5. ASSUME NEW depth \in 0 .. MaxDepth, NEW follower \in Sockets
      PROVE  ReadValue(one \o (<<>> \o follower), Nested(depth + 1)) = Reads(v, depth, follower)
  <2>1. <<>> \o follower = follower
    BY EmptyJoined DEF Sockets
  <2>2. depth + v.deep <= MaxDepth
    BY <1>0
  <2>3. ReadValue(one \o follower, Nested(depth + 1)) = Taken(Reply(one, v.error, v.value), follower)
    BY <1>1
  <2>4. QED
    BY <1>1, <2>1, <2>2, <2>3 DEF Reads
<1>6. \A cut : ~IsCut(cut, <<>>)
  BY CutNothing
<1>7. v.deep \in Nat
  OBVIOUS
<1>8. QED
  BY <1>1, <1>3, <1>4, <1>5, <1>6, <1>7, Composed

\* A null, and what is empty.
LEMMA NoElements ==
    ASSUME NEW type \in Types, type \in Aggregates, NEW count \in Int,
           count < 0 \/ (count = 0 /\ Elements(Line(type, count)) = 0)
    PROVE  IsValue(Around(type, count, Nothing, Nothing))
<1>1. PICK v : v = Around(type, count, Nothing, Nothing)
  OBVIOUS
<1>2. PICK line : line = Line(type, count)
  OBVIOUS
<1>3. PICK one : one = <<line>>
  OBVIOUS
<1>4. one \in Sockets /\ line.count = count
  BY <1>2, <1>3, TokensAre DEF Sockets
<1>5. Nothing.tokens = <<>> /\ Nothing.deep = -1
  BY DEF Nothing, Value
<1>6. v.tokens = (one \o <<>>) \o <<>> /\ v.deep = 1 + Deepest(-1, -1) /\ v.error = FALSE /\ v.value = Nil
  <2>1. IsAround(v, one, Nothing, Nothing)
    BY <1>1, <1>2, <1>3, AroundIs
  <2>2. QED
    BY <1>5, <2>1 DEF IsAround
<1>7. one \o <<>> = one
  BY <1>4, EmptyJoined DEF Sockets
<1>8. 1 + Deepest(-1, -1) = 0
  BY DEF Deepest
<1>10. ASSUME NEW nested, NEW rest \in Sockets
       PROVE  ReadValue(one \o rest, nested) = Taken(Reply(one, FALSE, Nil), rest)
  <2>1. ReadValue(one \o rest, nested) = ReadAggregate(line, rest, nested)
    <3>1. Announces(type, count, rest, nested)
      BY LineAnnounces
    <3>2. QED
      BY <1>2, <1>3, <3>1 DEF Announces
  <2>2. CASE count < 0
    <3>3. line.count < 0 /\ ~(line.count >= 0)
      BY <1>4, <2>2
    <3>1. ReadAggregate(line, rest, nested) = Taken(Null(line), rest)
      BY <3>3 DEF ReadAggregate
    <3>2. QED
      BY <1>3, <2>1, <3>1 DEF Null
  <2>3. CASE count = 0 /\ Elements(line) = 0
    <3>1. ReadReplies(rest, Elements(line), nested, one) = Taken(one, rest)
      BY <2>3, NoParts
    <3>2. PICK parts : parts = ReadReplies(rest, Elements(line), nested, one)
      OBVIOUS
    <3>3. IsTaken(parts) /\ parts.result = one /\ parts.left = rest
      BY <3>1, <3>2, TakenIs
    <3>4. ~(line.count < 0)
      BY <1>4, <2>3
    <3>5. ReadAggregate(line, rest, nested) = Taken(Reply(one, FALSE, Nil), rest)
      BY <1>3, <3>2, <3>3, <3>4 DEF ReadAggregate
    <3>6. QED
      BY <2>1, <3>5
  <2>4. QED
    BY <1>2, <2>2, <2>3
<1>11. v.tokens = one /\ v.deep = 0
  BY <1>6, <1>7, <1>8
<1>12. IsValue(v)
  BY <1>2, <1>3, <1>6, <1>10, <1>11, LineIsValue
<1>13. QED
  BY <1>1, <1>12

-----------------------------------------------------------------------------
\* Attributes.

LEMMA AttributedRead ==
    ASSUME NEW nested, NEW rest \in Sockets, NEW pairs, NEW value,
           pairs = ReadReplies(rest, 2, nested, <<Line("|", 1)>>), value = nested[pairs.left]
    PROVE  ReadValue(<<Line("|", 1)>> \o rest, nested) =
               IF IsTaken(pairs) /\ IsTaken(value)
               THEN Taken(Reply(pairs.result \o value.result.raw, value.result.error, value.result.value),
                          value.left)
               ELSE Failed
<1>1. PICK line : line = Line("|", 1)
  OBVIOUS
<1>2. line.count = 1 /\ 2 * line.count = 2
  BY <1>1 DEF Line
<1>3. "|" \in Types
  BY Zenon DEF Types
<1>4. Announces("|", 1, rest, nested)
  BY <1>3, LineAnnounces
<1>5. ReadValue(<<line>> \o rest, nested) = ReadAttributed(line, rest, nested)
  BY <1>1, <1>4 DEF Announces
<1>6. ReadAttributed(line, rest, nested) =
          IF IsTaken(pairs) /\ IsTaken(value)
          THEN Taken(Reply(pairs.result \o value.result.raw, value.result.error, value.result.value),
                     value.left)
          ELSE Failed
  <2>1. pairs = ReadReplies(rest, 2 * line.count, nested, <<line>>)
    BY <1>1, <1>2
  <2>2. QED
    BY <2>1 DEF ReadAttributed
<1>7. QED
  BY <1>1, <1>5, <1>6

IsAttributed(v, one, a, b, c) ==
    /\ v.tokens = ((one \o a.tokens) \o b.tokens) \o c.tokens
    /\ v.deep = 1 + Deepest(a.deep, Deepest(b.deep, c.deep)) /\ v.error = c.error /\ v.value = c.value

LEMMA AttributedIs ==
    ASSUME NEW a, NEW b, NEW c
    PROVE  IsAttributed(Attributed(a, b, c), <<Line("|", 1)>>, a, b, c)
<1>1. PICK tokens, deep : tokens = ((<<Line("|", 1)>> \o a.tokens) \o b.tokens) \o c.tokens
                          /\ deep = 1 + Deepest(a.deep, Deepest(b.deep, c.deep))
  OBVIOUS
<1>2. PICK v : v = Value(tokens, deep, c.error, c.value)
  OBVIOUS
<1>3. Attributed(a, b, c) = v
  BY <1>1, <1>2 DEF Attributed
<1>4. v.tokens = tokens /\ v.deep = deep /\ v.error = c.error /\ v.value = c.value
  BY <1>2 DEF Value
<1>5. QED
  BY <1>1, <1>3, <1>4 DEF IsAttributed

LEMMA AttributeIsValue ==
    ASSUME NEW a, IsValue(a), NEW b, IsValue(b), NEW c, IsValue(c)
    PROVE  IsValue(Attributed(a, b, c))
<1>0. MaxDepth \in Nat /\ a.deep \in Nat /\ b.deep \in Nat /\ c.deep \in Nat
  BY RespAssumption DEF IsValue
<1>1. PICK v : v = Attributed(a, b, c)
  OBVIOUS
<1>2. PICK line : line = Line("|", 1)
  OBVIOUS
<1>3. PICK x, y, z : x = a.tokens /\ y = b.tokens /\ z = c.tokens
  OBVIOUS
<1>4. x \in Sockets /\ y \in Sockets /\ z \in Sockets
  BY <1>3 DEF IsValue
<1>5. line \in OnSocket
  <2>1. "|" \in Types
    BY Zenon DEF Types
  <2>2. QED
    BY <1>2, <2>1, TokensAre
<1>6. PICK m, k : m = Deepest(a.deep, b.deep) /\ k = Deepest(a.deep, Deepest(b.deep, c.deep))
  OBVIOUS
<1>7. PICK e : e = c.deep
  OBVIOUS
<1>8. /\ m \in Nat /\ k \in Nat /\ e \in Nat
      /\ \A n \in Int : k <= n <=> (m <= n /\ e <= n)
  <2>1. PICK i, j : i = a.deep /\ j = b.deep
    OBVIOUS
  <2>2. i \in Nat /\ j \in Nat /\ e \in Nat
    BY <1>0, <1>7, <2>1
  <2>3. m = Deepest(i, j) /\ k = Deepest(i, Deepest(j, e))
    BY <1>6, <1>7, <2>1
  <2>4. QED
    BY <2>2, <2>3 DEF Deepest
<1>9. PICK one : one = <<line>>
  OBVIOUS
<1>10. PICK both : both = x \o y
  OBVIOUS
<1>11. PICK tail : tail = both \o z
  OBVIOUS
<1>12. one \in Sockets /\ both \in Sockets
  BY <1>4, <1>5, <1>9, <1>10 DEF Sockets
<1>13. tail \in Sockets
  BY <1>4, <1>11, <1>12 DEF Sockets
<1>14. v.tokens = ((one \o x) \o y) \o z /\ v.deep = 1 + k /\ v.error = c.error /\ v.value = c.value
  <2>1. IsAttributed(v, one, a, b, c)
    BY <1>1, <1>2, <1>9, AttributedIs
  <2>2. QED
    BY <1>3, <1>6, <2>1 DEF IsAttributed
<1>16. v.tokens = one \o tail
  <2>1. Regrouped(one, x, y) /\ Regrouped(one, both, z)
    BY <1>4, <1>12, SocketsRegroup
  <2>2. (one \o x) \o y = one \o both /\ (one \o both) \o z = one \o tail
    BY <1>10, <1>11, <2>1 DEF Regrouped
  <2>3. QED
    BY <1>14, <2>2
<1>17. ASSUME NEW after \in Sockets
       PROVE  both \o after = x \o (y \o after)
  <2>2. Regrouped(x, y, after)
    BY <1>4, SocketsRegroup
  <2>3. QED
    BY <1>10, <2>2 DEF Regrouped
<1>18. PICK raw : raw = (one \o x) \o y
  OBVIOUS
<1>19. ASSUME NEW depth \in 0 .. MaxDepth, NEW after \in Sockets
       PROVE  ReadReplies(both \o after, 2, Nested(depth + 1), one) =
                  IF depth + 1 + m <= MaxDepth THEN Taken(raw, after) ELSE Failed
  <2>1. ReadReplies(x \o (y \o after), 2, Nested(depth + 1), one) =
            IF depth + 1 + m <= MaxDepth THEN Taken((one \o x) \o y, after) ELSE Failed
    BY <1>3, <1>6, TwoRead
  <2>2. both \o after = x \o (y \o after)
    BY <1>17
  <2>3. QED
    BY <1>18, <2>1, <2>2
<1>20. ASSUME NEW depth \in 0 .. MaxDepth, NEW after \in Sockets
       PROVE  Nested(depth + 1)[after] = ReadReply(after, depth + 1) /\ depth + 1 \in 0 .. MaxDepth + 1
  BY <1>0 DEF Nested
<1>21. ASSUME NEW depth \in 0 .. MaxDepth, NEW follower \in Sockets
       PROVE  ReadValue(one \o (tail \o follower), Nested(depth + 1)) = Reads(v, depth, follower)
  <2>1. PICK after : after = z \o follower
    OBVIOUS
  <2>2. after \in Sockets
    BY <1>4, <2>1 DEF Sockets
  <2>3. tail \o follower = both \o after
    <3>1. Regrouped(both, z, follower)
      BY <1>4, <1>12, SocketsRegroup
    <3>2. QED
      BY <1>11, <2>1, <3>1 DEF Regrouped
  <2>4. PICK rest : rest = both \o after
    OBVIOUS
  <2>5. rest \in Sockets
    BY <1>12, <2>2, <2>4 DEF Sockets
  <2>6. PICK nested, d : nested = Nested(depth + 1) /\ d = depth + 1
    OBVIOUS
  <2>7. PICK pairs : pairs = ReadReplies(rest, 2, nested, one)
    OBVIOUS
  <2>8. PICK value : value = nested[pairs.left]
    OBVIOUS
  <2>9. ReadValue(one \o rest, nested) =
            IF IsTaken(pairs) /\ IsTaken(value)
            THEN Taken(Reply(pairs.result \o value.result.raw, value.result.error, value.result.value),
                       value.left)
            ELSE Failed
    BY <1>2, <1>9, <2>5, <2>7, <2>8, AttributedRead
  <2>10. pairs = IF d + m <= MaxDepth THEN Taken(raw, after) ELSE Failed
    <3>1. pairs = IF depth + 1 + m <= MaxDepth THEN Taken(raw, after) ELSE Failed
      BY <1>19, <2>2, <2>4, <2>6, <2>7
    <3>2. QED
      BY <2>6, <3>1
  <2>11. depth + v.deep <= MaxDepth <=> d + m <= MaxDepth /\ d + e <= MaxDepth
    <3>1. PICK deep : deep = v.deep
      OBVIOUS
    <3>2. deep = 1 + k
      BY <1>14, <3>1
    <3>3. PICK n \in Int : n = MaxDepth - d
      BY <1>0, <2>6
    <3>4. depth + deep <= MaxDepth <=> k <= n
      BY <1>0, <1>8, <2>6, <3>2, <3>3
    <3>5. d + m <= MaxDepth <=> m <= n
      BY <1>0, <1>8, <2>6, <3>3
    <3>6. d + e <= MaxDepth <=> e <= n
      BY <1>0, <1>8, <2>6, <3>3
    <3>7. QED
      BY <1>8, <3>1, <3>4, <3>5, <3>6
  <2>12. CASE ~(d + m <= MaxDepth)
    <3>1. ~IsTaken(pairs)
      BY <2>10, <2>12, TakenIs
    <3>2. QED
      BY <2>3, <2>4, <2>6, <2>9, <2>11, <2>12, <3>1 DEF Reads
  <2>13. CASE d + m <= MaxDepth
    <3>1. IsTaken(pairs) /\ pairs.result = raw /\ pairs.left = after
      BY <2>10, <2>13, TakenIs
    <3>2. value = ReadReply(after, d)
      BY <1>20, <2>2, <2>6, <2>8, <3>1
    <3>3. value = Reads(c, d, follower)
      <4>1. d \in 0 .. MaxDepth + 1
        BY <1>20, <2>2, <2>6
      <4>2. ReadReply(c.tokens \o follower, d) = Reads(c, d, follower)
        BY <4>1 DEF IsValue
      <4>3. QED
        BY <1>3, <2>1, <3>2, <4>2
    <3>4. CASE ~(d + e <= MaxDepth)
      <4>1. ~IsTaken(value)
        BY <1>7, <3>3, <3>4, TakenIs DEF Reads
      <4>2. QED
        BY <2>3, <2>4, <2>6, <2>9, <2>11, <3>4, <4>1 DEF Reads
    <3>5. CASE d + e <= MaxDepth
      <4>1. value = Taken(Reply(c.tokens, c.error, c.value), follower)
        BY <1>7, <3>3, <3>5 DEF Reads
      <4>2. IsTaken(value) /\ value.left = follower
        BY <4>1, TakenIs
      <4>3. value.result.raw = z /\ value.result.error = c.error /\ value.result.value = c.value
        <5>1. value.result = Reply(c.tokens, c.error, c.value)
          BY <4>1, TakenIs
        <5>2. QED
          BY <1>3, <5>1, ReplyIsRecord
      <4>4. raw \o z = v.tokens
        BY <1>14, <1>18
      <4>5. ReadValue(one \o rest, nested) = Taken(Reply(v.tokens, v.error, v.value), follower)
        BY <1>14, <2>9, <3>1, <4>2, <4>3, <4>4
      <4>6. depth + v.deep <= MaxDepth
        BY <2>11, <2>13, <3>5
      <4>7. QED
        BY <2>3, <2>4, <2>6, <4>5, <4>6 DEF Reads
    <3>6. QED
      BY <3>4, <3>5
  <2>14. QED
    BY <2>12, <2>13
<1>22. ASSUME NEW depth \in 0 .. MaxDepth, NEW cut \in Sockets, IsCut(cut, tail)
       PROVE  ReadValue(one \o cut, Nested(depth + 1)) = Failed
  <2>1. PICK nested, d : nested = Nested(depth + 1) /\ d = depth + 1
    OBVIOUS
  <2>2. PICK pairs : pairs = ReadReplies(cut, 2, nested, one)
    OBVIOUS
  <2>3. PICK value : value = nested[pairs.left]
    OBVIOUS
  <2>4. ~(IsTaken(pairs) /\ IsTaken(value)) => ReadValue(one \o cut, nested) = Failed
    BY <1>2, <1>9, <2>2, <2>3, AttributedRead
  <2>5. CutIn(cut, both, z)
    <3>1. IsCut(cut, both \o z)
      BY <1>11, <1>22
    <3>2. QED
      BY <1>4, <1>12, <3>1, CutJoined
  <2>6. CASE IsCut(cut, both)
    <3>1. IsCut(cut, a.tokens \o b.tokens)
      BY <1>3, <1>10, <2>6
    <3>2. pairs = Failed
      BY <2>1, <2>2, <3>1, TwoCut
    <3>3. ~IsTaken(pairs)
      BY <3>2, TakenIs
    <3>4. QED
      BY <2>1, <2>4, <3>3
  <2>7. CASE \E rest \in Sockets : IsCut(rest, z) /\ cut = both \o rest
    <3>1. PICK rest \in Sockets : IsCut(rest, z) /\ cut = both \o rest
      BY <2>7
    <3>2. pairs = IF depth + 1 + m <= MaxDepth THEN Taken(raw, rest) ELSE Failed
      BY <1>19, <2>1, <2>2, <3>1
    <3>3. ASSUME IsTaken(pairs) PROVE ~IsTaken(value)
      <4>1. pairs.left = rest
        BY <3>2, <3>3, TakenIs
      <4>2. value = ReadReply(rest, d) /\ d \in 0 .. MaxDepth + 1
        BY <1>20, <2>1, <2>3, <4>1
      <4>3. IsCut(rest, c.tokens)
        BY <1>3, <3>1
      <4>4. value = Failed
        BY <4>2, <4>3 DEF IsValue
      <4>5. QED
        BY <4>4, TakenIs
    <3>4. QED
      BY <2>1, <2>4, <3>3
  <2>8. QED
    BY <2>5, <2>6, <2>7 DEF CutIn
<1>23. v.deep \in Nat
  BY <1>8, <1>14
<1>24. "|" \in Types
  BY Zenon DEF Types
<1>25. IsValue(v)
  BY <1>2, <1>9, <1>13, <1>16, <1>21, <1>22, <1>23, <1>24, Composed
<1>26. QED
  BY <1>1, <1>25

-----------------------------------------------------------------------------
\* The atoms.

LEMMA BlobRead ==
    ASSUME NEW type \in Types, type \in Blobs, NEW count \in Nat, NEW rest \in Sockets, NEW nested,
           NEW body, body = ReadBody(rest, count)
    PROVE  ReadValue(<<Line(type, count)>> \o rest, nested) =
               IF IsTaken(body)
               THEN Taken(Reply(<<Line(type, count), Body(body.result)>>, type = "!", Some(body.result)),
                          body.left)
               ELSE Failed
<1>1. PICK line : line = Line(type, count)
  OBVIOUS
<1>2. line.count = count /\ line.type = type /\ ~(line.count < 0) /\ line.count >= 0
  BY <1>1, TokensAre
<1>3. Announces(type, count, rest, nested)
  BY LineAnnounces
<1>4. ReadValue(<<line>> \o rest, nested) = ReadBlob(line, rest)
  BY <1>1, <1>3 DEF Announces
<1>5. ReadBlob(line, rest) =
          IF IsTaken(body)
          THEN Taken(Reply(<<line, Body(body.result)>>, type = "!", Some(body.result)), body.left)
          ELSE Failed
  BY <1>2 DEF ReadBlob
<1>6. QED
  BY <1>1, <1>4, <1>5

LEMMA PairJoined ==
    ASSUME NEW x, NEW y
    PROVE  <<x, y>> = <<x>> \o <<y>>
<1>1. PICK U : U = {x, y}
  OBVIOUS
<1>2. PICK a, b, s : a = <<x>> /\ b = <<y>> /\ s = <<x, y>>
  OBVIOUS
<1>3. /\ a \in Seq(U) /\ b \in Seq(U) /\ s \in Seq(U) /\ Len(a) = 1 /\ Len(b) = 1 /\ Len(s) = 2
      /\ a[1] = x /\ b[1] = y /\ s[1] = x /\ s[2] = y
  BY <1>1, <1>2
<1>4. PICK t : t = a \o b
  OBVIOUS
<1>5. t \in Seq(U) /\ Len(t) = 2 /\ t[1] = x /\ t[2] = y
  <2>1. IsJoined(U, t, a, b)
    BY <1>3, <1>4, JoinedIs
  <2>2. 1 \in 1 .. Len(a) /\ 1 \in 1 .. Len(b) /\ Len(a) + 1 = 2 /\ Len(a) + Len(b) = 2
    BY <1>3
  <2>3. QED
    BY <1>3, <2>1, <2>2 DEF IsJoined
<1>6. \A i \in 1 .. Len(s) : s[i] = t[i]
  BY <1>3, <1>5
<1>7. s = t
  BY <1>3, <1>5, <1>6, SameSeq
<1>8. QED
  BY <1>2, <1>4, <1>7

LEMMA BlobIsValue ==
    ASSUME NEW type \in Types, type \in Blobs, NEW word \in Seq(Letters), Len(word) <= MaxBulk,
           NEW v, v.deep = 0, v.tokens = <<Line(type, Len(word)), Body(word)>>,
           v.error = (type = "!"), v.value = Some(word)
    PROVE  IsValue(v)
<1>0. MaxDepth \in Nat
  BY RespAssumption
<1>1. PICK n : n = Len(word)
  OBVIOUS
<1>2. n \in Nat /\ n <= MaxBulk
  BY <1>1
<1>3. PICK line, body : line = Line(type, n) /\ body = Body(word)
  OBVIOUS
<1>4. line \in OnSocket /\ body \in OnSocket
  BY <1>2, <1>3, TokensAre
<1>5. PICK one, tail : one = <<line>> /\ tail = <<body>>
  OBVIOUS
<1>6. one \in Sockets /\ tail \in Sockets
  BY <1>4, <1>5 DEF Sockets
<1>7. v.tokens = one \o tail
  <2>1. <<line, body>> = <<line>> \o <<body>>
    BY PairJoined
  <2>2. QED
    BY <1>1, <1>3, <1>5, <2>1
<1>8. ASSUME NEW rest \in Sockets, NEW nested, NEW read, read = ReadBody(rest, n)
      PROVE  ReadValue(one \o rest, nested) =
                 IF IsTaken(read)
                 THEN Taken(Reply(<<line, Body(read.result)>>, type = "!", Some(read.result)), read.left)
                 ELSE Failed
  BY <1>2, <1>3, <1>5, <1>8, BlobRead
<1>9. ASSUME NEW depth \in 0 .. MaxDepth, NEW follower \in Sockets
      PROVE  ReadValue(one \o (tail \o follower), Nested(depth + 1)) = Reads(v, depth, follower)
  <2>1. PICK rest : rest = tail \o follower
    OBVIOUS
  <2>2. rest \in Sockets
    BY <1>6, <2>1 DEF Sockets
  <2>3. PICK read : read = ReadBody(rest, n)
    OBVIOUS
  <2>4. read = Taken(word, follower)
    BY <1>1, <1>2, <1>3, <1>5, <2>1, <2>3, BodyRead
  <2>5. IsTaken(read) /\ read.result = word /\ read.left = follower
    BY <2>4, TakenIs
  <2>6. PICK nested : nested = Nested(depth + 1)
    OBVIOUS
  <2>7. ReadValue(one \o rest, nested) = Taken(Reply(<<line, body>>, type = "!", Some(word)), follower)
    BY <1>3, <1>8, <2>2, <2>3, <2>5
  <2>8. ReadValue(one \o rest, nested) = Taken(Reply(v.tokens, v.error, v.value), follower)
    BY <1>1, <1>3, <2>7
  <2>9. depth + v.deep <= MaxDepth
    BY <1>0
  <2>10. QED
    BY <2>1, <2>6, <2>8, <2>9 DEF Reads
<1>10. ASSUME NEW depth \in 0 .. MaxDepth, NEW cut \in Sockets, IsCut(cut, tail)
       PROVE  ReadValue(one \o cut, Nested(depth + 1)) = Failed
  <2>1. cut = <<>> \/ cut = <<Torn>>
    BY <1>4, <1>5, <1>10, CutOne
  <2>2. PICK read : read = ReadBody(cut, n)
    OBVIOUS
  <2>3. read = Failed
    BY <2>1, <2>2, BodyCutFails
  <2>4. ~IsTaken(read)
    BY <2>3, TakenIs
  <2>5. QED
    BY <1>8, <2>2, <2>4
<1>11. v.deep \in Nat
  OBVIOUS
<1>12. one = <<Line(type, n)>> /\ n \in Int
  BY <1>2, <1>3, <1>5
<1>13. v.tokens = <<Line(type, n)>> \o tail
  BY <1>7, <1>12
<1>14. \A depth \in 0 .. MaxDepth, follower \in Sockets :
           ReadValue(<<Line(type, n)>> \o (tail \o follower), Nested(depth + 1)) =
               Reads(v, depth, follower)
  BY <1>9, <1>12
<1>15. \A depth \in 0 .. MaxDepth, cut \in Sockets :
           IsCut(cut, tail) => ReadValue(<<Line(type, n)>> \o cut, Nested(depth + 1)) = Failed
  BY <1>10, <1>12
<1>16. QED
  BY <1>6, <1>11, <1>12, <1>13, <1>14, <1>15, Composed

LEMMA LettersAre == "a" \in Letters /\ "A" \in Letters /\ "b" \in Letters
BY Zenon DEF Letters

LEMMA AtomsAreValues ==
    ASSUME NEW v \in Atoms
    PROVE  IsValue(v)
<1>0. {"+", "-", "$", "!"} \subseteq Types /\ {"+", "-"} \subseteq Scalars /\ {"$", "!"} \subseteq Blobs
  BY Zenon DEF Types, Scalars, Blobs
<1>1. ASSUME NEW type \in {"+", "-"}, NEW w, w = Value(<<Line(type, 0)>>, 0, type = "-", Some(<<>>))
      PROVE  IsValue(w)
  <2>1. type \in Types /\ type \in Scalars
    BY <1>0
  <2>2. w.tokens = <<Line(type, 0)>> /\ w.deep = 0 /\ w.error = (type = "-") /\ w.value = Some(<<>>)
    BY <1>1 DEF Value
  <2>3. ASSUME NEW nested, NEW rest \in Sockets
        PROVE  ReadValue(<<Line(type, 0)>> \o rest, nested) =
                   Taken(Reply(<<Line(type, 0)>>, w.error, w.value), rest)
    <3>1. Announces(type, 0, rest, nested)
      BY <2>1, LineAnnounces
    <3>2. QED
      BY <2>1, <2>2, <3>1 DEF Announces
  <2>4. QED
    BY <2>1, <2>2, <2>3, LineIsValue
<1>2. CASE v = Value(<<Line("+", 0)>>, 0, FALSE, Some(<<>>))
  <2>1. ("+" = "-") = FALSE
    OBVIOUS
  <2>2. v = Value(<<Line("+", 0)>>, 0, "+" = "-", Some(<<>>))
    BY <1>2, <2>1
  <2>3. QED
    BY <1>1, <2>2
<1>3. CASE v = Value(<<Line("-", 0)>>, 0, TRUE, Some(<<>>))
  <2>1. ("-" = "-") = TRUE
    OBVIOUS
  <2>2. v = Value(<<Line("-", 0)>>, 0, "-" = "-", Some(<<>>))
    BY <1>3, <2>1
  <2>3. QED
    BY <1>1, <2>2
<1>4. CASE v = Value(<<Line("$", -1)>>, 0, FALSE, Nil)
  <2>1. PICK count \in Int : count = -1
    OBVIOUS
  <2>2. PICK line : line = Line("$", count)
    OBVIOUS
  <2>3. v.tokens = <<line>> /\ v.deep = 0 /\ v.error = FALSE /\ v.value = Nil
    BY <1>4, <2>1, <2>2 DEF Value
  <2>4. line.count < 0 /\ ~(line.count >= 0)
    BY <2>1, <2>2 DEF Line
  <2>5. ASSUME NEW nested, NEW rest \in Sockets
        PROVE  ReadValue(<<line>> \o rest, nested) = Taken(Reply(<<line>>, v.error, v.value), rest)
    <3>1. Announces("$", count, rest, nested)
      BY <1>0, LineAnnounces
    <3>2. ReadValue(<<line>> \o rest, nested) = ReadBlob(line, rest)
      BY <1>0, <2>2, <3>1 DEF Announces
    <3>3. ReadBlob(line, rest) = Taken(Null(line), rest)
      BY <2>4 DEF ReadBlob
    <3>4. Null(line) = Reply(<<line>>, v.error, v.value)
      BY <2>3 DEF Null
    <3>5. QED
      BY <3>2, <3>3, <3>4
  <2>6. "$" \in Types
    BY <1>0
  <2>7. QED
    BY <2>1, <2>2, <2>3, <2>5, <2>6, LineIsValue
<1>5. ASSUME NEW type \in {"$", "!"}, NEW letter \in Letters, NEW w,
             w = Value(<<Line(type, 1), Body(<<letter>>)>>, 0, type = "!", Some(<<letter>>))
      PROVE  IsValue(w)
  <2>1. type \in Types /\ type \in Blobs
    BY <1>0
  <2>2. PICK word : word = <<letter>>
    OBVIOUS
  <2>3. word \in Seq(Letters) /\ Len(word) = 1
    BY <2>2
  <2>4. Len(word) <= MaxBulk
    BY <2>3, RespAssumption
  <2>5. w.tokens = <<Line(type, Len(word)), Body(word)>> /\ w.deep = 0 /\ w.error = (type = "!")
        /\ w.value = Some(word)
    BY <1>5, <2>2, <2>3 DEF Value
  <2>6. QED
    BY <2>1, <2>3, <2>4, <2>5, BlobIsValue
<1>6. CASE v = Value(Bulk(<<"a">>), 0, FALSE, Some(<<"a">>))
  <2>1. ("$" = "!") = FALSE
    OBVIOUS
  <2>2. Bulk(<<"a">>) = <<Line("$", 1), Body(<<"a">>)>>
    <3>1. Len(<<"a">>) = 1
      OBVIOUS
    <3>2. QED
      BY <3>1 DEF Bulk
  <2>3. v = Value(<<Line("$", 1), Body(<<"a">>)>>, 0, "$" = "!", Some(<<"a">>))
    BY <1>6, <2>1, <2>2
  <2>4. QED
    BY <1>5, <2>3, LettersAre
<1>7. CASE v = Value(<<Line("!", 1), Body(<<"b">>)>>, 0, TRUE, Some(<<"b">>))
  <2>1. ("!" = "!") = TRUE
    OBVIOUS
  <2>2. v = Value(<<Line("!", 1), Body(<<"b">>)>>, 0, "!" = "!", Some(<<"b">>))
    BY <1>7, <2>1
  <2>3. QED
    BY <1>5, <2>2, LettersAre
<1>8. QED
  BY <1>2, <1>3, <1>4, <1>6, <1>7, Zenon DEF Atoms

-----------------------------------------------------------------------------
\* What encloses values.

LEMMA EnclosedAreValues ==
    ASSUME NEW values, \A a \in values : IsValue(a), NEW v \in Enclosed(values)
    PROVE  IsValue(v)
<1>0. /\ {"*", "%", "~", ">"} \subseteq Types
      /\ {"*", "%", "~", ">"} \subseteq Aggregates
  BY Zenon DEF Types, Aggregates
<1>1. CASE v = Around("*", -1, Nothing, Nothing)
  <2>1. PICK count \in Int : count = -1
    OBVIOUS
  <2>2. count < 0
    BY <2>1
  <2>3. IsValue(Around("*", count, Nothing, Nothing))
    BY <1>0, <2>2, NoElements
  <2>4. QED
    BY <1>1, <2>1, <2>3
<1>2. CASE v = Around("%", 0, Nothing, Nothing)
  <2>1. Elements(Line("%", 0)) = 0
    <3>1. Elements(Line("%", 0)) = 2 * 0
      BY ElementsAre
    <3>2. QED
      BY <3>1
  <2>2. QED
    BY <1>0, <1>2, <2>1, NoElements
<1>3. CASE \E a \in values : v = Around("~", 1, a, Nothing)
  <2>1. Elements(Line("~", 1)) = 1
    BY ElementsAre
  <2>2. QED
    BY <1>0, <1>3, <2>1, OneElement
<1>4. ASSUME NEW atom \in Atoms, NEW a \in values, v = Around("*", 2, a, atom)
      PROVE  IsValue(v)
  <2>1. Elements(Line("*", 2)) = 2
    BY ElementsAre
  <2>2. IsValue(a) /\ IsValue(atom)
    BY AtomsAreValues
  <2>3. QED
    BY <1>0, <1>4, <2>1, <2>2, TwoElements
<1>5. ASSUME NEW atom \in Atoms, NEW a \in values, v = Around("%", 1, atom, a)
      PROVE  IsValue(v)
  <2>1. Elements(Line("%", 1)) = 2
    <3>1. Elements(Line("%", 1)) = 2 * 1
      BY ElementsAre
    <3>2. QED
      BY <3>1
  <2>2. IsValue(a) /\ IsValue(atom)
    BY AtomsAreValues
  <2>3. QED
    BY <1>0, <1>5, <2>1, <2>2, TwoElements
<1>6. ASSUME NEW atom \in Atoms, NEW a \in values,
             v = Attributed(atom, Value(<<Line("+", 0)>>, 0, FALSE, Some(<<>>)), a)
      PROVE  IsValue(v)
  <2>1. PICK said : said = Value(<<Line("+", 0)>>, 0, FALSE, Some(<<>>))
    OBVIOUS
  <2>2. said \in Atoms
    BY <2>1, Zenon DEF Atoms
  <2>3. IsValue(a) /\ IsValue(atom) /\ IsValue(said)
    BY <2>2, AtomsAreValues
  <2>4. QED
    BY <1>6, <2>1, <2>3, AttributeIsValue
<1>7. ASSUME NEW atom \in Atoms, v \in Beside(atom, values)
      PROVE  IsValue(v)
  BY <1>4, <1>5, <1>6, <1>7 DEF Beside
<1>8. \/ v = Around("*", -1, Nothing, Nothing) \/ v = Around("%", 0, Nothing, Nothing)
      \/ \E a \in values : v = Around("~", 1, a, Nothing)
      \/ \E atom \in Atoms : v \in Beside(atom, values)
  BY DEF Enclosed
<1>9. QED
  BY <1>1, <1>2, <1>3, <1>7, <1>8

-----------------------------------------------------------------------------
\* Values, level by level.

Deeper(values) == values \cup Enclosed(values)

ValuesOver(f, n) == f = [deep \in 0 .. n |-> IF deep = 0 THEN Atoms ELSE Deeper(f[deep - 1])]

LEMMA ValuesExist ==
    ASSUME NEW n \in Nat
    PROVE  \E f : ValuesOver(f, n)
<1>1. SUFFICES ASSUME ~ \E f : ValuesOver(f, n) PROVE FALSE
  OBVIOUS
<1>2. PICK bad : bad = {m \in Nat : ~ \E f : ValuesOver(f, m)}
  OBVIOUS
<1>3. bad \in SUBSET Nat /\ bad # {}
  BY <1>1, <1>2
<1>4. PICK m \in bad : \A k \in bad : m <= k
  BY <1>3, LeastExists
<1>5. m \in Nat
  BY <1>3
<1>6. m # 0
  <2>1. PICK f : f = [deep \in 0 .. 0 |-> Atoms]
    OBVIOUS
  <2>2. f = [deep \in 0 .. 0 |-> IF deep = 0 THEN Atoms ELSE Deeper(f[deep - 1])]
    BY <2>1
  <2>3. ValuesOver(f, 0)
    BY <2>2 DEF ValuesOver
  <2>4. QED
    BY <1>2, <2>3
<1>7. PICK k \in Nat : m = k + 1
  BY <1>5, <1>6
<1>8. PICK f : ValuesOver(f, k)
  <2>1. k \notin bad
    BY <1>4, <1>7
  <2>2. QED
    BY <1>2, <2>1
<1>9. \A deep \in 0 .. k : f[deep] = IF deep = 0 THEN Atoms ELSE Deeper(f[deep - 1])
  BY <1>8 DEF ValuesOver
<1>10. PICK g : g = [deep \in 0 .. m |-> IF deep = 0 THEN Atoms ELSE Deeper(f[deep - 1])]
  OBVIOUS
<1>11. \A deep \in 0 .. k : deep \in 0 .. m /\ g[deep] = f[deep]
  BY <1>7, <1>9, <1>10
<1>12. \A deep \in 0 .. m : deep # 0 => deep - 1 \in 0 .. k
  BY <1>7
<1>13. g = [deep \in 0 .. m |-> IF deep = 0 THEN Atoms ELSE Deeper(g[deep - 1])]
  BY <1>10, <1>11, <1>12
<1>14. ValuesOver(g, m)
  BY <1>13 DEF ValuesOver
<1>15. QED
  BY <1>2, <1>14

LEMMA ValuesAre ==
    \A deep \in 0 .. MaxDepth :
        Values[deep] = IF deep = 0 THEN Atoms ELSE Values[deep - 1] \cup Enclosed(Values[deep - 1])
<1>1. \E f : ValuesOver(f, MaxDepth)
  BY RespAssumption, ValuesExist
<1>2. Values = CHOOSE f : ValuesOver(f, MaxDepth)
  BY DEF Values, ValuesOver, Deeper
<1>3. ValuesOver(Values, MaxDepth)
  BY <1>1, <1>2
<1>4. QED
  BY <1>3 DEF ValuesOver, Deeper

LEMMA AllAreValues == \A deep \in 0 .. MaxDepth : \A v \in Values[deep] : IsValue(v)
<1>0. MaxDepth \in Nat
  BY RespAssumption
<1>1. SUFFICES ASSUME NEW d \in 0 .. MaxDepth, ~ \A v \in Values[d] : IsValue(v) PROVE FALSE
  OBVIOUS
<1>2. PICK bad : bad = {n \in 0 .. MaxDepth : ~ \A v \in Values[n] : IsValue(v)}
  OBVIOUS
<1>3. bad \in SUBSET Nat /\ bad # {}
  BY <1>0, <1>1, <1>2
<1>4. PICK m \in bad : \A k \in bad : m <= k
  BY <1>3, LeastExists
<1>5. PICK v \in Values[m] : ~IsValue(v)
  BY <1>2
<1>6. m \in 0 .. MaxDepth
  BY <1>2
<1>7. CASE m = 0
  <2>1. v \in Atoms
    BY <1>5, <1>6, <1>7, ValuesAre
  <2>2. QED
    BY <1>5, <2>1, AtomsAreValues
<1>8. CASE m # 0
  <2>1. PICK k \in Nat : m = k + 1
    BY <1>0, <1>6, <1>8
  <2>2. k \in 0 .. MaxDepth /\ m - 1 = k
    BY <1>0, <1>6, <2>1
  <2>3. k \notin bad
    BY <1>4, <2>1
  <2>4. \A a \in Values[k] : IsValue(a)
    BY <1>2, <2>2, <2>3
  <2>5. Values[m] = Values[k] \cup Enclosed(Values[k])
    BY <1>6, <1>8, <2>2, ValuesAre
  <2>6. v \in Values[k] \/ v \in Enclosed(Values[k])
    BY <1>5, <2>5
  <2>7. QED
    BY <1>5, <2>4, <2>6, EnclosedAreValues
<1>9. QED
  BY <1>7, <1>8

LEMMA PushedAreValues ==
    ASSUME NEW v \in Pushed
    PROVE  IsValue(v)
<1>1. PICK a \in Values[MaxDepth] : v = Around(">", 1, a, Nothing)
  BY DEF Pushed
<1>2. IsValue(a)
  BY RespAssumption, AllAreValues
<1>3. ">" \in Types /\ ">" \in Aggregates
  BY Zenon DEF Types, Aggregates
<1>4. Elements(Line(">", 1)) = 1
  BY ElementsAre
<1>5. QED
  BY <1>1, <1>2, <1>3, <1>4, OneElement

-----------------------------------------------------------------------------
\* Replies are read whole, and none is cut short.

LEMMA RepliesWhole == RepliesAreWhole
<1>0. MaxDepth \in Nat
  BY RespAssumption
<1>1. SUFFICES ASSUME NEW value \in Values[MaxDepth] \cup Pushed,
                      NEW follower \in {<<>>, <<Line("+", 0)>>}
               PROVE  ReadReply(value.tokens \o follower, 0) =
                          (IF value.deep <= MaxDepth
                           THEN Taken(Reply(value.tokens, value.error, value.value), follower)
                           ELSE Failed)
  BY DEF RepliesAreWhole
<1>2. IsValue(value)
  BY <1>0, AllAreValues, PushedAreValues
<1>3. follower \in Sockets
  <2>1. "+" \in Types
    BY Zenon DEF Types, Scalars
  <2>2. PICK x : x = Line("+", 0)
    OBVIOUS
  <2>3. x \in OnSocket
    BY <2>1, <2>2, TokensAre
  <2>4. <<>> \in Sockets /\ <<x>> \in Sockets
    BY <2>3 DEF Sockets
  <2>5. follower = <<>> \/ follower = <<x>>
    BY <2>2
  <2>6. QED
    BY <2>4, <2>5
<1>4. 0 \in 0 .. MaxDepth + 1
  BY <1>0
<1>5. ReadReply(value.tokens \o follower, 0) = Reads(value, 0, follower)
  BY <1>2, <1>3, <1>4 DEF IsValue
<1>6. 0 + value.deep = value.deep
  BY <1>2 DEF IsValue
<1>7. QED
  BY <1>5, <1>6 DEF Reads

CutAt(s, i) ==
    /\ SubSeq(s, 1, i - 1) \o <<Torn>> \in Sockets /\ IsCut(SubSeq(s, 1, i - 1) \o <<Torn>>, s)
    /\ i < Len(s) => SubSeq(s, 1, i) \in Sockets /\ IsCut(SubSeq(s, 1, i), s)

LEMMA CutsAre ==
    ASSUME NEW s \in Sockets, NEW i \in 1 .. Len(s)
    PROVE  CutAt(s, i)
<1>1. PICK n : n = Len(s)
  OBVIOUS
<1>2. n \in Nat /\ i \in Nat /\ i <= n /\ i >= 1
  BY <1>1 DEF Sockets
<1>3. PICK k \in Nat : k = i - 1
  BY <1>2
<1>4. k <= Len(s) /\ i <= Len(s)
  BY <1>1, <1>2, <1>3
<1>5. SubSeq(s, 1, k) \in Sockets
  <2>1. IsFirst(OnSocket, SubSeq(s, 1, k), s, k)
    BY <1>4, FirstIs DEF Sockets
  <2>2. QED
    BY <2>1 DEF IsFirst, Sockets
<1>6. SubSeq(s, 1, i) \in Sockets
  <2>1. IsFirst(OnSocket, SubSeq(s, 1, i), s, i)
    BY <1>2, <1>4, FirstIs DEF Sockets
  <2>2. QED
    BY <2>1 DEF IsFirst, Sockets
<1>7. PICK cut : cut = SubSeq(s, 1, i - 1) \o <<Torn>>
  OBVIOUS
<1>8. cut \in Sockets
  <2>1. <<Torn>> \in Sockets
    BY TokensAre DEF Sockets
  <2>2. PICK part : part = SubSeq(s, 1, i - 1)
    OBVIOUS
  <2>3. part \in Sockets
    BY <1>3, <1>5, <2>2
  <2>4. QED
    BY <1>7, <2>1, <2>2, <2>3 DEF Sockets
<1>9. IsCut(cut, s)
  BY <1>7 DEF IsCut
<1>10. ASSUME i < Len(s) PROVE IsCut(SubSeq(s, 1, i), s)
  <2>1. i + 1 \in 1 .. Len(s) /\ (i + 1) - 1 = i
    BY <1>1, <1>2, <1>10
  <2>2. PICK j \in 1 .. Len(s) : j - 1 = i
    BY <2>1
  <2>3. QED
    BY <2>2 DEF IsCut
<1>11. QED
  BY <1>6, <1>7, <1>8, <1>9, <1>10 DEF CutAt

LEMMA NoReplyCut == NoReplyIsCutShort
<1>0. MaxDepth \in Nat /\ 1 \in 0 .. MaxDepth
  BY RespAssumption
<1>1. ASSUME NEW value \in Values[1]
      PROVE  FailsWhenCut(value.tokens, LAMBDA socket : ReadReply(socket, 0))
  <2>1. IsValue(value)
    BY <1>0, AllAreValues
  <2>2. PICK s : s = value.tokens
    OBVIOUS
  <2>3. 0 \in 0 .. MaxDepth + 1 /\ 0 <= MaxDepth
    BY <1>0
  <2>4. s \in Sockets /\ \A cut \in Sockets : IsCut(cut, s) => ReadReply(cut, 0) = Failed
    BY <2>1, <2>2, <2>3 DEF IsValue
  <2>5. ReadReply(<<>>, 0) = Failed
    <3>1. PICK empty : empty = <<>>
      OBVIOUS
    <3>2. empty \in Sockets
      BY <3>1 DEF Sockets
    <3>3. ReadReply(empty, 0) = ReadValue(empty, Nested(0 + 1))
      BY <2>3, <3>2, ReplyIs
    <3>4. QED
      BY <3>1, <3>3, ValueCutFails
  <2>6. ASSUME NEW i \in 1 .. Len(s)
        PROVE  /\ ReadReply(SubSeq(s, 1, i - 1) \o <<Torn>>, 0) = Failed
               /\ i < Len(s) => ReadReply(SubSeq(s, 1, i), 0) = Failed
    <3>1. CutAt(s, i)
      BY <2>4, CutsAre
    <3>2. QED
      BY <2>4, <3>1 DEF CutAt
  <2>7. FailsWhenCut(s, LAMBDA socket : ReadReply(socket, 0))
    BY <2>5, <2>6 DEF FailsWhenCut
  <2>8. QED
    BY <2>2, <2>7
<1>2. QED
  BY <1>1 DEF NoReplyIsCutShort

-----------------------------------------------------------------------------
\* Bulk strings of a command.

Fitting == {word \in Seq(Letters) : Len(word) <= MaxBulk}

LEMMA BulkIs ==
    ASSUME NEW word \in Fitting
    PROVE  /\ Bulk(word) \in Sockets /\ Bulk(word) = <<Line("$", Len(word))>> \o <<Body(word)>>
           /\ Bulk(word)[1] = Line("$", Len(word)) /\ Bulk(word)[2] = Body(word)
           /\ Line("$", Len(word)) \in OnSocket /\ Body(word) \in OnSocket
<1>1. PICK line, body : line = Line("$", Len(word)) /\ body = Body(word)
  OBVIOUS
<1>2. word \in Seq(Letters) /\ Len(word) \in Int
  BY DEF Fitting
<1>3. line \in OnSocket /\ body \in OnSocket
  <2>1. "$" \in Types
    BY Zenon DEF Types, Blobs
  <2>2. QED
    BY <1>1, <1>2, <2>1, TokensAre
<1>4. PICK bulk : bulk = <<line, body>>
  OBVIOUS
<1>5. bulk \in Sockets /\ bulk[1] = line /\ bulk[2] = body
  BY <1>3, <1>4 DEF Sockets
<1>6. bulk = <<line>> \o <<body>>
  BY <1>4, PairJoined
<1>7. Bulk(word) = bulk
  BY <1>1, <1>4 DEF Bulk
<1>8. QED
  BY <1>1, <1>3, <1>5, <1>6, <1>7

\* What is read of a bulk string, by its header.
LEMMA HeaderRead ==
    ASSUME NEW count \in Nat, NEW rest \in Sockets
    PROVE  ReadBulk(<<Line("$", count)>> \o rest) = ReadBody(rest, count)
<1>1. PICK line : line = Line("$", count)
  OBVIOUS
<1>2. line \in OnSocket /\ line.token = "line" /\ line.type = "$" /\ line.count = count
  <2>1. "$" \in Types
    BY Zenon DEF Types, Blobs
  <2>2. QED
    BY <1>1, <2>1, TokensAre
<1>3. PICK s : s = <<line>> \o rest
  OBVIOUS
<1>4. ReadLine(s) = Taken(line, rest)
  BY <1>2, <1>3, LineRead
<1>5. PICK header : header = ReadLine(s)
  OBVIOUS
<1>6. IsTaken(header) /\ header.result = line /\ header.left = rest
  BY <1>4, <1>5, TakenIs
<1>7. IsCount(header.result, "$") /\ header.result.count = count /\ header.result.count >= 0
  BY <1>2, <1>6 DEF IsCount
<1>8. ReadBulk(s) = ReadBody(rest, count)
  BY <1>5, <1>6, <1>7 DEF ReadBulk
<1>9. QED
  BY <1>1, <1>3, <1>8

LEMMA BulkRead ==
    ASSUME NEW word \in Fitting, NEW rest \in Sockets
    PROVE  ReadBulk(Bulk(word) \o rest) = Taken(word, rest)
<1>1. PICK one, body, n : one = <<Line("$", Len(word))>> /\ body = <<Body(word)>> /\ n = Len(word)
  OBVIOUS
<1>2. one \in Sockets /\ body \in Sockets /\ Bulk(word) = one \o body
  BY <1>1, BulkIs DEF Sockets
<1>3. word \in Seq(Letters) /\ n \in Nat /\ n <= MaxBulk
  BY <1>1 DEF Fitting
<1>4. Regrouped(one, body, rest)
  BY <1>2, SocketsRegroup
<1>5. PICK after : after = body \o rest
  OBVIOUS
<1>6. after \in Sockets
  BY <1>2, <1>5 DEF Sockets
<1>7. ReadBulk(one \o after) = ReadBody(after, n)
  BY <1>1, <1>3, <1>6, HeaderRead
<1>8. ReadBody(after, n) = Taken(word, rest)
  BY <1>1, <1>3, <1>5, BodyRead
<1>9. Bulk(word) \o rest = one \o after
  BY <1>2, <1>4, <1>5 DEF Regrouped
<1>10. QED
  BY <1>7, <1>8, <1>9

LEMMA BulkCutFails ==
    ASSUME NEW word \in Fitting, NEW cut \in Sockets, IsCut(cut, Bulk(word))
    PROVE  ReadBulk(cut) = Failed
<1>1. PICK line, body, n : line = Line("$", Len(word)) /\ body = Body(word) /\ n = Len(word)
  OBVIOUS
<1>2. line \in OnSocket /\ body \in OnSocket /\ Bulk(word) = <<line>> \o <<body>>
  BY <1>1, BulkIs
<1>3. n \in Nat
  BY <1>1 DEF Fitting
<1>4. PICK one, tail : one = <<line>> /\ tail = <<body>>
  OBVIOUS
<1>5. one \in Sockets /\ tail \in Sockets
  BY <1>2, <1>4 DEF Sockets
<1>6. CutIn(cut, one, tail)
  <2>1. IsCut(cut, one \o tail)
    BY <1>2, <1>4
  <2>2. QED
    BY <1>5, <2>1, CutJoined
<1>7. CASE IsCut(cut, one)
  <2>1. cut = <<>> \/ cut = <<Torn>>
    BY <1>2, <1>4, <1>7, CutOne
  <2>2. ~IsTaken(ReadLine(cut))
    BY <2>1, LineCutFails, TakenIs DEF LineCut
  <2>3. QED
    BY <2>2 DEF ReadBulk
<1>8. CASE \E rest \in Sockets : IsCut(rest, tail) /\ cut = one \o rest
  <2>1. PICK rest \in Sockets : IsCut(rest, tail) /\ cut = one \o rest
    BY <1>8
  <2>2. rest = <<>> \/ rest = <<Torn>>
    BY <1>2, <1>4, <2>1, CutOne
  <2>3. ReadBulk(cut) = ReadBody(rest, n)
    BY <1>1, <1>3, <1>4, <2>1, HeaderRead
  <2>4. QED
    BY <2>2, <2>3, BodyCutFails
<1>9. QED
  BY <1>6, <1>7, <1>8 DEF CutIn

-----------------------------------------------------------------------------
\* Words in a row, turn by turn.

LEMMA WordRead ==
    ASSUME NEW words, NEW word \in Fitting, NEW rest \in Sockets
    PROVE  NextWord(Taken(words, Bulk(word) \o rest)) = Taken(Append(words, word), rest)
<1>1. PICK soFar : soFar = Taken(words, Bulk(word) \o rest)
  OBVIOUS
<1>2. IsTaken(soFar) /\ soFar.result = words /\ soFar.left = Bulk(word) \o rest
  BY <1>1, TakenIs
<1>3. PICK read : read = ReadBulk(soFar.left)
  OBVIOUS
<1>4. read = Taken(word, rest)
  BY <1>2, <1>3, BulkRead
<1>5. IsTaken(read) /\ read.result = word /\ read.left = rest
  BY <1>4, TakenIs
<1>6. NextWord(soFar) = Taken(Append(words, word), rest)
  BY <1>2, <1>3, <1>5 DEF NextWord
<1>7. QED
  BY <1>1, <1>6

LEMMA WordCut ==
    ASSUME NEW words, NEW word \in Fitting, NEW cut \in Sockets, IsCut(cut, Bulk(word))
    PROVE  NextWord(Taken(words, cut)) = Failed
<1>1. PICK soFar : soFar = Taken(words, cut)
  OBVIOUS
<1>2. soFar.left = cut
  BY <1>1, TakenIs
<1>3. ReadBulk(soFar.left) = Failed
  BY <1>2, BulkCutFails
<1>4. ~IsTaken(ReadBulk(soFar.left))
  BY <1>3, TakenIs
<1>5. NextWord(soFar) = Failed
  BY <1>4 DEF NextWord
<1>6. QED
  BY <1>1, <1>5

LEMMA WordFailed == NextWord(Failed) = Failed
BY TakenIs DEF NextWord

WordsOver(f, socket, n) ==
    f = [turns \in 0 .. n |-> IF turns = 0 THEN Taken(<<>>, socket) ELSE NextWord(f[turns - 1])]

LEMMA WordsExist ==
    ASSUME NEW socket, NEW n \in Nat
    PROVE  \E f : WordsOver(f, socket, n)
<1>1. SUFFICES ASSUME ~ \E f : WordsOver(f, socket, n) PROVE FALSE
  OBVIOUS
<1>2. PICK bad : bad = {m \in Nat : ~ \E f : WordsOver(f, socket, m)}
  OBVIOUS
<1>3. bad \in SUBSET Nat /\ bad # {}
  BY <1>1, <1>2
<1>4. PICK m \in bad : \A k \in bad : m <= k
  BY <1>3, LeastExists
<1>5. m \in Nat
  BY <1>3
<1>6. m # 0
  <2>1. PICK f : f = [turns \in 0 .. 0 |-> Taken(<<>>, socket)]
    OBVIOUS
  <2>2. f = [turns \in 0 .. 0 |-> IF turns = 0 THEN Taken(<<>>, socket) ELSE NextWord(f[turns - 1])]
    BY <2>1
  <2>3. WordsOver(f, socket, 0)
    BY <2>2 DEF WordsOver
  <2>4. QED
    BY <1>2, <2>3
<1>7. PICK k \in Nat : m = k + 1
  BY <1>5, <1>6
<1>8. PICK f : WordsOver(f, socket, k)
  <2>1. k \notin bad
    BY <1>4, <1>7
  <2>2. QED
    BY <1>2, <2>1
<1>9. \A turns \in 0 .. k :
          f[turns] = IF turns = 0 THEN Taken(<<>>, socket) ELSE NextWord(f[turns - 1])
  BY <1>8 DEF WordsOver
<1>10. PICK g : g = [turns \in 0 .. m |->
                        IF turns = 0 THEN Taken(<<>>, socket) ELSE NextWord(f[turns - 1])]
  OBVIOUS
<1>11. \A turns \in 0 .. k : turns \in 0 .. m /\ g[turns] = f[turns]
  BY <1>7, <1>9, <1>10
<1>12. \A turns \in 0 .. m : turns # 0 => turns - 1 \in 0 .. k
  BY <1>7
<1>13. g = [turns \in 0 .. m |-> IF turns = 0 THEN Taken(<<>>, socket) ELSE NextWord(g[turns - 1])]
  BY <1>10, <1>11, <1>12
<1>14. WordsOver(g, socket, m)
  BY <1>13 DEF WordsOver
<1>15. QED
  BY <1>2, <1>14

WordsAre(f, socket, count) ==
    /\ f[0] = Taken(<<>>, socket) /\ \A k \in 1 .. count : f[k] = NextWord(f[k - 1])
    /\ ReadWords(socket, count) = f[count]

LEMMA WordsTakeTurns ==
    ASSUME NEW socket, NEW n \in Nat
    PROVE  \E f : WordsAre(f, socket, n)
<1>1. \E f : WordsOver(f, socket, n)
  BY WordsExist
<1>2. PICK f : f = CHOOSE g : WordsOver(g, socket, n)
  OBVIOUS
<1>3. WordsOver(f, socket, n)
  BY <1>1, <1>2
<1>4. ReadWords(socket, n) = f[n]
  <2>1. f = CHOOSE g : g = [turns \in 0 .. n |->
                 IF turns = 0 THEN Taken(<<>>, socket) ELSE NextWord(g[turns - 1])]
    BY <1>2 DEF WordsOver
  <2>2. QED
    BY <2>1 DEF ReadWords
<1>5. f[0] = Taken(<<>>, socket) /\ \A k \in 1 .. n : f[k] = NextWord(f[k - 1])
  BY <1>3 DEF WordsOver
<1>6. WordsAre(f, socket, n)
  BY <1>4, <1>5 DEF WordsAre
<1>7. QED
  BY <1>6

LEMMA OneWord ==
    ASSUME NEW socket
    PROVE  ReadWords(socket, 1) = NextWord(Taken(<<>>, socket))
<1>1. PICK f : WordsAre(f, socket, 1)
  BY WordsTakeTurns
<1>2. 1 \in 1 .. 1 /\ 1 - 1 = 0
  OBVIOUS
<1>3. QED
  BY <1>1, <1>2 DEF WordsAre

LEMMA TwoWords ==
    ASSUME NEW socket
    PROVE  ReadWords(socket, 2) = NextWord(NextWord(Taken(<<>>, socket)))
<1>1. PICK f : WordsAre(f, socket, 2)
  BY WordsTakeTurns
<1>2. 1 \in 1 .. 2 /\ 2 \in 1 .. 2 /\ 1 - 1 = 0 /\ 2 - 1 = 1
  OBVIOUS
<1>3. f[1] = NextWord(f[0]) /\ f[2] = NextWord(f[1]) /\ f[0] = Taken(<<>>, socket)
  BY <1>1, <1>2 DEF WordsAre
<1>4. ReadWords(socket, 2) = f[2]
  BY <1>1 DEF WordsAre
<1>5. QED
  BY <1>3, <1>4

-----------------------------------------------------------------------------
\* Commands as they are framed.

LEMMA SameAsSeq ==
    ASSUME NEW U, NEW n \in Nat, NEW f, DOMAIN f = 1 .. n, f = [p \in 1 .. n |-> f[p]],
           NEW s \in Seq(U), Len(s) = n, \A p \in 1 .. n : f[p] = s[p]
    PROVE  f = s
<1>1. \A p \in 1 .. n : f[p] \in U
  OBVIOUS
<1>2. f \in [1 .. n -> U]
  BY <1>1
<1>3. f \in Seq(U) /\ Len(f) = n
  BY <1>2
<1>4. QED
  BY <1>3, SameSeq

LEMMA OneWordArray ==
    ASSUME NEW word \in Fitting
    PROVE  Array(<<word>>) = <<Line("*", 1)>> \o Bulk(word)
<1>1. PICK words : words = <<word>>
  OBVIOUS
<1>2. Len(words) = 1 /\ words[1] = word
  BY <1>1
<1>3. PICK f : f = [p \in 1 .. 2 * Len(words) |-> Bulk(words[(p + 1) \div 2])[2 - (p % 2)]]
  OBVIOUS
<1>4. DOMAIN f = 1 .. 2 /\ f = [p \in 1 .. 2 |-> f[p]]
  BY <1>2, <1>3
<1>5. f[1] = Bulk(word)[1] /\ f[2] = Bulk(word)[2]
  <2>1. (1 + 1) \div 2 = 1 /\ 2 - (1 % 2) = 1 /\ (2 + 1) \div 2 = 1 /\ 2 - (2 % 2) = 2
    OBVIOUS
  <2>2. 1 \in 1 .. 2 * Len(words) /\ 2 \in 1 .. 2 * Len(words)
    BY <1>2
  <2>3. QED
    BY <1>2, <1>3, <2>1, <2>2
<1>6. PICK bulk : bulk = Bulk(word)
  OBVIOUS
<1>7. bulk \in Seq(OnSocket) /\ Len(bulk) = 2
  BY <1>6, BulkIs DEF Bulk, Sockets
<1>8. \A p \in 1 .. 2 : f[p] = bulk[p]
  BY <1>5, <1>6
<1>9. f = bulk
  BY <1>4, <1>7, <1>8, SameAsSeq
<1>10. Array(words) = <<Line("*", 1)>> \o f
  BY <1>2, <1>3 DEF Array
<1>11. QED
  BY <1>1, <1>6, <1>9, <1>10

LEMMA TwoWordArray ==
    ASSUME NEW first \in Fitting, NEW second \in Fitting
    PROVE  Array(<<first, second>>) = <<Line("*", 2)>> \o (Bulk(first) \o Bulk(second))
<1>1. PICK words : words = <<first, second>>
  OBVIOUS
<1>2. Len(words) = 2 /\ words[1] = first /\ words[2] = second
  BY <1>1
<1>3. PICK f : f = [p \in 1 .. 2 * Len(words) |-> Bulk(words[(p + 1) \div 2])[2 - (p % 2)]]
  OBVIOUS
<1>4. DOMAIN f = 1 .. 4 /\ f = [p \in 1 .. 4 |-> f[p]]
  BY <1>2, <1>3
<1>5. PICK a, b : a = Bulk(first) /\ b = Bulk(second)
  OBVIOUS
<1>6. f[1] = a[1] /\ f[2] = a[2] /\ f[3] = b[1] /\ f[4] = b[2]
  <2>1. /\ (1 + 1) \div 2 = 1 /\ 2 - (1 % 2) = 1 /\ (2 + 1) \div 2 = 1 /\ 2 - (2 % 2) = 2
        /\ (3 + 1) \div 2 = 2 /\ 2 - (3 % 2) = 1 /\ (4 + 1) \div 2 = 2 /\ 2 - (4 % 2) = 2
    OBVIOUS
  <2>2. \A p \in {1, 2, 3, 4} : p \in 1 .. 2 * Len(words)
    BY <1>2
  <2>3. QED
    BY <1>2, <1>3, <1>5, <2>1, <2>2
<1>7. a \in Seq(OnSocket) /\ Len(a) = 2 /\ b \in Seq(OnSocket) /\ Len(b) = 2
  BY <1>5, BulkIs DEF Bulk, Sockets
<1>8. PICK both : both = a \o b
  OBVIOUS
<1>9. both \in Seq(OnSocket) /\ Len(both) = 4 /\ both[1] = a[1] /\ both[2] = a[2]
      /\ both[3] = b[1] /\ both[4] = b[2]
  <2>1. IsJoined(OnSocket, both, a, b)
    BY <1>7, <1>8, JoinedIs
  <2>2. both \in Seq(OnSocket) /\ Len(both) = 4
    BY <1>7, <2>1 DEF IsJoined
  <2>3. \A i \in 1 .. 2 : both[i] = a[i] /\ both[2 + i] = b[i]
    BY <1>7, <2>1 DEF IsJoined
  <2>4. 2 + 1 = 3 /\ 2 + 2 = 4 /\ 1 \in 1 .. 2 /\ 2 \in 1 .. 2
    OBVIOUS
  <2>5. QED
    BY <2>2, <2>3, <2>4
<1>10. \A p \in 1 .. 4 : f[p] = both[p]
  <2>1. \A p \in 1 .. 4 : p = 1 \/ p = 2 \/ p = 3 \/ p = 4
    OBVIOUS
  <2>2. QED
    BY <1>6, <1>9, <2>1
<1>11. f = both
  BY <1>4, <1>9, <1>10, SameAsSeq
<1>12. Array(words) = <<Line("*", 2)>> \o f
  BY <1>2, <1>3 DEF Array
<1>13. QED
  BY <1>1, <1>5, <1>8, <1>11, <1>12

-----------------------------------------------------------------------------
\* Commands as they are read.

IsCommand(words) ==
    /\ Array(words) \in Sockets
    /\ \A rest \in Sockets : ReadCommand(Array(words) \o rest) = Taken(AsCommand(words), rest)
    /\ \A cut \in Sockets : IsCut(cut, Array(words)) => cut = <<>> \/ ReadCommand(cut) = Failed

LEMMA CommandRead ==
    ASSUME NEW n \in Nat \ {0}, NEW rest \in Sockets, NEW words, words = ReadWords(rest, n)
    PROVE  ReadCommand(<<Line("*", n)>> \o rest) =
               IF IsTaken(words) THEN Taken(AsCommand(words.result), words.left) ELSE Failed
<1>1. PICK x : x = Line("*", n)
  OBVIOUS
<1>2. x \in OnSocket /\ x.token = "line" /\ x.type = "*" /\ x.count = n
  <2>1. "*" \in Types
    BY Zenon DEF Types, Aggregates
  <2>2. QED
    BY <1>1, <2>1, TokensAre
<1>3. PICK s : s = <<x>> \o rest
  OBVIOUS
<1>4. ReadLine(s) = Taken(x, rest)
  BY <1>2, <1>3, LineRead
<1>5. PICK line : line = ReadLine(s)
  OBVIOUS
<1>6. IsTaken(line) /\ line.result = x /\ line.left = rest
  BY <1>4, <1>5, TakenIs
<1>7. line.result.token # "inline" /\ line.result.count = n /\ n > 0 /\ IsCount(line.result, "*")
  BY <1>2, <1>6 DEF IsCount
<1>8. ReadWords(line.left, line.result.count) = words
  BY <1>6, <1>7
<1>9. ReadCommand(s) = IF IsTaken(words) THEN Taken(AsCommand(words.result), words.left) ELSE Failed
  BY <1>5, <1>6, <1>7, <1>8 DEF ReadCommand
<1>10. QED
  BY <1>1, <1>3, <1>9

LEMMA CommandComposed ==
    ASSUME NEW words, NEW n \in Nat \ {0}, NEW tail \in Sockets,
           Array(words) = <<Line("*", n)>> \o tail,
           \A rest \in Sockets : ReadWords(tail \o rest, n) = Taken(words, rest),
           \A cut \in Sockets : IsCut(cut, tail) => ReadWords(cut, n) = Failed
    PROVE  IsCommand(words)
<1>1. PICK line : line = Line("*", n)
  OBVIOUS
<1>2. line \in OnSocket
  <2>1. "*" \in Types
    BY Zenon DEF Types, Aggregates
  <2>2. QED
    BY <1>1, <2>1, TokensAre
<1>3. PICK one : one = <<line>>
  OBVIOUS
<1>4. one \in Sockets /\ Array(words) = one \o tail
  BY <1>1, <1>2, <1>3 DEF Sockets
<1>5. PICK tokens : tokens = Array(words)
  OBVIOUS
<1>6. tokens \in Sockets
  <2>1. one \o tail \in Sockets
    BY <1>4 DEF Sockets
  <2>2. QED
    BY <1>4, <1>5, <2>1
<1>7. ASSUME NEW rest \in Sockets, NEW read, read = ReadWords(rest, n)
      PROVE  ReadCommand(one \o rest) =
                 IF IsTaken(read) THEN Taken(AsCommand(read.result), read.left) ELSE Failed
  BY <1>1, <1>3, <1>7, CommandRead
<1>8. ASSUME NEW rest \in Sockets
      PROVE  ReadCommand(tokens \o rest) = Taken(AsCommand(words), rest)
  <2>1. Regrouped(one, tail, rest)
    BY <1>4, SocketsRegroup
  <2>2. PICK after : after = tail \o rest
    OBVIOUS
  <2>3. after \in Sockets
    BY <2>2 DEF Sockets
  <2>4. PICK read : read = ReadWords(after, n)
    OBVIOUS
  <2>5. read = Taken(words, rest)
    BY <2>2, <2>4
  <2>6. IsTaken(read) /\ read.result = words /\ read.left = rest
    BY <2>5, TakenIs
  <2>7. ReadCommand(one \o after) = Taken(AsCommand(words), rest)
    BY <1>7, <2>3, <2>4, <2>6
  <2>8. tokens \o rest = one \o after
    BY <1>4, <1>5, <2>1, <2>2 DEF Regrouped
  <2>9. QED
    BY <2>7, <2>8
<1>9. ASSUME NEW cut \in Sockets, IsCut(cut, tokens)
      PROVE  cut = <<>> \/ ReadCommand(cut) = Failed
  <2>1. CutIn(cut, one, tail)
    <3>1. IsCut(cut, one \o tail)
      BY <1>4, <1>5, <1>9
    <3>2. QED
      BY <1>4, <3>1, CutJoined
  <2>2. CASE IsCut(cut, one)
    <3>1. cut = <<>> \/ cut = <<Torn>>
      BY <1>2, <1>3, <2>2, CutOne
    <3>2. ASSUME cut = <<Torn>> PROVE ReadCommand(cut) = Failed
      <4>1. ReadLine(cut) = Failed
        BY <3>2, LineCutFails DEF LineCut
      <4>2. ~IsTaken(ReadLine(cut))
        BY <4>1, TakenIs
      <4>3. QED
        BY <4>1, <4>2 DEF ReadCommand
    <3>3. QED
      BY <3>1, <3>2
  <2>3. CASE \E rest \in Sockets : IsCut(rest, tail) /\ cut = one \o rest
    <3>1. PICK rest \in Sockets : IsCut(rest, tail) /\ cut = one \o rest
      BY <2>3
    <3>2. PICK read : read = ReadWords(rest, n)
      OBVIOUS
    <3>3. read = Failed
      BY <3>1, <3>2
    <3>4. ~IsTaken(read)
      BY <3>3, TakenIs
    <3>5. QED
      BY <1>7, <3>1, <3>2, <3>4
  <2>4. QED
    BY <2>1, <2>2, <2>3 DEF CutIn
<1>10. QED
  BY <1>5, <1>6, <1>8, <1>9 DEF IsCommand

LEMMA OneWordCommand ==
    ASSUME NEW word \in Fitting
    PROVE  IsCommand(<<word>>)
<1>1. PICK tail, words : tail = Bulk(word) /\ words = <<word>>
  OBVIOUS
<1>2. tail \in Sockets /\ Array(words) = <<Line("*", 1)>> \o tail
  BY <1>1, BulkIs, OneWordArray
<1>3. ASSUME NEW rest \in Sockets PROVE ReadWords(tail \o rest, 1) = Taken(words, rest)
  <2>1. ReadWords(tail \o rest, 1) = Taken(Append(<<>>, word), rest)
    BY <1>1, OneWord, WordRead
  <2>2. Append(<<>>, word) = words
    BY <1>1
  <2>3. QED
    BY <2>1, <2>2
<1>4. ASSUME NEW cut \in Sockets, IsCut(cut, tail) PROVE ReadWords(cut, 1) = Failed
  BY <1>1, <1>4, OneWord, WordCut
<1>5. IsCommand(words)
  BY <1>2, <1>3, <1>4, CommandComposed
<1>6. QED
  BY <1>1, <1>5

LEMMA TwoWordCommand ==
    ASSUME NEW first \in Fitting, NEW second \in Fitting
    PROVE  IsCommand(<<first, second>>)
<1>1. PICK a, b : a = Bulk(first) /\ b = Bulk(second)
  OBVIOUS
<1>2. PICK words : words = <<first, second>>
  OBVIOUS
<1>3. PICK tail : tail = a \o b
  OBVIOUS
<1>4. a \in Sockets /\ b \in Sockets
  BY <1>1, BulkIs
<1>5. tail \in Sockets
  BY <1>3, <1>4 DEF Sockets
<1>6. Array(words) = <<Line("*", 2)>> \o tail
  BY <1>1, <1>2, <1>3, TwoWordArray
<1>7. Append(Append(<<>>, first), second) = words
  <2>1. PICK one : one = <<first>>
    OBVIOUS
  <2>2. Append(<<>>, first) = one
    BY <2>1
  <2>3. one \in Seq({first, second}) /\ Len(one) = 1 /\ one[1] = first
    BY <2>1
  <2>4. PICK s : s = Append(one, second)
    OBVIOUS
  <2>5. s \in Seq({first, second}) /\ Len(s) = 2 /\ s[1] = first /\ s[2] = second
    <3>1. first \in {first, second} /\ second \in {first, second}
      OBVIOUS
    <3>2. PICK U : U = {first, second}
      OBVIOUS
    <3>3. one \in Seq(U) /\ second \in U
      BY <2>3, <3>1, <3>2
    <3>4. s \in Seq(U) /\ Len(s) = Len(one) + 1 /\ s[Len(one) + 1] = second
      BY <2>4, <3>3
    <3>5. s[1] = one[1]
      BY <2>3, <2>4, <3>3
    <3>6. QED
      BY <2>3, <3>2, <3>4, <3>5
  <2>6. words \in Seq({first, second}) /\ Len(words) = 2 /\ words[1] = first /\ words[2] = second
    BY <1>2
  <2>7. \A i \in 1 .. Len(s) : s[i] = words[i]
    BY <2>5, <2>6
  <2>8. s = words
    BY <2>5, <2>6, <2>7, SameSeq
  <2>9. QED
    BY <2>2, <2>4, <2>8
<1>8. ASSUME NEW rest \in Sockets PROVE ReadWords(tail \o rest, 2) = Taken(words, rest)
  <2>1. Regrouped(a, b, rest)
    BY <1>4, SocketsRegroup
  <2>2. PICK after : after = b \o rest
    OBVIOUS
  <2>3. after \in Sockets
    BY <1>4, <2>2 DEF Sockets
  <2>4. tail \o rest = a \o after
    BY <1>3, <2>1, <2>2 DEF Regrouped
  <2>5. NextWord(Taken(<<>>, a \o after)) = Taken(Append(<<>>, first), after)
    BY <1>1, <2>3, WordRead
  <2>6. PICK one : one = Append(<<>>, first)
    OBVIOUS
  <2>7. NextWord(Taken(one, b \o rest)) = Taken(Append(one, second), rest)
    BY <1>1, WordRead
  <2>8. ReadWords(tail \o rest, 2) = NextWord(NextWord(Taken(<<>>, a \o after)))
    BY <2>4, TwoWords
  <2>9. QED
    BY <1>7, <2>2, <2>5, <2>6, <2>7, <2>8
<1>9. ASSUME NEW cut \in Sockets, IsCut(cut, tail) PROVE ReadWords(cut, 2) = Failed
  <2>1. ReadWords(cut, 2) = NextWord(NextWord(Taken(<<>>, cut)))
    BY TwoWords
  <2>2. CutIn(cut, a, b)
    <3>1. IsCut(cut, a \o b)
      BY <1>3, <1>9
    <3>2. QED
      BY <1>4, <3>1, CutJoined
  <2>3. CASE IsCut(cut, a)
    <3>1. NextWord(Taken(<<>>, cut)) = Failed
      BY <1>1, <2>3, WordCut
    <3>2. QED
      BY <2>1, <3>1, WordFailed
  <2>4. CASE \E rest \in Sockets : IsCut(rest, b) /\ cut = a \o rest
    <3>1. PICK rest \in Sockets : IsCut(rest, b) /\ cut = a \o rest
      BY <2>4
    <3>2. PICK one : one = Append(<<>>, first)
      OBVIOUS
    <3>3. NextWord(Taken(<<>>, cut)) = Taken(one, rest)
      BY <1>1, <3>1, <3>2, WordRead
    <3>4. NextWord(Taken(one, rest)) = Failed
      BY <1>1, <3>1, WordCut
    <3>5. QED
      BY <2>1, <3>3, <3>4
  <2>5. QED
    BY <2>2, <2>3, <2>4 DEF CutIn
<1>10. IsCommand(words)
  BY <1>5, <1>6, <1>8, <1>9, CommandComposed
<1>11. QED
  BY <1>2, <1>10

-----------------------------------------------------------------------------
\* What is observed, and what is sent.

LEMMA UpperIs ==
    ASSUME NEW word \in Fitting
    PROVE  Upper(word) \in Fitting /\ Upper(Upper(word)) = Upper(word)
<1>1. PICK n : n = Len(word)
  OBVIOUS
<1>2. word \in Seq(Letters) /\ n \in Nat /\ n <= MaxBulk /\ DOMAIN word = 1 .. n
  BY <1>1 DEF Fitting
<1>3. \A i \in 1 .. n : word[i] \in Letters
  BY <1>1, <1>2
<1>4. PICK f : f = [i \in 1 .. n |-> IF word[i] = "a" THEN "A" ELSE word[i]]
  OBVIOUS
<1>5. Upper(word) = f
  BY <1>2, <1>4 DEF Upper
<1>6. \A i \in 1 .. n : f[i] \in Letters /\ f[i] # "a"
  <2>1. "A" # "a"
    OBVIOUS
  <2>2. QED
    BY <1>3, <1>4, <2>1, LettersAre
<1>7. f \in [1 .. n -> Letters]
  BY <1>4, <1>6
<1>8. f \in Seq(Letters) /\ Len(f) = n /\ DOMAIN f = 1 .. n
  BY <1>2, <1>7
<1>9. Upper(f) = [i \in 1 .. n |-> IF f[i] = "a" THEN "A" ELSE f[i]]
  BY <1>8 DEF Upper
<1>10. Upper(f) = f
  BY <1>4, <1>6, <1>9
<1>11. f \in Fitting
  BY <1>2, <1>8 DEF Fitting
<1>12. QED
  BY <1>5, <1>10, <1>11

LEMMA WordsFit ==
    ASSUME NEW word \in Words
    PROVE  word \in Fitting
<1>1. PICK n \in 0 .. MaxBulk : word \in [1 .. n -> {"a", "b"}]
  BY DEF Words
<1>2. n \in Nat /\ n <= MaxBulk
  BY <1>1, RespAssumption
<1>3. word \in [1 .. n -> Letters]
  BY <1>1, LettersAre
<1>4. word \in Seq(Letters) /\ Len(word) = n
  BY <1>2, <1>3
<1>5. QED
  BY <1>2, <1>4 DEF Fitting

LEMMA InlineRead ==
    ASSUME NEW words \in Seq(Seq(Letters)), words # <<>>, NEW rest \in Sockets
    PROVE  ReadCommand(<<Inline(words)>> \o rest) = Taken(AsCommand(words), rest)
<1>1. PICK x : x = Inline(words)
  OBVIOUS
<1>2. x \in OnSocket /\ x.token = "inline" /\ x.words = words
  BY <1>1 DEF Inline, OnSocket
<1>3. PICK s : s = <<x>> \o rest
  OBVIOUS
<1>4. ReadLine(s) = Taken(x, rest)
  BY <1>2, <1>3, LineRead
<1>5. PICK line : line = ReadLine(s)
  OBVIOUS
<1>6. IsTaken(line) /\ line.result = x /\ line.left = rest
  BY <1>4, <1>5, TakenIs
<1>7. ReadCommand(s) = Taken(AsCommand(words), rest)
  BY <1>2, <1>5, <1>6 DEF ReadCommand
<1>8. QED
  BY <1>1, <1>3, <1>7

LEMMA NoCommandCut ==
    ASSUME NEW words, IsCommand(words)
    PROVE  FailsWhenCut(Array(words), ReadCommand)
<1>1. PICK s : s = Array(words)
  OBVIOUS
<1>2. s \in Sockets /\ \A cut \in Sockets : IsCut(cut, s) => cut = <<>> \/ ReadCommand(cut) = Failed
  BY <1>1 DEF IsCommand
<1>3. ReadCommand(<<>>) = Ended
  <2>1. ReadLine(<<>>) = Ended
    BY LineCutFails DEF LineCut
  <2>2. ~IsTaken(ReadLine(<<>>))
    BY <2>1, TakenIs
  <2>3. QED
    BY <2>1, <2>2 DEF ReadCommand
<1>4. ASSUME NEW i \in 1 .. Len(s)
      PROVE  /\ ReadCommand(SubSeq(s, 1, i - 1) \o <<Torn>>) = Failed
             /\ i < Len(s) => ReadCommand(SubSeq(s, 1, i)) = Failed
  <2>1. CutAt(s, i)
    BY <1>2, CutsAre
  <2>2. SubSeq(s, 1, i - 1) \o <<Torn>> # <<>>
    <3>1. PICK k, part : k = i - 1 /\ part = SubSeq(s, 1, i - 1)
      OBVIOUS
    <3>2. k \in Nat /\ k <= Len(s)
      BY <1>2, <3>1 DEF Sockets
    <3>3. IsFirst(OnSocket, SubSeq(s, 1, k), s, k)
      BY <1>2, <3>2, FirstIs DEF Sockets
    <3>4. part \in Seq(OnSocket)
      BY <3>1, <3>3 DEF IsFirst
    <3>5. <<Torn>> \in Seq(OnSocket) /\ Len(<<Torn>>) = 1
      BY TokensAre
    <3>6. Len(part \o <<Torn>>) = Len(part) + 1 /\ Len(part) \in Nat
      BY <3>4, <3>5
    <3>7. QED
      BY <3>1, <3>6
  <2>3. SubSeq(s, 1, i) # <<>>
    <3>1. i \in Nat /\ i <= Len(s) /\ i >= 1
      BY <1>2 DEF Sockets
    <3>2. IsFirst(OnSocket, SubSeq(s, 1, i), s, i)
      BY <1>2, <3>1, FirstIs DEF Sockets
    <3>3. Len(SubSeq(s, 1, i)) = i
      BY <3>2 DEF IsFirst
    <3>4. QED
      BY <3>1, <3>3
  <2>4. QED
    BY <1>2, <2>1, <2>2, <2>3 DEF CutAt
<1>5. FailsWhenCut(s, ReadCommand)
  BY <1>3, <1>4 DEF FailsWhenCut
<1>6. QED
  BY <1>1, <1>5

LEMMA PairTail ==
    ASSUME NEW x, NEW y
    PROVE  <<x, y>> # <<>> /\ Head(<<x, y>>) = x /\ <<x, y>>[1] = x /\ Tail(<<x, y>>) = <<y>>
<1>1. PICK one, two, s : one = <<x>> /\ two = <<y>> /\ s = <<x, y>>
  OBVIOUS
<1>2. one \in Seq({x, y}) /\ two \in Seq({x, y}) /\ s # <<>> /\ s[1] = x
  BY <1>1
<1>3. Leads({x, y}, <<x>> \o two, x, two)
  BY <1>2, Led
<1>4. s = <<x>> \o <<y>>
  BY <1>1, PairJoined
<1>5. Head(s) = x /\ Tail(s) = two
  BY <1>1, <1>3, <1>4 DEF Leads
<1>6. QED
  BY <1>1, <1>2, <1>5

\* What a client asks for, and what it is called in upper case.
IsSentence(words, upper) ==
    /\ IsCommand(words) /\ IsCommand(upper) /\ words # <<>> /\ words \in Seq(Seq(Letters))
    /\ AsCommand(words) = [name |-> Upper(words[1]), args |-> Tail(words)]
    /\ Encode(AsCommand(words)) = Array(upper) /\ AsCommand(upper) = AsCommand(words)

LEMMA SentencesAre ==
    ASSUME NEW words \in Sentences
    PROVE  \E upper : IsSentence(words, upper)
<1>1. ASSUME NEW name \in Fitting, words = <<name>>
      PROVE  IsSentence(words, <<Upper(name)>>)
  <2>1. PICK up, upper : up = Upper(name) /\ upper = <<up>>
    OBVIOUS
  <2>2. up \in Fitting /\ Upper(up) = up
    BY <2>1, UpperIs
  <2>3. IsCommand(words) /\ IsCommand(upper)
    BY <1>1, <2>1, <2>2, OneWordCommand
  <2>4. words # <<>> /\ words \in Seq(Seq(Letters))
    BY <1>1 DEF Fitting
  <2>5. Head(words) = name /\ words[1] = name /\ Tail(words) = <<>>
    BY <1>1
  <2>6. Head(upper) = up /\ Tail(upper) = <<>>
    BY <2>1
  <2>7. AsCommand(words) = [name |-> up, args |-> <<>>]
    BY <2>1, <2>5 DEF AsCommand
  <2>8. AsCommand(upper) = [name |-> up, args |-> <<>>]
    BY <2>2, <2>6 DEF AsCommand
  <2>9. Encode(AsCommand(words)) = Array(upper)
    <3>1. PICK command : command = AsCommand(words)
      OBVIOUS
    <3>2. command.name = up /\ command.args = <<>>
      BY <2>7, <3>1
    <3>3. <<up>> \o <<>> = upper
      BY <2>1
    <3>4. QED
      BY <3>1, <3>2, <3>3 DEF Encode
  <2>10. QED
    BY <2>1, <2>3, <2>4, <2>5, <2>7, <2>8, <2>9 DEF IsSentence
<1>2. ASSUME NEW name \in Fitting, NEW arg \in Fitting, words = <<name, arg>>
      PROVE  IsSentence(words, <<Upper(name), arg>>)
  <2>1. PICK up, upper, args : up = Upper(name) /\ upper = <<up, arg>> /\ args = <<arg>>
    OBVIOUS
  <2>2. up \in Fitting /\ Upper(up) = up
    BY <2>1, UpperIs
  <2>3. IsCommand(words) /\ IsCommand(upper)
    BY <1>2, <2>1, <2>2, TwoWordCommand
  <2>4. words # <<>> /\ words \in Seq(Seq(Letters))
    BY <1>2 DEF Fitting
  <2>5. Head(words) = name /\ words[1] = name /\ Tail(words) = args
    BY <1>2, <2>1, PairTail
  <2>6. Head(upper) = up /\ Tail(upper) = args
    BY <2>1, PairTail
  <2>7. AsCommand(words) = [name |-> up, args |-> args]
    BY <2>1, <2>5 DEF AsCommand
  <2>8. AsCommand(upper) = [name |-> up, args |-> args]
    BY <2>2, <2>6 DEF AsCommand
  <2>9. Encode(AsCommand(words)) = Array(upper)
    <3>1. PICK command : command = AsCommand(words)
      OBVIOUS
    <3>2. command.name = up /\ command.args = args
      BY <2>7, <3>1
    <3>3. <<up>> \o <<arg>> = upper
      BY <2>1, PairJoined
    <3>4. QED
      BY <2>1, <3>1, <3>2, <3>3 DEF Encode
  <2>10. QED
    BY <2>1, <2>3, <2>4, <2>5, <2>7, <2>8, <2>9 DEF IsSentence
<1>3. \/ \E name \in Names : words = <<name>>
      \/ \E name \in Names, arg \in Words : words = <<name, arg>>
  BY DEF Sentences
<1>4. \A name \in Names : name \in Fitting
  BY WordsFit DEF Names
<1>5. QED
  BY <1>1, <1>2, <1>3, <1>4, WordsFit

LEMMA CommandsWhole == CommandsAreWhole
<1>1. SUFFICES ASSUME NEW words \in Sentences, NEW follower \in {<<>>, Bulk(<<"a">>)},
                      NEW reading, reading = ReadCommand(Array(words) \o follower)
               PROVE  /\ reading = Taken([name |-> Upper(words[1]), args |-> Tail(words)], follower)
                      /\ ReadCommand(Encode(reading.result) \o follower) = reading
                      /\ <<>> \notin ToSet(words) =>
                             ReadCommand(<<Inline(words)>> \o follower) = reading
                      /\ FailsWhenCut(Array(words), ReadCommand)
  BY DEF CommandsAreWhole
<1>2. PICK upper : IsSentence(words, upper)
  BY SentencesAre
<1>3. IsCommand(words) /\ IsCommand(upper)
  BY <1>2 DEF IsSentence
<1>4. follower \in Sockets
  <2>1. PICK word : word = <<"a">>
    OBVIOUS
  <2>2. word \in Seq(Letters) /\ Len(word) = 1
    BY <2>1, LettersAre
  <2>3. word \in Fitting
    BY <2>2, RespAssumption DEF Fitting
  <2>4. Bulk(word) \in Sockets
    BY <2>3, BulkIs
  <2>5. <<>> \in Sockets
    BY DEF Sockets
  <2>6. QED
    BY <2>1, <2>4, <2>5
<1>5. PICK command : command = AsCommand(words)
  OBVIOUS
<1>6. reading = Taken(command, follower)
  BY <1>1, <1>3, <1>4, <1>5 DEF IsCommand
<1>7. command = [name |-> Upper(words[1]), args |-> Tail(words)]
  BY <1>2, <1>5 DEF IsSentence
<1>8. reading.result = command
  BY <1>6, TakenIs
<1>9. ReadCommand(Encode(command) \o follower) = reading
  <2>1. ReadCommand(Array(upper) \o follower) = Taken(AsCommand(upper), follower)
    BY <1>3, <1>4 DEF IsCommand
  <2>2. Encode(command) = Array(upper) /\ AsCommand(upper) = command
    BY <1>2, <1>5 DEF IsSentence
  <2>3. QED
    BY <1>6, <2>1, <2>2
<1>10. ReadCommand(<<Inline(words)>> \o follower) = reading
  <2>1. words # <<>> /\ words \in Seq(Seq(Letters))
    BY <1>2 DEF IsSentence
  <2>2. QED
    BY <1>4, <1>5, <1>6, <2>1, InlineRead
<1>11. FailsWhenCut(Array(words), ReadCommand)
  BY <1>3, NoCommandCut
<1>12. QED
  BY <1>6, <1>7, <1>8, <1>9, <1>10, <1>11

\* The adapter takes one whole reply for every command, however deeply the reply
\* nests and however much of the stream follows it, forwards it as it came and
\* reports what the server meant; the server is asked what is observed, however
\* the client framed it; and nothing cut off counts (read_reply, read_command).
THEOREM FramesAlwaysWhole == Spec => []FramesAreWhole
<1>1. FramesAreWhole
  BY RepliesWhole, NoReplyCut, CommandsWhole DEF FramesAreWhole
<1>2. QED
  BY <1>1, PTL
=============================================================================
