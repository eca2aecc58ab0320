---------------------------- MODULE ReplayProofs ----------------------------
(***************************************************************************)
(* What a connection is answered, and what a replay's verdict means, for   *)
(* every number of connections, forks and kinds, every seed and every set  *)
(* of neutralised decisions.                                               *)
(***************************************************************************)
EXTENDS Replaying, FiniteSetTheorems, SequenceTheorems, TLAPS

\* The answers a source gives, and the forks a task may be at.
Answers == {[key |-> key, decision |-> Lookup(source, key)] : key \in Key}
Records == {[proxy |-> proxy, key |-> key, decision |-> Lookup(source, key)] :
               proxy \in Proxies, key \in Key}
Fork == [key : [kind : AllKinds, connection : Nat, ordinal : Nat],
         decision : {Neutral} \cup {source[key] : key \in DOMAIN source}]

Count(answers, kind) == Promise!Passed(answers, kind)

\* A connection's counter is how many forks of the kind it went through, and
\* one more while it is at one.
Pending(task, kind) == AtFork(task) /\ fork[task].key.kind = kind
CountsAreForks ==
    \A task \in Tasks, kind \in AllKinds :
        counters[task[1]][<<kind, task[2]>>] =
            Count(took[task], kind) + (IF Pending(task, kind) THEN 1 ELSE 0)

\* So the fork it is at is the next one.
ForkIsNext ==
    \A task \in Tasks : AtFork(task) =>
        LET key == fork[task].key
        IN  /\ key.connection = task[2]
            /\ key.ordinal = Count(took[task], key.kind)
            /\ (key.kind = "connection") <=> (took[task] = <<>>)
            /\ pc[task] = "answered" => fork[task].decision = Lookup(source, key)

\* The forks behind it are all those before.
OrdinalsOf(answers, kind) ==
    {answers[i].key.ordinal : i \in {j \in DOMAIN answers : answers[j].key.kind = kind}}
NoneSkipped(answers) ==
    \A kind \in AllKinds : OrdinalsOf(answers, kind) = 0 .. Count(answers, kind) - 1
TookInOrder ==
    \A task \in Tasks :
        /\ \A i \in DOMAIN took[task] : took[task][i].key.connection = task[2]
        /\ NoneSkipped(took[task])

\* Where a task is says what it has been through.
StagesAreForks ==
    \A task \in Tasks :
        /\ pc[task] \in {"none", "accepted"} => took[task] = <<>>
        /\ pc[task] = "serving" => took[task] # <<>>
        /\ pc[task] # "ended" => Promise!Open(took[task])
        /\ task[2] > connections[task[1]] => pc[task] = "none"

Typed ==
    /\ TypeOK
    /\ fork \in [Tasks -> Fork]
    /\ took \in [Tasks -> Seq(Answers)]
    /\ trace \in Seq(Records)
    /\ unmatched \in Seq(Key)

\* What one run needs to keep the promise.
RunInv == Typed /\ CountsAreForks /\ ForkIsNext /\ TookInOrder /\ StagesAreForks

\* The recorder's log is what the connections carried out, and a proxy reaches
\* a key once.
Elements(list) == {list[i] : i \in DOMAIN list}
Entry(task, answer) ==
    [proxy |-> task[1], key |-> answer.key, decision |-> answer.decision]
TraceIsTook ==
    Elements(trace) =
        UNION {{Entry(task, answer) : answer \in Forked(took, task)} : task \in Tasks}
KeysOnce ==
    \A i, j \in DOMAIN trace :
        trace[i].proxy = trace[j].proxy /\ trace[i].key = trace[j].key => i = j

\* What a replay tells its source was asked for is what its connections asked.
AsksFor(task, key) ==
    \/ \E answer \in Forked(took, task) : answer.key = key
    \/ pc[task] = "answered" /\ fork[task].key = key
Asked == {key \in Key : \E task \in Tasks : AsksFor(task, key)}
LogsAreAsked == used \cup Elements(unmatched) = Asked

\* What a replay was given is the recording, less what was neutralised.
GivenTheRecording ==
    /\ DOMAIN source =
           UNION {{answer.key : answer \in Forked(original, task)} : task \in Tasks}
    /\ \A task \in Tasks :
           /\ NoneSkipped(original[task])
           /\ \A answer \in Forked(original, task) :
                  /\ answer = [key |-> answer.key, decision |-> answer.decision]
                  /\ answer.key \in Key
                  /\ answer.key.connection = task[2]
                  /\ source[answer.key] =
                         IF answer.key \in removed THEN Neutral ELSE answer.decision

\* What the replay of one proxy's run needs for its verdict to be right.
ReplayInv ==
    /\ RunInv
    /\ TraceIsTook /\ KeysOnce /\ LogsAreAsked
    /\ phase \in {"recording", "replaying", "reported"}
    /\ phase = "reported" => Over
    /\ phase # "recording" => GivenTheRecording

-----------------------------------------------------------------------------

\* The two modules mean the same by the size of a set.
LEMMA SameCardinality == \A set : Promise!Cardinality(set) = Cardinality(set)
<1>1. QED
  BY DEF Promise!Cardinality, Cardinality

\* How many forks of a kind a connection went through is a number.
LEMMA CountIsNat ==
    ASSUME NEW S, NEW answers \in Seq(S), NEW kind
    PROVE  Count(answers, kind) \in Nat
<1> DEFINE at == {i \in DOMAIN answers : answers[i].key.kind = kind}
<1>1. IsFiniteSet(DOMAIN answers)
  BY LenProperties, FS_Interval
<1>2. IsFiniteSet(at)
  BY <1>1, FS_Subset
<1>3. QED
  BY <1>2, FS_CardinalityType, SameCardinality DEF Count, Promise!Passed

\* One more fork is one more of its own kind.
LEMMA CountAppend ==
    ASSUME NEW S, NEW answers \in Seq(S), NEW answer \in S, NEW kind
    PROVE  Count(Append(answers, answer), kind) =
               Count(answers, kind) + (IF answer.key.kind = kind THEN 1 ELSE 0)
<1> DEFINE at(list) == {i \in DOMAIN list : list[i].key.kind = kind}
           longer == Append(answers, answer)
           new == Len(answers) + 1
<1>1. /\ Len(answers) \in Nat
      /\ DOMAIN answers = 1 .. Len(answers) /\ DOMAIN longer = 1 .. new
      /\ \A i \in DOMAIN answers : longer[i] = answers[i]
      /\ longer[new] = answer
  BY AppendProperties, LenProperties
<1>2. IsFiniteSet(at(answers)) /\ new \notin at(answers)
  <2>1. IsFiniteSet(DOMAIN answers)
    BY <1>1, FS_Interval
  <2>2. IsFiniteSet(at(answers))
    BY <2>1, FS_Subset
  <2>3. new \notin at(answers)
    BY <1>1
  <2>4. QED
    BY <2>2, <2>3
<1>3. at(longer) = IF answer.key.kind = kind THEN at(answers) \cup {new} ELSE at(answers)
  BY <1>1
<1>4. Cardinality(at(answers)) \in Nat
  BY <1>2, FS_CardinalityType
<1>5. Cardinality(at(longer)) =
          Cardinality(at(answers)) + (IF answer.key.kind = kind THEN 1 ELSE 0)
  <2> HIDE DEF at, new
  <2>1. Cardinality(at(answers) \cup {new}) = Cardinality(at(answers)) + 1
    BY <1>2, FS_AddElement
  <2>2. CASE answer.key.kind = kind
    BY <1>3, <2>1, <2>2
  <2>3. CASE answer.key.kind # kind
    BY <1>3, <1>4, <2>3
  <2>4. QED
    BY <2>2, <2>3
<1>6. QED
  BY <1>5, SameCardinality DEF Count, Promise!Passed

\* A connection starts with none.
LEMMA CountOfNone == \A kind : Count(<<>>, kind) = 0
<1>1. \A kind : {i \in DOMAIN <<>> : <<>>[i].key.kind = kind} = {}
  OBVIOUS
<1>2. QED
  BY <1>1, FS_EmptySet, SameCardinality DEF Count, Promise!Passed

\* Going through the next fork of a kind skips none.
LEMMA NoneSkippedNext ==
    ASSUME NEW S, NEW answers \in Seq(S), NEW answer \in S,
           NoneSkipped(answers),
           answer.key.kind \in AllKinds,
           answer.key.ordinal = Count(answers, answer.key.kind)
    PROVE  NoneSkipped(Append(answers, answer))
<1> DEFINE longer == Append(answers, answer)
<1>1. ASSUME NEW kind \in AllKinds
      PROVE  OrdinalsOf(longer, kind) = 0 .. Count(longer, kind) - 1
  <2>1. /\ Len(answers) \in Nat
        /\ DOMAIN answers = 1 .. Len(answers)
        /\ DOMAIN longer = 1 .. Len(answers) + 1
        /\ \A i \in DOMAIN answers : longer[i] = answers[i]
        /\ longer[Len(answers) + 1] = answer
    BY AppendProperties, LenProperties
  <2>2. OrdinalsOf(longer, kind) =
            OrdinalsOf(answers, kind)
                \cup (IF answer.key.kind = kind THEN {answer.key.ordinal} ELSE {})
    BY <2>1 DEF OrdinalsOf
  <2>3. Count(answers, kind) \in Nat
    BY CountIsNat
  <2>4. Count(longer, kind) =
            Count(answers, kind) + (IF answer.key.kind = kind THEN 1 ELSE 0)
    BY CountAppend
  <2>5. OrdinalsOf(answers, kind) = 0 .. Count(answers, kind) - 1
    BY DEF NoneSkipped
  <2> HIDE DEF longer
  <2>6. CASE answer.key.kind = kind
    BY <2>2, <2>3, <2>4, <2>5, <2>6
  <2>7. CASE answer.key.kind # kind
    BY <2>2, <2>3, <2>4, <2>5, <2>7
  <2>8. QED
    BY <2>6, <2>7
<1>2. QED
  BY <1>1 DEF NoneSkipped

\* Nothing is skipped by who has gone nowhere.
LEMMA NoneSkippedAtStart == NoneSkipped(<<>>)
<1>1. \A kind : OrdinalsOf(<<>>, kind) = {}
  BY DEF OrdinalsOf
<1>2. 0 .. 0 - 1 = {}
  OBVIOUS
<1>3. \A kind : OrdinalsOf(<<>>, kind) = 0 .. Count(<<>>, kind) - 1
  BY <1>1, <1>2, CountOfNone, Zenon
<1>4. QED
  BY <1>3 DEF NoneSkipped

\* Appending adds one element.
LEMMA ElementsAppend ==
    ASSUME NEW S, NEW list \in Seq(S), NEW element \in S
    PROVE  Elements(Append(list, element)) = Elements(list) \cup {element}
<1> DEFINE longer == Append(list, element)
<1>1. /\ Len(list) \in Nat
      /\ DOMAIN list = 1 .. Len(list) /\ DOMAIN longer = 1 .. Len(list) + 1
      /\ \A i \in DOMAIN list : longer[i] = list[i]
      /\ longer[Len(list) + 1] = element
  BY AppendProperties, LenProperties
<1> HIDE DEF longer
<1>2. DOMAIN longer = DOMAIN list \cup {Len(list) + 1}
  BY <1>1
<1>3. QED
  BY <1>1, <1>2 DEF longer, Elements

\* A task is a proxy and the number of one of its connections.
LEMMA TaskParts ==
    ASSUME NEW task \in Tasks
    PROVE  /\ task = <<task[1], task[2]>>
           /\ task[1] \in Proxies /\ task[2] \in Connections /\ task[2] \in Nat
<1>1. QED
  BY MaxConnectionsAssumption DEF Tasks, Connections

-----------------------------------------------------------------------------

\* Every run starts with nothing behind it.
LEMMA RunStarts ==
    ASSUME InitRun, DOMAIN source \subseteq Key
    PROVE  RunInv
<1> USE DEF InitRun
<1>1. Typed
  <2>1. NoFork \in Fork
    BY DEF NoFork, PointKey, Fork, AllKinds
  <2>2. TypeOK
    BY MaxForksAssumption DEF TypeOK, Stages, AtFork
  <2>3. QED
    BY <2>1, <2>2 DEF Typed
<1>2. CountsAreForks
  BY TaskParts, CountOfNone DEF CountsAreForks, Pending, AtFork
<1>3. ForkIsNext
  BY DEF ForkIsNext, AtFork
<1>4. TookInOrder
  BY NoneSkippedAtStart DEF TookInOrder
<1>5. StagesAreForks
  BY TaskParts DEF StagesAreForks, Promise!Open
<1>6. QED
  BY <1>1, <1>2, <1>3, <1>4, <1>5 DEF RunInv

\* Within a run the source stays, and with it what it can answer.
LEMMA SourceStays ==
    ASSUME source' = source
    PROVE  Answers' = Answers /\ Fork' = Fork /\ Records' = Records
<1>1. QED
  BY DEF Answers, Fork, Records

\* The accept loop hands a connection to a task that has been nowhere.
LEMMA AcceptKeeps ==
    ASSUME RunInv, NEW proxy \in Proxies, Accept(proxy)
    PROVE  RunInv'
<1> DEFINE new == <<proxy, connections[proxy] + 1>>
<1> USE DEF RunInv, Accept
<1>1. /\ new \in Tasks /\ pc[new] = "none"
      /\ pc' = [pc EXCEPT ![new] = "accepted"]
      /\ connections[proxy] \in Nat
  BY TaskParts DEF Tasks, StagesAreForks, Typed, TypeOK
<1>2. \A task \in Tasks : AtFork(task)' <=> AtFork(task)
  BY <1>1 DEF AtFork, Typed, TypeOK
<1> HIDE DEF new
<1>3. Typed'
  <2>1. TypeOK'
    <3>1. pc' \in [Tasks -> Stages]
      BY <1>1 DEF Typed, TypeOK, Stages
    <3>2. connections' \in [Proxies -> Nat]
      BY <1>1 DEF Typed, TypeOK
    <3>3. \A task \in Tasks : AtFork(task)' => fork'[task].key \in Key
      BY <1>2 DEF Typed, TypeOK
    <3>4. QED
      BY <3>1, <3>2, <3>3 DEF Typed, TypeOK
  <2>2. QED
    BY <2>1, SourceStays DEF Typed
<1>4. CountsAreForks'
  BY <1>2 DEF CountsAreForks, Pending
<1>5. ForkIsNext'
  BY <1>1, <1>2 DEF ForkIsNext, Typed, TypeOK
<1>6. TookInOrder'
  BY DEF TookInOrder
<1>7. StagesAreForks'
  <2>1. ASSUME NEW task \in Tasks
        PROVE  /\ pc'[task] \in {"none", "accepted"} => took'[task] = <<>>
               /\ pc'[task] = "serving" => took'[task] # <<>>
               /\ pc'[task] # "ended" => Promise!Open(took'[task])
    BY <1>1 DEF StagesAreForks, Typed, TypeOK
  <2>2. ASSUME NEW task \in Tasks, task[2] > connections'[task[1]]
        PROVE  pc'[task] = "none"
    <3>1. task # new /\ task[2] > connections[task[1]]
      BY <1>1, <2>2, TaskParts DEF Typed, TypeOK, new
    <3>2. QED
      BY <1>1, <3>1 DEF StagesAreForks, Typed, TypeOK
  <2>3. QED
    BY <2>1, <2>2 DEF StagesAreForks
<1>8. QED
  BY <1>3, <1>4, <1>5, <1>6, <1>7

\* A fork takes the counter as its ordinal and leaves the counter one higher.
LEMMA NumberKeeps ==
    ASSUME RunInv, NEW task \in Tasks, NEW kind \in AllKinds, Number(task, kind)
    PROVE  RunInv'
<1> DEFINE at == <<kind, task[2]>>
           count == counters[task[1]][at]
<1> USE DEF RunInv
<1>1. /\ ~AtFork(task)
      /\ at \in AllKinds \X Connections
      /\ count \in 0 .. MaxForks - 1
      /\ count = Count(took[task], kind)
      /\ fork' = [fork EXCEPT ![task] =
                     [key |-> PointKey(kind, task[2], count), decision |-> Neutral]]
      /\ counters' = [counters EXCEPT ![task[1]][at] = count + 1]
      /\ pc' = [pc EXCEPT ![task] = "numbered"]
      /\ UNCHANGED <<source, connections, trace, used, unmatched, took>>
  <2>1. ~AtFork(task) /\ at \in AllKinds \X Connections /\ task[1] \in Proxies
    BY TaskParts DEF Number, AtFork
  <2>2. count \in 0 .. MaxForks /\ count < MaxForks
    BY <2>1 DEF Typed, TypeOK, Number
  <2>3. count \in 0 .. MaxForks - 1
    BY <2>2, MaxForksAssumption
  <2>4. count = Count(took[task], kind)
    <3>1. Count(took[task], kind) \in Nat
      BY CountIsNat DEF Typed
    <3>2. QED
      BY <2>1, <3>1 DEF CountsAreForks, Pending
  <2>5. [NoFork EXCEPT !.key = PointKey(kind, task[2], count)] =
            [key |-> PointKey(kind, task[2], count), decision |-> Neutral]
    BY DEF NoFork
  <2>6. counters' = [counters EXCEPT ![task[1]][at] = count + 1]
    BY DEF Number, NextOrdinal
  <2>7. QED
    BY <2>1, <2>3, <2>4, <2>5, <2>6 DEF Number, Ordinal
<1> HIDE DEF count
<1>2. \A other \in Tasks : other # task =>
          /\ pc'[other] = pc[other] /\ fork'[other] = fork[other]
          /\ AtFork(other)' <=> AtFork(other)
  BY <1>1 DEF AtFork, Typed, TypeOK
<1>3. /\ pc'[task] = "numbered" /\ AtFork(task)'
      /\ fork'[task] = [key |-> PointKey(kind, task[2], count), decision |-> Neutral]
  BY <1>1 DEF AtFork, Typed, TypeOK
<1>4. Typed'
  <2>1. PointKey(kind, task[2], count) \in Key
    BY <1>1, TaskParts DEF PointKey, Key
  <2>2. fork' \in [Tasks -> Fork]
    BY <1>1, TaskParts DEF Typed, Fork, PointKey
  <2>3. TypeOK'
    <3>1. counters' \in [Proxies -> [AllKinds \X Connections -> 0..MaxForks]]
      <4>1. count + 1 \in 0 .. MaxForks
        BY <1>1, MaxForksAssumption
      <4>2. QED
        BY <1>1, <4>1, TaskParts DEF Typed, TypeOK
    <3>2. ASSUME NEW other \in Tasks, AtFork(other)'
          PROVE  fork'[other].key \in Key
      <4>1. CASE other = task
        BY <1>3, <2>1, <4>1
      <4>2. CASE other # task
        BY <1>2, <3>2, <4>2 DEF Typed, TypeOK
      <4>3. QED
        BY <4>1, <4>2
    <3>3. pc' \in [Tasks -> Stages]
      BY <1>1 DEF Typed, TypeOK, Stages
    <3>4. QED
      BY <1>1, <3>1, <3>2, <3>3 DEF Typed, TypeOK
  <2>4. QED
    BY <1>1, <2>2, <2>3, SourceStays DEF Typed
<1>5. CountsAreForks'
  <2>1. ASSUME NEW other \in Tasks, NEW any \in AllKinds
        PROVE  counters'[other[1]][<<any, other[2]>>] =
                   Count(took[other], any) + (IF Pending(other, any)' THEN 1 ELSE 0)
    <3>1. CASE other = task /\ any = kind
      BY <1>1, <1>3, <3>1, TaskParts DEF Typed, TypeOK, Pending, PointKey
    <3>2. CASE other # task
      <4>1. counters'[other[1]][<<any, other[2]>>] = counters[other[1]][<<any, other[2]>>]
        <5>1. other[1] # task[1] \/ other[2] # task[2]
          BY <3>2, TaskParts
        <5>2. QED
          BY <1>1, <5>1, TaskParts DEF Typed, TypeOK
      <4>2. Pending(other, any)' = Pending(other, any)
        BY <1>2, <3>2 DEF Pending
      <4>3. QED
        BY <4>1, <4>2 DEF CountsAreForks
    <3>3. CASE other = task /\ any # kind
      <4>1. counters'[other[1]][<<any, other[2]>>] = counters[other[1]][<<any, other[2]>>]
        BY <1>1, <3>3, TaskParts DEF Typed, TypeOK
      <4>2. ~Pending(other, any)' /\ ~Pending(other, any)
        BY <1>1, <1>3, <3>3 DEF Pending, PointKey
      <4>3. QED
        BY <4>1, <4>2 DEF CountsAreForks
    <3>4. QED
      BY <3>1, <3>2, <3>3
  <2>2. QED
    BY <1>1, <2>1 DEF CountsAreForks
<1>6. ForkIsNext'
  <2>1. (kind = "connection") <=> (took[task] = <<>>)
    BY KindsAssumption DEF Number, StagesAreForks
  <2>2. ASSUME NEW other \in Tasks, AtFork(other)'
        PROVE  LET key == fork'[other].key
               IN  /\ key.connection = other[2]
                   /\ key.ordinal = Count(took[other], key.kind)
                   /\ (key.kind = "connection") <=> (took[other] = <<>>)
                   /\ pc'[other] = "answered" => fork'[other].decision = Lookup(source, key)
    <3>1. CASE other = task
      BY <1>1, <1>3, <2>1, <3>1 DEF PointKey
    <3>2. CASE other # task
      BY <1>2, <2>2, <3>2 DEF ForkIsNext
    <3>3. QED
      BY <3>1, <3>2
  <2>3. QED
    BY <1>1, <2>2 DEF ForkIsNext, Lookup
<1>7. TookInOrder'
  BY <1>1 DEF TookInOrder
<1>8. StagesAreForks'
  <2>1. pc[task] \in {"accepted", "serving"}
    BY DEF Number
  <2>2. QED
    BY <1>1, <1>2, <1>3, <2>1 DEF StagesAreForks
<1>9. QED
  BY <1>4, <1>5, <1>6, <1>7, <1>8

\* The source's answer is the one the promise names.
LEMMA DecideKeeps ==
    ASSUME RunInv, NEW task \in Tasks, Decide(task)
    PROVE  RunInv'
<1> DEFINE key == fork[task].key
<1> USE DEF RunInv
<1>1. /\ pc[task] = "numbered" /\ AtFork(task) /\ key \in Key
      /\ fork' = [fork EXCEPT ![task] = [key |-> key, decision |-> Lookup(source, key)]]
      /\ pc' = [pc EXCEPT ![task] = "answered"]
      /\ UNCHANGED <<source, connections, counters, trace, took>>
  <2>1. pc[task] = "numbered" /\ AtFork(task) /\ key \in Key
    BY DEF Decide, AtFork, Typed, TypeOK
  <2>2. fork \in [Tasks -> Fork] /\ fork[task] \in Fork
    BY DEF Typed
  <2>3. [fork[task] EXCEPT !.decision = Lookup(source, key)] =
            [key |-> key, decision |-> Lookup(source, key)]
    BY <2>2 DEF Fork
  <2>4. fork' = [fork EXCEPT ![task] = [key |-> key, decision |-> Lookup(source, key)]]
    BY <2>3 DEF Decide
  <2>5. QED
    BY <2>1, <2>4 DEF Decide
<1>2. \A other \in Tasks : other # task =>
          /\ pc'[other] = pc[other] /\ fork'[other] = fork[other]
          /\ AtFork(other)' <=> AtFork(other)
  BY <1>1 DEF AtFork, Typed, TypeOK
<1>3. /\ pc'[task] = "answered" /\ AtFork(task)'
      /\ fork'[task] = [key |-> key, decision |-> Lookup(source, key)]
  BY <1>1 DEF AtFork, Typed, TypeOK
<1>4. \A other \in Tasks : (AtFork(other)' <=> AtFork(other)) /\ fork'[other].key = fork[other].key
  BY <1>1, <1>2, <1>3
<1>5. Typed'
  <2>1. fork' \in [Tasks -> Fork]
    <3>1. key \in [kind : AllKinds, connection : Nat, ordinal : Nat]
      BY DEF Typed, Fork
    <3>2. Lookup(source, key) \in {Neutral} \cup {source[any] : any \in DOMAIN source}
      BY DEF Lookup
    <3>3. QED
      BY <1>1, <3>1, <3>2 DEF Typed, Fork
  <2>2. TypeOK' /\ unmatched' \in Seq(Key)
    <3>1. pc' \in [Tasks -> Stages]
      BY <1>1 DEF Typed, TypeOK, Stages
    <3>2. \A other \in Tasks : AtFork(other)' => fork'[other].key \in Key
      BY <1>4 DEF Typed, TypeOK
    <3>3. CASE key \in DOMAIN source
      <4>1. unmatched' = unmatched /\ used' = used \cup {key}
        BY <3>3 DEF Decide
      <4>2. QED
        BY <1>1, <3>1, <3>2, <3>3, <4>1 DEF Typed, TypeOK
    <3>4. CASE key \notin DOMAIN source
      <4>1. unmatched' = Append(unmatched, key) /\ used' = used
        BY <3>4 DEF Decide
      <4>2. /\ unmatched' \in Seq(Key)
            /\ \A i \in DOMAIN unmatched' : unmatched'[i] \in Key \ DOMAIN source
        BY <1>1, <3>4, <4>1, AppendProperties, LenProperties DEF Typed, TypeOK
      <4>3. QED
        BY <1>1, <3>1, <3>2, <4>1, <4>2 DEF Typed, TypeOK
    <3>5. QED
      BY <3>3, <3>4
  <2>3. QED
    BY <1>1, <2>1, <2>2, SourceStays DEF Typed
<1>6. CountsAreForks'
  <2>1. \A other \in Tasks, kind \in AllKinds : Pending(other, kind)' <=> Pending(other, kind)
    BY <1>4 DEF Pending
  <2>2. QED
    BY <1>1, <2>1 DEF CountsAreForks
<1>7. ForkIsNext'
  BY <1>1, <1>2, <1>3, <1>4 DEF ForkIsNext
<1>8. TookInOrder'
  BY <1>1 DEF TookInOrder
<1>9. StagesAreForks'
  BY <1>1, <1>2, <1>3 DEF StagesAreForks
<1>10. QED
  BY <1>5, <1>6, <1>7, <1>8, <1>9

\* Recording moves the fork behind the connection, and the next is the one after.
LEMMA RecordKeeps ==
    ASSUME RunInv, NEW task \in Tasks, Record(task)
    PROVE  RunInv'
<1> DEFINE answer == fork[task]
           key == answer.key
<1> USE DEF RunInv
<1>1. /\ pc[task] = "answered" /\ AtFork(task) /\ key \in Key
      /\ answer = [key |-> key, decision |-> Lookup(source, key)]
      /\ answer \in Answers
      /\ took[task] \in Seq(Answers)
      /\ key.ordinal = Count(took[task], key.kind) /\ key.connection = task[2]
      /\ key.kind \in AllKinds
  BY DEF Record, AtFork, Typed, TypeOK, Fork, ForkIsNext, Answers, Key
<1>2. /\ took' = [took EXCEPT ![task] = Append(took[task], answer)]
      /\ UNCHANGED <<source, connections, counters, fork, used, unmatched>>
  BY DEF Record
<1>3. /\ pc'[task] \in {"serving", "ended"}
      /\ answer.decision = "close" => pc'[task] = "ended"
      /\ pc' \in [Tasks -> Stages]
      /\ \A other \in Tasks : other # task => pc'[other] = pc[other]
  BY DEF Record, Typed, TypeOK, Stages
<1>4. /\ took'[task] = Append(took[task], answer)
      /\ \A other \in Tasks : other # task => took'[other] = took[other]
  BY <1>2 DEF Typed
<1>5. /\ ~AtFork(task)'
      /\ \A other \in Tasks : other # task => (AtFork(other)' <=> AtFork(other))
  BY <1>3 DEF AtFork
<1>6. /\ Len(took[task]) \in Nat
      /\ DOMAIN took[task] = 1 .. Len(took[task])
      /\ DOMAIN took'[task] = 1 .. Len(took[task]) + 1
      /\ \A i \in DOMAIN took[task] : took'[task][i] = took[task][i]
      /\ took'[task][Len(took[task]) + 1] = answer
  BY <1>1, <1>4, AppendProperties, LenProperties
<1> HIDE DEF answer, key
<1>7. Typed'
  <2>1. took' \in [Tasks -> Seq(Answers)]
    BY <1>1, <1>2, AppendProperties DEF Typed
  <2>2. /\ trace' \in Seq(Records)
        /\ \A i \in DOMAIN trace' : trace'[i].proxy \in Proxies /\ trace'[i].key \in Key
    <3> DEFINE record == [proxy |-> task[1], key |-> key, decision |-> Lookup(source, key)]
    <3>1. trace' = Append(trace, record) /\ record \in Records
      BY <1>1, TaskParts DEF Record, Records, answer, key
    <3>2. trace' \in Seq(Records)
      BY <3>1, AppendProperties DEF Typed
    <3>3. \A any \in Records : any.proxy \in Proxies /\ any.key \in Key
      BY DEF Records
    <3>4. QED
      BY <3>2, <3>3, ElementOfSeq, LenProperties
  <2>3. \A other \in Tasks : AtFork(other)' => fork'[other].key \in Key
    BY <1>2, <1>5 DEF Typed, TypeOK
  <2>4. QED
    BY <1>2, <1>3, <2>1, <2>2, <2>3, SourceStays DEF Typed, TypeOK
<1>8. CountsAreForks'
  <2>1. ASSUME NEW other \in Tasks, NEW kind \in AllKinds
        PROVE  counters[other[1]][<<kind, other[2]>>] =
                   Count(took'[other], kind) + (IF Pending(other, kind)' THEN 1 ELSE 0)
    <3>1. CASE other # task
      <4>1. Pending(other, kind)' <=> Pending(other, kind)
        BY <1>2, <1>5, <3>1 DEF Pending
      <4>2. QED
        BY <1>4, <3>1, <4>1 DEF CountsAreForks
    <3>2. CASE other = task
      <4>1. Count(took'[task], kind) =
                Count(took[task], kind) + (IF key.kind = kind THEN 1 ELSE 0)
        BY <1>1, <1>4, CountAppend DEF key
      <4>2. Pending(task, kind) <=> key.kind = kind
        BY <1>1 DEF Pending, key, answer
      <4>3. ~Pending(task, kind)'
        BY <1>5 DEF Pending
      <4>4. Count(took[task], kind) \in Nat
        BY <1>1, CountIsNat
      <4>5. QED
        BY <3>2, <4>1, <4>2, <4>3, <4>4 DEF CountsAreForks
    <3>3. QED
      BY <3>1, <3>2
  <2>2. QED
    BY <1>2, <2>1 DEF CountsAreForks
<1>9. ForkIsNext'
  BY <1>2, <1>3, <1>4, <1>5 DEF ForkIsNext, AtFork
<1>10. TookInOrder'
  <2>1. NoneSkipped(took'[task])
    BY <1>1, <1>4, NoneSkippedNext DEF TookInOrder, key
  <2>2. \A i \in DOMAIN took'[task] : took'[task][i].key.connection = task[2]
    BY <1>1, <1>6 DEF TookInOrder, key
  <2>3. QED
    BY <1>4, <2>1, <2>2 DEF TookInOrder
<1>11. StagesAreForks'
  <2>1. took'[task] # <<>>
    BY <1>6
  <2>2. pc'[task] # "ended" => Promise!Open(took'[task])
    BY <1>1, <1>3, <1>6 DEF StagesAreForks, Promise!Open
  <2>3. QED
    BY <1>1, <1>2, <1>3, <1>4, <2>1, <2>2 DEF StagesAreForks
<1>12. QED
  BY <1>7, <1>8, <1>9, <1>10, <1>11

\* A client that goes away changes nothing but where its task is.
LEMMA LeaveKeeps ==
    ASSUME RunInv, NEW task \in Tasks, Leave(task)
    PROVE  RunInv'
<1> USE DEF RunInv, Leave
<1>1. /\ pc'[task] = "ended" /\ pc' \in [Tasks -> Stages]
      /\ \A other \in Tasks : other # task => pc'[other] = pc[other]
  BY DEF Typed, TypeOK, Stages
<1>2. \A other \in Tasks : AtFork(other)' <=> AtFork(other)
  BY <1>1 DEF AtFork
<1>3. Typed'
  BY <1>1, <1>2, SourceStays DEF Typed, TypeOK
<1>4. CountsAreForks'
  BY <1>2 DEF CountsAreForks, Pending
<1>5. ForkIsNext'
  BY <1>1, <1>2 DEF ForkIsNext
<1>6. TookInOrder'
  BY DEF TookInOrder
<1>7. StagesAreForks'
  BY <1>1 DEF StagesAreForks
<1>8. QED
  BY <1>3, <1>4, <1>5, <1>6, <1>7

\* A replay's map has the keys of the trace, neutralised or not.
LEMMA GivenKeys ==
    ASSUME NEW keys
    PROVE  DOMAIN DecisionsOf(Without(trace, keys)) = {trace[i].key : i \in DOMAIN trace}
<1>1. DOMAIN Without(trace, keys) = DOMAIN trace
  BY DEF Without
<1>2. \A i \in DOMAIN trace : Without(trace, keys)[i].key = trace[i].key
  BY DEF Without
<1>3. QED
  BY <1>1, <1>2 DEF DecisionsOf

\* A replay starts where every run starts, its source keyed by the trace.
LEMMA ReplayStarts ==
    ASSUME RunInv, StartReplay
    PROVE  RunInv'
<1>1. InitRun'
  BY DEF StartReplay, InitRun
<1>2. DOMAIN source' \subseteq Key
  <2>1. \A i \in DOMAIN trace : trace[i].key \in Key
    BY DEF RunInv, Typed, TypeOK
  <2>2. PICK keys : source' = DecisionsOf(Without(trace, keys))
    BY DEF StartReplay
  <2>3. QED
    BY <2>1, <2>2, GivenKeys
<1>3. (InitRun /\ DOMAIN source \subseteq Key => RunInv)'
  BY RunStarts, PTL
<1>4. QED
  BY <1>1, <1>2, <1>3

\* What one run needs holds throughout a recording and its replay.
LEMMA RunInvariant == SpecReplaying => []RunInv
<1>1. InitReplaying => RunInv
  BY RunStarts, SeedsAssumption DEF InitReplaying
<1>2. RunInv /\ [NextReplaying]_allVars => RunInv'
  <2> SUFFICES ASSUME RunInv, [NextReplaying]_allVars
               PROVE  RunInv'
    OBVIOUS
  <2>1. CASE Running
    BY <2>1, AcceptKeeps, NumberKeeps, DecideKeeps, RecordKeeps, LeaveKeeps
    DEF Running, NextRun
  <2>2. CASE StartReplay
    BY <2>2, ReplayStarts
  <2>3. CASE UNCHANGED vars
    <3>1. Typed'
      BY <2>3, SourceStays DEF vars, RunInv, Typed, TypeOK, AtFork
    <3>2. CountsAreForks'
      BY <2>3 DEF vars, RunInv, CountsAreForks, Pending, AtFork
    <3>3. ForkIsNext'
      BY <2>3 DEF vars, RunInv, ForkIsNext, AtFork
    <3>4. TookInOrder' /\ StagesAreForks'
      BY <2>3 DEF vars, RunInv, TookInOrder, StagesAreForks
    <3>5. QED
      BY <3>1, <3>2, <3>3, <3>4 DEF RunInv
  <2>4. QED
    BY <2>1, <2>2, <2>3 DEF NextReplaying, Report, allVars
<1>3. QED
  BY <1>1, <1>2, PTL DEF SpecReplaying

-----------------------------------------------------------------------------

\* Every variable holds what the code's types allow, throughout.
THEOREM TypeCorrect == SpecReplaying => []TypeOK
<1>1. RunInv => TypeOK
  BY DEF RunInv, Typed
<1>2. QED
  BY <1>1, RunInvariant, PTL

\* What a connection is answered depends on nothing but the source and its own
\* forks: Forks, with its three steps per fork and its shared recorder, is the
\* schedule that answers each fork in one step.
THEOREM PromiseKept == SpecReplaying => KeepsPromise
<1>1. InitReplaying => Promise!Init
  BY DEF InitReplaying, InitRun, Promise!Init, Promise!Tasks, Promise!Connections,
         Tasks, Connections
<1>2. RunInv /\ [NextReplaying]_allVars => [Promise!Next]_<<source, took>>
  <2> SUFFICES ASSUME RunInv, [NextReplaying]_allVars
               PROVE  Promise!Next \/ UNCHANGED <<source, took>>
    OBVIOUS
  <2>1. Promise!Tasks = Tasks /\ Promise!AllKinds = AllKinds
    BY DEF Promise!Tasks, Promise!Connections, Promise!AllKinds, Tasks, Connections, AllKinds
  <2>2. ASSUME NEW task \in Tasks, Record(task)
        PROVE  Promise!Next
    <3> DEFINE key == fork[task].key
               kind == key.kind
    <3>1. /\ AtFork(task) /\ pc[task] = "answered"
          /\ fork[task] \in Fork /\ kind \in AllKinds
          /\ key.connection = task[2] /\ key.ordinal = Count(took[task], kind)
          /\ (kind = "connection") <=> (took[task] = <<>>)
          /\ fork[task].decision = Lookup(source, key)
      BY <2>2 DEF Record, RunInv, Typed, AtFork, Fork, ForkIsNext
    <3>2. key = Promise!PointKey(kind, task[2], Promise!Passed(took[task], kind))
      BY <3>1 DEF Fork, Promise!PointKey, Count
    <3>3. fork[task] = [key |-> key, decision |-> Promise!Lookup(source, key)]
      BY <3>1 DEF Fork, Promise!Lookup, Lookup
    <3>4. Promise!Open(took[task])
      BY <3>1 DEF RunInv, StagesAreForks
    <3>5. took' = [took EXCEPT ![task] = Append(@, fork[task])] /\ source' = source
      BY <2>2 DEF Record
    <3> HIDE DEF key
    <3>6. Promise!Pass(task, kind)
      BY <3>1, <3>2, <3>3, <3>4, <3>5 DEF Promise!Pass
    <3>7. QED
      BY <2>1, <3>1, <3>6 DEF Promise!Next
  <2>3. CASE Running
    BY <2>2, <2>3 DEF Running, NextRun, Accept, Number, Decide, Leave
  <2>4. CASE StartReplay
    BY <2>1, <2>4 DEF StartReplay, Promise!Next, Promise!NewRun
  <2>5. QED
    BY <2>3, <2>4 DEF NextReplaying, Report, allVars, vars
<1>3. QED
  BY <1>1, <1>2, RunInvariant, PTL DEF SpecReplaying, KeepsPromise, Promise!Spec

-----------------------------------------------------------------------------

\* With one proxy, the connection in a key names the task.
OneProxy == \A p, q \in Proxies : p = q

\* A run starts with its logs empty.
LEMMA LogsStart ==
    ASSUME InitRun
    PROVE  TraceIsTook /\ KeysOnce /\ LogsAreAsked
<1> USE DEF InitRun
<1>1. TraceIsTook /\ KeysOnce
  BY DEF TraceIsTook, KeysOnce, Elements, Forked
<1>2. LogsAreAsked
  BY DEF LogsAreAsked, Asked, AsksFor, Elements, Forked
<1>3. QED
  BY <1>1, <1>2

\* A decision is logged as asked for, held or not.
LEMMA DecideLogs ==
    ASSUME RunInv, TraceIsTook, KeysOnce, LogsAreAsked,
           NEW task \in Tasks, Decide(task)
    PROVE  TraceIsTook' /\ KeysOnce' /\ LogsAreAsked'
<1> DEFINE key == fork[task].key
<1>1. /\ key \in Key /\ AtFork(task) /\ pc[task] = "numbered"
      /\ pc' = [pc EXCEPT ![task] = "answered"]
      /\ fork'[task].key = key
      /\ \A other \in Tasks : other # task => fork'[other] = fork[other]
      /\ UNCHANGED <<trace, took, source>>
  BY DEF Decide, AtFork, RunInv, Typed, TypeOK, Fork
<1>2. used' \cup Elements(unmatched') = used \cup Elements(unmatched) \cup {key}
  <2>1. CASE key \in DOMAIN source
    BY <2>1 DEF Decide
  <2>2. CASE key \notin DOMAIN source
    <3>1. unmatched' = Append(unmatched, key) /\ used' = used
      BY <2>2 DEF Decide
    <3>2. Elements(unmatched') = Elements(unmatched) \cup {key}
      BY <1>1, <3>1, ElementsAppend DEF RunInv, Typed
    <3>3. QED
      BY <3>1, <3>2
  <2>3. QED
    BY <2>1, <2>2
<1>3. Asked' = Asked \cup {key}
  <2>1. pc'[task] = "answered" /\ \A other \in Tasks : other # task => pc'[other] = pc[other]
    BY <1>1 DEF RunInv, Typed, TypeOK
  <2>2. \A other \in Tasks : Forked(took', other) = Forked(took, other)
    BY <1>1 DEF Forked
  <2>3. QED
    BY <1>1, <2>1, <2>2 DEF Asked, AsksFor
<1>4. LogsAreAsked'
  BY <1>2, <1>3 DEF LogsAreAsked
<1>5. TraceIsTook' /\ KeysOnce'
  <2>1. \A other \in Tasks : Forked(took', other) = Forked(took, other)
    BY <1>1 DEF Forked
  <2>2. QED
    BY <1>1, <2>1 DEF TraceIsTook, KeysOnce
<1>6. QED
  BY <1>4, <1>5

\* A record enters the log as it is carried out, and is the first of its key.
LEMMA RecordLogs ==
    ASSUME RunInv, TraceIsTook, KeysOnce, LogsAreAsked,
           NEW task \in Tasks, Record(task)
    PROVE  TraceIsTook' /\ KeysOnce' /\ LogsAreAsked'
<1> DEFINE answer == fork[task]
           key == answer.key
           entry == Entry(task, answer)
<1>1. /\ key \in Key /\ pc[task] = "answered"
      /\ answer \in Answers
      /\ key.connection = task[2] /\ key.ordinal = Count(took[task], key.kind)
      /\ key.kind \in AllKinds
      /\ took[task] \in Seq(Answers)
      /\ trace \in Seq(Records) /\ entry \in Records
      /\ trace' = Append(trace, entry)
      /\ took' = [took EXCEPT ![task] = Append(took[task], answer)]
      /\ UNCHANGED <<source, fork, used, unmatched>>
  <2>1. /\ AtFork(task) /\ pc[task] = "answered" /\ answer \in Fork
        /\ key \in Key /\ took[task] \in Seq(Answers) /\ trace \in Seq(Records)
    BY DEF Record, AtFork, RunInv, Typed, TypeOK
  <2>2. /\ answer.decision = Lookup(source, key)
        /\ key.connection = task[2] /\ key.ordinal = Count(took[task], key.kind)
    BY <2>1 DEF RunInv, ForkIsNext
  <2>3. answer \in Answers /\ key.kind \in AllKinds /\ entry \in Records
    BY <2>1, <2>2, TaskParts DEF Fork, Answers, Key, Records, Entry
  <2>4. QED
    BY <2>1, <2>2, <2>3 DEF Record, Entry
<1> HIDE DEF answer, key, entry
<1>2. Forked(took', task) = Forked(took, task) \cup {answer}
  <2>1. took'[task] = Append(took[task], answer)
    BY <1>1 DEF RunInv, Typed
  <2>2. QED
    <3>1. Elements(took'[task]) = Elements(took[task]) \cup {answer}
      BY <1>1, <2>1, ElementsAppend
    <3>2. QED
      BY <3>1 DEF Forked, Elements
<1>3. \A other \in Tasks : other # task => Forked(took', other) = Forked(took, other)
  BY <1>1 DEF Forked, RunInv, Typed
<1>4. /\ Len(trace) \in Nat
      /\ DOMAIN trace = 1 .. Len(trace) /\ DOMAIN trace' = 1 .. Len(trace) + 1
      /\ \A i \in DOMAIN trace : trace'[i] = trace[i]
      /\ trace'[Len(trace) + 1] = entry
  BY <1>1, AppendProperties, LenProperties
<1>5. TraceIsTook'
  <2>1. Elements(trace') = Elements(trace) \cup {entry}
    BY <1>1, ElementsAppend
  <2>2. UNION {{Entry(other, any) : any \in Forked(took', other)} : other \in Tasks} =
            (UNION {{Entry(other, any) : any \in Forked(took, other)} : other \in Tasks})
                \cup {entry}
    BY <1>2, <1>3 DEF entry
  <2>3. QED
    BY <2>1, <2>2 DEF TraceIsTook
<1>6. \A i \in DOMAIN trace : ~(trace[i].proxy = task[1] /\ trace[i].key = key)
  <2> SUFFICES ASSUME NEW i \in DOMAIN trace, trace[i].proxy = task[1], trace[i].key = key
               PROVE  FALSE
    OBVIOUS
  <2>1. PICK other \in Tasks : \E any \in Forked(took, other) : trace[i] = Entry(other, any)
    BY DEF TraceIsTook, Elements
  <2> PICK any \in Forked(took, other) : trace[i] = Entry(other, any)
    BY <2>1
  <2>2. other[1] = task[1] /\ any.key = key
    BY DEF Entry
  <2>3. PICK j \in DOMAIN took[other] : any = took[other][j]
    BY DEF Forked
  <2>4. any.key.connection = other[2]
    BY <2>3 DEF RunInv, TookInOrder
  <2>5. other = task
    BY <1>1, <2>2, <2>4, TaskParts
  <2>6. key.ordinal \in OrdinalsOf(took[task], key.kind)
    BY <2>2, <2>3, <2>5 DEF OrdinalsOf
  <2>7. key.ordinal \in 0 .. Count(took[task], key.kind) - 1
    BY <1>1, <2>6 DEF RunInv, TookInOrder, NoneSkipped
  <2>8. Count(took[task], key.kind) \in Nat
    BY <1>1, CountIsNat
  <2>9. QED
    BY <1>1, <2>7, <2>8
<1>7. KeysOnce'
  <2>1. entry.proxy = task[1] /\ entry.key = key
    BY DEF Entry, entry, key
  <2>2. QED
    BY <1>4, <1>6, <2>1 DEF KeysOnce
<1>8. Asked' = Asked
  <2>1. pc'[task] # "answered" /\ \A other \in Tasks : other # task => pc'[other] = pc[other]
    BY DEF Record, RunInv, Typed, TypeOK
  <2>2. key = fork[task].key /\ answer.key = key
    BY DEF key, answer
  <2>3. \A other \in Tasks, any \in Key : AsksFor(other, any)' <=> AsksFor(other, any)
    BY <1>1, <1>2, <1>3, <2>1, <2>2 DEF AsksFor
  <2>4. QED
    BY <2>3 DEF Asked
<1>9. LogsAreAsked'
  BY <1>1, <1>8 DEF LogsAreAsked
<1>10. QED
  BY <1>5, <1>7, <1>9

\* The other steps carry out nothing and log nothing.
LEMMA OthersLog ==
    ASSUME RunInv, TraceIsTook, KeysOnce, LogsAreAsked,
           \/ \E proxy \in Proxies : Accept(proxy)
           \/ \E task \in Tasks : Leave(task) \/ \E kind \in AllKinds : Number(task, kind)
           \/ UNCHANGED vars
    PROVE  TraceIsTook' /\ KeysOnce' /\ LogsAreAsked'
<1>1. /\ UNCHANGED <<trace, took, used, unmatched>>
      /\ \A other \in Tasks :
             /\ pc'[other] = "answered" <=> pc[other] = "answered"
             /\ pc[other] = "answered" => fork'[other] = fork[other]
  <2>1. ASSUME NEW proxy \in Proxies, Accept(proxy)
        PROVE  <1>1!2
    <3> DEFINE new == <<proxy, connections[proxy] + 1>>
    <3>1. pc[new] = "none" /\ new \in Tasks
      BY <2>1, TaskParts DEF Accept, RunInv, StagesAreForks, Typed, TypeOK, Tasks
    <3> HIDE DEF new
    <3>2. pc' = [pc EXCEPT ![new] = "accepted"] /\ fork' = fork
      BY <2>1 DEF Accept, new
    <3>3. QED
      BY <3>1, <3>2 DEF RunInv, Typed, TypeOK
  <2>2. ASSUME NEW task \in Tasks, NEW kind \in AllKinds, Number(task, kind)
        PROVE  <1>1!2
    BY <2>2 DEF Number, RunInv, Typed, TypeOK
  <2>3. ASSUME NEW task \in Tasks, Leave(task)
        PROVE  <1>1!2
    BY <2>3 DEF Leave, RunInv, Typed, TypeOK
  <2>4. QED
    BY <2>1, <2>2, <2>3 DEF Accept, Number, Leave, vars
<1>2. \A other \in Tasks : Forked(took', other) = Forked(took, other)
  BY <1>1 DEF Forked
<1>3. \A other \in Tasks, key \in Key : AsksFor(other, key)' <=> AsksFor(other, key)
  BY <1>1, <1>2 DEF AsksFor
<1>4. Asked' = Asked
  BY <1>3 DEF Asked
<1>5. QED
  BY <1>1, <1>2, <1>4 DEF TraceIsTook, KeysOnce, LogsAreAsked

\* The map built from a trace holds each connection's answers, neutralised or
\* not: with one proxy no record replaces another.
LEMMA MapOfTrace ==
    ASSUME OneProxy, RunInv, TraceIsTook, KeysOnce, StartReplay
    PROVE  GivenTheRecording'
<1>1. PICK keys : source' = DecisionsOf(Without(trace, keys)) /\ removed' = keys
  BY DEF StartReplay
<1> DEFINE given == Without(trace, keys)
<1>2. original' = took
  BY DEF StartReplay
<1>3. \A i \in DOMAIN trace : trace[i] \in Records
  BY ElementOfSeq, LenProperties DEF RunInv, Typed
<1>4. /\ DOMAIN given = DOMAIN trace
      /\ \A i \in DOMAIN trace :
             /\ given[i].key = trace[i].key
             /\ given[i].decision =
                    IF trace[i].key \in keys THEN Neutral ELSE trace[i].decision
  BY <1>3 DEF Without, Records
<1>5. ASSUME NEW i \in DOMAIN trace
      PROVE  source'[trace[i].key] =
                 IF trace[i].key \in keys THEN Neutral ELSE trace[i].decision
  <2>1. \A j \in DOMAIN trace : trace[j].key = trace[i].key => j = i
    BY <1>3 DEF KeysOnce, OneProxy, Records
  <2>2. i \in Nat
    BY LenProperties DEF RunInv, Typed
  <2> HIDE DEF given
  <2>3. LastOf(given, trace[i].key) = i
    BY <1>4, <2>1, <2>2 DEF LastOf
  <2>4. trace[i].key \in {given[j].key : j \in DOMAIN given}
    BY <1>4
  <2>5. source'[trace[i].key] = given[i].decision
    BY <1>1, <2>3, <2>4 DEF DecisionsOf, given
  <2>6. QED
    BY <1>4, <2>5
<1>6. DOMAIN source' = {trace[i].key : i \in DOMAIN trace}
  BY <1>1, GivenKeys
<1> HIDE DEF given
<1>7. \A i \in DOMAIN trace : \E task \in Tasks : \E answer \in Forked(took, task) :
          trace[i] = Entry(task, answer)
  BY DEF TraceIsTook, Elements
<1>8. \A task \in Tasks : \A answer \in Forked(took, task) : \E i \in DOMAIN trace :
          trace[i] = Entry(task, answer)
  BY DEF TraceIsTook, Elements
<1>9. DOMAIN source' =
          UNION {{answer.key : answer \in Forked(took, task)} : task \in Tasks}
  <2>1. ASSUME NEW i \in DOMAIN trace
        PROVE  \E task \in Tasks : \E answer \in Forked(took, task) : answer.key = trace[i].key
    BY <1>7 DEF Entry
  <2>2. ASSUME NEW task \in Tasks, NEW answer \in Forked(took, task)
        PROVE  \E i \in DOMAIN trace : trace[i].key = answer.key
    BY <1>8 DEF Entry
  <2>3. QED
    BY <1>6, <2>1, <2>2
<1>10. ASSUME NEW task \in Tasks
       PROVE  /\ NoneSkipped(took[task])
              /\ \A answer \in Forked(took, task) :
                     /\ answer = [key |-> answer.key, decision |-> answer.decision]
                     /\ answer.key \in Key
                     /\ answer.key.connection = task[2]
                     /\ source'[answer.key] =
                            IF answer.key \in keys THEN Neutral ELSE answer.decision
  <2>1. ASSUME NEW answer \in Forked(took, task)
        PROVE  /\ answer = [key |-> answer.key, decision |-> answer.decision]
               /\ answer.key \in Key
               /\ answer.key.connection = task[2]
    <3>1. PICK i \in DOMAIN took[task] : answer = took[task][i]
      BY DEF Forked
    <3>2. answer \in Answers
      BY <3>1, ElementOfSeq, LenProperties DEF RunInv, Typed
    <3>3. QED
      BY <3>1, <3>2 DEF Answers, RunInv, TookInOrder
  <2>2. ASSUME NEW answer \in Forked(took, task)
        PROVE  source'[answer.key] =
                   IF answer.key \in keys THEN Neutral ELSE answer.decision
    <3>1. PICK i \in DOMAIN trace : trace[i] = Entry(task, answer)
      BY <1>8
    <3>2. trace[i].key = answer.key /\ trace[i].decision = answer.decision
      BY <3>1 DEF Entry
    <3>3. QED
      BY <1>5, <3>2
  <2>3. QED
    BY <2>1, <2>2 DEF RunInv, TookInOrder
<1>11. QED
  BY <1>1, <1>2, <1>9, <1>10 DEF GivenTheRecording

\* What the replay of one proxy's run needs holds throughout.
LEMMA ReplayInvariant ==
    ASSUME OneProxy
    PROVE  SpecReplaying => []ReplayInv
<1>1. InitReplaying => ReplayInv
  BY RunStarts, LogsStart, SeedsAssumption DEF InitReplaying, ReplayInv
<1>2. RunInv /\ ReplayInv /\ [NextReplaying]_allVars /\ RunInv' => ReplayInv'
  <2> SUFFICES ASSUME ReplayInv, [NextReplaying]_allVars, RunInv'
               PROVE  ReplayInv'
    BY DEF ReplayInv
  <2> USE DEF ReplayInv
  <2>1. CASE Running
    <3>1. TraceIsTook' /\ KeysOnce' /\ LogsAreAsked'
      BY <2>1, DecideLogs, RecordLogs, OthersLog DEF Running, NextRun
    <3>2. source' = source /\ UNCHANGED <<phase, original, removed>> /\ phase # "reported"
      BY <2>1 DEF Running, NextRun, Accept, Number, Decide, Record, Leave
    <3>3. GivenTheRecording' <=> GivenTheRecording
      BY <3>2 DEF GivenTheRecording
    <3>4. QED
      BY <3>1, <3>2, <3>3
  <2>2. CASE StartReplay
    <3>1. (InitRun => TraceIsTook /\ KeysOnce /\ LogsAreAsked)'
      BY LogsStart, PTL
    <3>2. TraceIsTook' /\ KeysOnce' /\ LogsAreAsked'
      BY <2>2, <3>1 DEF StartReplay, InitRun
    <3>3. GivenTheRecording'
      BY <2>2, MapOfTrace
    <3>4. QED
      BY <2>2, <3>2, <3>3 DEF StartReplay
  <2>3. CASE UNCHANGED vars /\ UNCHANGED <<original, removed>> /\ (Report \/ phase' = phase)
    <3>1. TraceIsTook' /\ KeysOnce' /\ LogsAreAsked'
      BY <2>3, OthersLog
    <3>2. (GivenTheRecording' <=> GivenTheRecording) /\ (Over' <=> Over)
      BY <2>3 DEF GivenTheRecording, vars, Over
    <3>3. QED
      BY <2>3, <3>1, <3>2 DEF Report
  <2>4. QED
    BY <2>1, <2>2, <2>3 DEF NextReplaying, Report, allVars
<1>3. QED
  BY <1>1, <1>2, RunInvariant, PTL DEF SpecReplaying

\* Whatever a connection was answered is the source's answer to a key of its own.
LEMMA TookAnswers ==
    ASSUME RunInv, NEW task \in Tasks, NEW answer \in Forked(took, task)
    PROVE  /\ answer = [key |-> answer.key, decision |-> Lookup(source, answer.key)]
           /\ answer.key \in Key
           /\ answer.key.connection = task[2]
           /\ answer.key.ordinal \in OrdinalsOf(took[task], answer.key.kind)
<1>1. PICK i \in DOMAIN took[task] : answer = took[task][i]
  BY DEF Forked
<1>2. answer \in Answers
  BY <1>1, ElementOfSeq, LenProperties DEF RunInv, Typed
<1>3. answer.key.ordinal \in OrdinalsOf(took[task], answer.key.kind)
  BY <1>1 DEF OrdinalsOf
<1>4. answer.key.connection = task[2]
  BY <1>1 DEF RunInv, TookInOrder
<1>5. QED
  BY <1>2, <1>3, <1>4 DEF Answers

\* An ordinal that was taken was taken by an answer.
LEMMA OrdinalTaken ==
    ASSUME NEW answers, NEW task, NEW kind, NEW ordinal \in OrdinalsOf(answers[task], kind)
    PROVE  \E answer \in Forked(answers, task) :
               answer.key.kind = kind /\ answer.key.ordinal = ordinal
<1>1. QED
  BY DEF OrdinalsOf, Forked

\* What a replay is answered, its recording answered unless neutralised.
LEMMA AnswersAreGiven ==
    ASSUME OneProxy, RunInv, GivenTheRecording,
           NEW task \in Tasks, NEW answer \in Forked(took, task),
           answer.key \in DOMAIN source
    PROVE  \E before \in Forked(original, task) :
               /\ before.key = answer.key
               /\ answer.decision =
                      IF answer.key \in removed THEN Neutral ELSE before.decision
               /\ answer.key \notin removed => answer = before
<1>3. /\ answer = [key |-> answer.key, decision |-> answer.decision]
      /\ answer.decision = source[answer.key]
      /\ answer.key.connection = task[2]
  BY TookAnswers DEF Lookup
<1>4. PICK other \in Tasks : \E before \in Forked(original, other) : before.key = answer.key
  BY DEF GivenTheRecording
<1> PICK before \in Forked(original, other) : before.key = answer.key
  BY <1>4
<1>5. other = task
  <2>1. other[2] = task[2]
    BY <1>3 DEF GivenTheRecording
  <2>2. other[1] = task[1]
    BY TaskParts DEF OneProxy
  <2>3. QED
    BY <2>1, <2>2, TaskParts
<1>6. before \in Forked(original, task)
  BY <1>5
<1>7. /\ before = [key |-> before.key, decision |-> before.decision]
      /\ source[before.key] = IF before.key \in removed THEN Neutral ELSE before.decision
  BY <1>6 DEF GivenTheRecording
<1>8. QED
  BY <1>3, <1>6, <1>7

\* Neutralising decisions never adds a fault: whatever a replay perturbs, the
\* recording perturbed on the same connection in the same way.
THEOREM NothingAdded ==
    ASSUME OneProxy
    PROVE  SpecReplaying => []NoNewFault
<1>1. RunInv /\ ReplayInv => NoNewFault
  <2> SUFFICES ASSUME RunInv, ReplayInv, phase # "recording",
                      NEW task \in Tasks, NEW answer \in Forked(took, task),
                      answer.decision # Neutral
               PROVE  answer \in Forked(original, task) /\ answer.key \notin removed
    BY DEF NoNewFault
  <2>1. answer.key \in DOMAIN source
    BY TookAnswers DEF Lookup
  <2>2. QED
    BY <2>1, AnswersAreGiven DEF ReplayInv
<1>2. QED
  BY <1>1, RunInvariant, ReplayInvariant, PTL

\* A replay of an unaltered trace that is reported faithful went through the
\* forks of the recording, and a replay that reaches as many forks as the
\* recording is reported faithful and is answered as the recording was.
THEOREM VerdictIsRight ==
    ASSUME OneProxy
    PROVE  SpecReplaying => []FaithfulIffSame
<1> DEFINE SameForks == \A task \in Tasks : Forked(took, task) = Forked(original, task)
<1>1. ReplayInv => FaithfulMeansSame
  <2> SUFFICES ASSUME ReplayInv, phase = "reported", removed = {}, Faithful,
                      NEW task \in Tasks
               PROVE  Forked(took, task) = Forked(original, task)
    BY DEF FaithfulMeansSame
  <2>1. RunInv /\ GivenTheRecording /\ LogsAreAsked /\ Over
    BY DEF ReplayInv
  <2>2. Asked = DOMAIN source
    <3>1. unmatched = <<>> /\ used = DOMAIN source
      BY <2>1 DEF Faithful, Unused, RunInv, Typed, TypeOK
    <3>2. Elements(<<>>) = {}
      BY DEF Elements
    <3>3. QED
      BY <2>1, <3>1, <3>2 DEF LogsAreAsked
  <2>3. \A other \in Tasks : pc[other] # "answered"
    BY <2>1 DEF Over
  <2>4. ASSUME NEW answer \in Forked(took, task)
        PROVE  answer \in Forked(original, task)
    <3>1. answer.key \in Asked
      BY <2>1, TookAnswers DEF Asked, AsksFor
    <3>2. QED
      BY <2>1, <2>2, <3>1, AnswersAreGiven
  <2>5. ASSUME NEW before \in Forked(original, task)
        PROVE  before \in Forked(took, task)
    <3>1. before.key \in DOMAIN source /\ before.key.connection = task[2]
      BY <2>1 DEF GivenTheRecording
    <3>2. PICK other \in Tasks : \E answer \in Forked(took, other) : answer.key = before.key
      BY <2>2, <2>3, <3>1 DEF Asked, AsksFor
    <3> PICK answer \in Forked(took, other) : answer.key = before.key
      BY <3>2
    <3>3. other = task
      <4>1. other[2] = task[2]
        BY <2>1, <3>1, TookAnswers
      <4>2. QED
        BY <4>1, TaskParts DEF OneProxy
    <3>4. answer = [key |-> before.key, decision |-> source[before.key]]
      BY <2>1, <3>1, TookAnswers DEF Lookup
    <3>5. before = [key |-> before.key, decision |-> source[before.key]]
      BY <2>1 DEF GivenTheRecording
    <3>6. QED
      BY <3>3, <3>4, <3>5
  <2>6. QED
    BY <2>4, <2>5
<1>2. ReplayInv => SameMeansFaithful
  <2> SUFFICES ASSUME ReplayInv, phase = "reported", removed = {},
                      \A task \in Tasks, kind \in AllKinds :
                          Count(took[task], kind) = Count(original[task], kind)
               PROVE  Faithful /\ SameForks
    BY DEF SameMeansFaithful, Count
  <2>1. RunInv /\ GivenTheRecording /\ LogsAreAsked /\ Over
    BY DEF ReplayInv
  <2>2. \A task \in Tasks, kind \in AllKinds :
            OrdinalsOf(took[task], kind) = OrdinalsOf(original[task], kind)
    BY <2>1 DEF RunInv, TookInOrder, GivenTheRecording, NoneSkipped
  <2>3. ASSUME NEW task \in Tasks, NEW answer \in Forked(took, task)
        PROVE  answer.key \in Key /\ answer.key \in DOMAIN source
    <3>1. /\ answer.key \in Key /\ answer.key.connection = task[2]
          /\ answer.key.ordinal \in OrdinalsOf(took[task], answer.key.kind)
      BY <2>1, TookAnswers
    <3>2. answer.key.ordinal \in OrdinalsOf(original[task], answer.key.kind)
      BY <2>2, <3>1 DEF Key
    <3>3. PICK before \in Forked(original, task) :
              /\ before.key.kind = answer.key.kind
              /\ before.key.ordinal = answer.key.ordinal
      BY <3>2, OrdinalTaken
    <3>4. /\ before.key \in Key /\ before.key.connection = task[2]
          /\ before.key \in DOMAIN source
      BY <2>1 DEF GivenTheRecording
    <3>5. before.key = answer.key
      BY <3>1, <3>3, <3>4 DEF Key
    <3>6. QED
      BY <3>1, <3>4, <3>5
  <2>4. ASSUME NEW task \in Tasks, NEW before \in Forked(original, task)
        PROVE  \E answer \in Forked(took, task) : answer.key = before.key
    <3>1. before.key \in Key /\ before.key.connection = task[2]
      BY <2>1 DEF GivenTheRecording
    <3>2. before.key.ordinal \in OrdinalsOf(original[task], before.key.kind)
      BY DEF OrdinalsOf, Forked
    <3>3. before.key.ordinal \in OrdinalsOf(took[task], before.key.kind)
      BY <2>2, <3>1, <3>2 DEF Key
    <3>4. PICK answer \in Forked(took, task) :
              /\ answer.key.kind = before.key.kind
              /\ answer.key.ordinal = before.key.ordinal
      BY <3>3, OrdinalTaken
    <3>5. answer.key \in Key /\ answer.key.connection = task[2]
      BY <2>1, TookAnswers
    <3>6. answer.key = before.key
      BY <3>1, <3>4, <3>5 DEF Key
    <3>7. QED
      BY <3>6
  <2>5. Asked = DOMAIN source
    <3>1. \A task \in Tasks : pc[task] # "answered"
      BY <2>1 DEF Over
    <3>2. Asked \subseteq DOMAIN source
      BY <2>3, <3>1 DEF Asked, AsksFor
    <3>3. DOMAIN source \subseteq Asked
      BY <2>1, <2>4 DEF Asked, AsksFor, GivenTheRecording
    <3>4. QED
      BY <3>2, <3>3
  <2>6. Faithful
    <3>1. Elements(unmatched) = {}
      BY <2>1, <2>5 DEF LogsAreAsked, Elements, RunInv, Typed, TypeOK
    <3>2. unmatched = <<>>
      <4>1. unmatched \in Seq(Key) /\ DOMAIN unmatched = {}
        BY <2>1, <3>1 DEF Elements, RunInv, Typed
      <4>2. Len(unmatched) = 0
        BY <4>1, LenProperties
      <4>3. QED
        BY <4>1, <4>2, EmptySeq
    <3>3. used = DOMAIN source
      BY <2>1, <2>5, <3>1 DEF LogsAreAsked
    <3>4. QED
      BY <3>2, <3>3 DEF Faithful, Unused
  <2>7. FaithfulMeansSame => SameForks
    BY <2>6 DEF FaithfulMeansSame
  <2>8. QED
    BY <1>1, <2>6, <2>7
<1>3. ReplayInv => FaithfulIffSame
  BY <1>1, <1>2 DEF FaithfulIffSame
<1>4. QED
  BY <1>3, ReplayInvariant, PTL
=============================================================================
