----------------------------- MODULE NatsChecks -----------------------------
(***************************************************************************)
(* The topology of a run, as a server has it and as the checkers learn it, *)
(* and the three checkers that need more than an order of events: how      *)
(* often a message may come, how often a payload may come back, and which  *)
(* subjects a consumer must not see.                                       *)
(*                                                                         *)
(* A subject or a filter is a sequence of words.                           *)
(***************************************************************************)
EXTENDS Naturals, SequencesExt, FiniteSetsExt, Functions

CONSTANTS
    Unlimited,      \* the largest delivery count
    Window,         \* of time, for payloads that come back
    MaxRepeats      \* same_payload_max

ASSUME ChecksAssumption == {Unlimited, Window, MaxRepeats} \subseteq Nat

-----------------------------------------------------------------------------
\* subject_matches: the first word of the filter that decides.

MatchesAnywhere(filter, subject) ==
    LET decides(i) == \/ filter[i] = ">"
                      \/ filter[i] = "*" /\ i > Len(subject)
                      \/ filter[i] \notin {">", "*"} /\ (i > Len(subject) \/ subject[i] # filter[i])
        deciding   == {i \in DOMAIN filter : decides(i)}
    IN  IF deciding = {} THEN Len(filter) = Len(subject)
        ELSE filter[Min(deciding)] = ">" /\ Len(subject) >= Min(deciding)
SubjectMatches(filter, subject) ==
    LET decides(i) == \/ filter[i] = ">"
                      \/ filter[i] = "*" /\ i > Len(subject)
                      \/ filter[i] \notin {">", "*"} /\ (i > Len(subject) \/ subject[i] # filter[i])
        deciding   == {i \in DOMAIN filter : decides(i)}
    IN  IF deciding = {} THEN Len(filter) = Len(subject)
        ELSE /\ filter[Min(deciding)] = ">" /\ Min(deciding) = Len(filter)
             /\ Len(subject) >= Min(deciding)

-----------------------------------------------------------------------------
\* apply_stream.  A stream says what its consumer is called, what it filters
\* and how often it delivers, as far as the scenario chose; -1 is for ever.

ConsumerOf(stream) == IF stream.consumer = "" THEN stream.name ELSE stream.consumer
FilterOf(stream) == IF stream.filter = <<>> THEN stream.subjects[1] ELSE stream.filter

\* The server makes what is asked for, or changes what an earlier run left.
Applied(server, stream) ==
    [server EXCEPT
        ![stream.name] = [filter |-> FilterOf(stream), maxDeliver |-> stream.maxDeliver]]

Told(consumer, filter, max) ==
    [event |-> "configured", consumer |-> consumer, filter |-> filter, max |-> max]

\* What is observed is the server's answer.
Configured(server, stream) ==
    LET has == Applied(server, stream)[stream.name]
    IN  Told(ConsumerOf(stream), has.filter,
             IF has.maxDeliver < 0 THEN Unlimited ELSE has.maxDeliver)

-----------------------------------------------------------------------------
\* max_deliver_respected.

Put(map, key, value) == [k \in DOMAIN map \cup {key} |-> IF k = key THEN value ELSE map[k]]

SeeDeliveries(state, event) ==
    CASE event.event = "configured" ->
            [state EXCEPT !.max = Put(@, event.consumer, event.max)]
      [] event.event = "delivered" /\ event.consumer \in DOMAIN state.max ->
            [state EXCEPT !.fired = event.count > state.max[event.consumer]]
      [] OTHER -> state

\* no_infinite_redelivery: when each payload came within the window.  An entry
\* has a number of its own, as two may have one time.
SightingsOf(seen, payload) == IF payload \in DOMAIN seen THEN seen[payload] ELSE {}
SeePayload(state, event) ==
    LET now  == state.shown + 1
        near == {entry \in SightingsOf(state.seen, event.payload) : entry.at + Window >= event.at}
        kept == near \cup {[number |-> now, at |-> event.at]}
    IN  IF event.event = "delivered"
        THEN [shown |-> now, seen |-> Put(state.seen, event.payload, kept),
              fired |-> Cardinality(kept) > MaxRepeats]
        ELSE [state EXCEPT !.shown = now]

\* consumer_filter_excludes_dead_letter.
SeeDeadLetter(state, event) ==
    CASE event.event = "configured" ->
            [state EXCEPT !.filters = Put(@, event.consumer, event.filter)]
      [] event.event = "deadLettered" ->
            [state EXCEPT !.fired = \E consumer \in DOMAIN state.filters :
                                        SubjectMatches(state.filters[consumer], event.subject)]
      [] OTHER -> state

\* An invariant that fired is shown nothing more, while the others go on.
Fresh == [limit   |-> [max |-> <<>>, fired |-> FALSE],
          payload |-> [shown |-> 0, seen |-> <<>>, fired |-> FALSE],
          letter  |-> [filters |-> <<>>, fired |-> FALSE]]
Observe(checker, event) ==
    [limit   |-> IF checker.limit.fired THEN checker.limit ELSE SeeDeliveries(checker.limit, event),
     payload |-> IF checker.payload.fired THEN checker.payload ELSE SeePayload(checker.payload, event),
     letter  |-> IF checker.letter.fired THEN checker.letter ELSE SeeDeadLetter(checker.letter, event)]
Shown(events) == FoldLeft(Observe, Fresh, events)

MaxDeliverFires(events) == Shown(events).limit.fired
RedeliveryFires(events) == Shown(events).payload.fired
DeadLetterFires(events) == Shown(events).letter.fired

-----------------------------------------------------------------------------

Upto(n, S) == UNION {[1 .. k -> S] : k \in 1 .. n}

\* A filter matches what the protocol says it does: one word for *, and for a
\* last > one or more.
Word(token, word) == token = "*" \/ token = word
FilterIsExact(filter, subject) ==
    LET open  == Last(filter) = ">"
        fixed == IF open THEN Front(filter) ELSE filter
    IN  SubjectMatches(filter, subject) <=>
            /\ IF open THEN Len(subject) > Len(fixed) ELSE Len(subject) = Len(fixed)
            /\ \A i \in DOMAIN fixed : fixed[i] # ">" /\ Word(fixed[i], subject[i])
FiltersAreExact ==
    \A filter \in Upto(3, {"a", "b", "*", ">"}), subject \in Upto(3, {"a", "b"}) :
        FilterIsExact(filter, subject)

\* What may be observed, in the order of its times.
Delivery(consumer, count, payload, at) ==
    [event |-> "delivered", consumer |-> consumer, count |-> count, payload |-> payload, at |-> at]
DeadLettered(subject) == [event |-> "deadLettered", subject |-> subject]

Arrivals(events) == {i \in DOMAIN events : events[i].event = "delivered"}
InTime(events) ==
    /\ \A i \in Arrivals(events) : events[i].at \in Nat
    /\ \A i, j \in Arrivals(events) : i <= j => events[i].at <= events[j].at

\* What a consumer was last told to be, of the first n events.
Configures(event, consumer) == event.event = "configured" /\ event.consumer = consumer
InForce(events, n, consumer) ==
    {i \in 1 .. n : /\ Configures(events[i], consumer)
                    /\ \A j \in i + 1 .. n : ~Configures(events[j], consumer)}

\* The deliveries of one payload that the i-th ends, within a window.
Repeats(events, i) ==
    {j \in Arrivals(events) : /\ j <= i /\ events[j].payload = events[i].payload
                                /\ events[i].at <= events[j].at + Window}

\* Each consumer is held to the limit it has then; forgetting what is out of the
\* window loses no loop and makes none up; a dead letter is reported exactly if
\* the filter some consumer has then lets it in.
ChecksAreExact(events) ==
    /\ MaxDeliverFires(events) <=>
           \E i \in Arrivals(events) : \E j \in InForce(events, i - 1, events[i].consumer) :
               events[i].count > events[j].max
    /\ RedeliveryFires(events) <=>
           \E i \in Arrivals(events) : Cardinality(Repeats(events, i)) > MaxRepeats
    /\ DeadLetterFires(events) <=>
           \E i \in DOMAIN events : /\ events[i].event = "deadLettered"
                                    /\ \E j \in 1 .. i - 1 :
                                           /\ events[j].event = "configured"
                                           /\ j \in InForce(events, i - 1, events[j].consumer)
                                           /\ SubjectMatches(events[j].filter, events[i].subject)

Sightings ==
    {Delivery(consumer, count, "p", at) : consumer \in {"V", "W"}, count \in 1 .. 2, at \in 0 .. 1}
        \cup {Told(consumer, filter, max) :
                consumer \in {"V", "W"}, filter \in {<<"a">>, <<">">>}, max \in 1 .. 2}
        \cup {DeadLettered(<<"a">>), DeadLettered(<<"b">>)}
Payloads == {Delivery("W", 1, payload, at) : payload \in {"p", "q"}, at \in 0 .. 3}
SightingsAreJudged ==
    \A events \in Upto(3, Sightings) \cup [1 .. 4 -> Payloads] :
        InTime(events) => ChecksAreExact(events)

\* Whatever an earlier run left on the server and whatever the scenario leaves
\* open, the two checkers that need the topology hold the server to what it was
\* told, each consumer to its own, and are quiet where it has no limit.
Streams ==
    [name : {"S", "T"}, consumer : {"", "W"}, filter : {<<>>, <<"b">>},
     subjects : {<<<<"a", ">">>>>}, maxDeliver : {-1, 1, 2}]
LeftBehind == [name \in {"S", "T"} |-> [filter |-> <<"old">>, maxDeliver |-> 3]]
TopologyIsEnforced ==
    \A s, t \in Streams : s.name # t.name /\ ConsumerOf(s) # ConsumerOf(t) =>
        LET first  == Applied(LeftBehind, s)
            server == Applied(first, t)
            told   == <<Configured(LeftBehind, s), Configured(first, t)>>
            limits(stream, n) ==
                /\ server[stream.name].maxDeliver >= 0 /\ n > server[stream.name].maxDeliver
        IN  \A stream \in {s, t}, n \in {k \in 1 .. 3 : k <= Unlimited} :
                /\ MaxDeliverFires(Append(told, Delivery(ConsumerOf(stream), n, "p", 0))) <=>
                       limits(stream, n)
                /\ \A subject \in {<<"a", "dead">>, <<"b">>, <<"old">>} :
                       DeadLetterFires(Append(told, DeadLettered(subject))) <=>
                           \E name \in {"S", "T"} : SubjectMatches(server[name].filter, subject)
=============================================================================
