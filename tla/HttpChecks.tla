----------------------------- MODULE HttpChecks -----------------------------
(***************************************************************************)
(* The two HTTP checkers over the observations of a whole run, with several *)
(* connections and their ends: which requests were left without an answer, *)
(* and whether a key that was tried again got the answer it got first.  A  *)
(* connection has one exchange at a time; HttpProxy has the batches.       *)
(***************************************************************************)
EXTENDS Naturals, SequencesExt, Functions

NoKey == "none"
Request(connection, key) == [event |-> "request", connection |-> connection, key |-> key]
Response(connection, answer) == [event |-> "response", connection |-> connection, answer |-> answer]
Closed(connection) == [event |-> "closed", connection |-> connection]

With(map, key, value) == [k \in DOMAIN map \cup {key} |-> IF k = key THEN value ELSE map[k]]
Less(map, key) == Restrict(map, DOMAIN map \ {key})

\* every_request_reaches_terminal_state: the requests of a connection without
\* an answer are reported when it closes, or when the run is over.
Waiting(pending, c) == IF c \in DOMAIN pending THEN pending[c] ELSE <<>>
SeeEnd(state, event) ==
    LET c == event.connection
        waiting == Waiting(state.pending, c)
    IN  CASE event.event = "request" ->
                [state EXCEPT !.pending = With(@, c, Append(waiting, event.key))]
          [] event.event = "response" /\ waiting # <<>> ->
                [state EXCEPT !.pending = With(@, c, Tail(waiting))]
          [] event.event = "closed" ->
                [pending |-> Less(state.pending, c), fired |-> waiting # <<>>]
          [] OTHER -> state

\* idempotent_retry_returns_same_response: the key a connection has in flight,
\* and the answer each key got first, on whichever connection.
StillInFlight(inFlight, c) == inFlight
Landed(inFlight, c) == Less(inFlight, c)

SeeRetry(state, event) ==
    LET c == event.connection
    IN  CASE event.event = "request" /\ event.key # NoKey ->
                [state EXCEPT !.inFlight = With(@, c, event.key)]
          [] event.event = "response" /\ c \in DOMAIN state.inFlight ->
                LET key == state.inFlight[c]
                    known == key \in DOMAIN state.answered
                IN  [inFlight |-> Landed(state.inFlight, c),
                     answered |-> IF known THEN state.answered
                                  ELSE With(state.answered, key, event.answer),
                     fired |-> known /\ state.answered[key] # event.answer]
          [] event.event = "closed" -> [state EXCEPT !.inFlight = Less(@, c)]
          [] OTHER -> state

\* An invariant that fired is shown nothing more, while the other goes on.
Fresh == [end   |-> [pending |-> <<>>, fired |-> FALSE],
          retry |-> [inFlight |-> <<>>, answered |-> <<>>, fired |-> FALSE]]
Observe(checker, event) ==
    [end   |-> IF checker.end.fired THEN checker.end ELSE SeeEnd(checker.end, event),
     retry |-> IF checker.retry.fired THEN checker.retry ELSE SeeRetry(checker.retry, event)]
Shown(events) == FoldLeft(Observe, Fresh, events)

StrandedFires(events) ==
    LET end == Shown(events).end
    IN  end.fired \/ \E c \in DOMAIN end.pending : end.pending[c] # <<>>
RetryFires(events) == Shown(events).retry.fired

-----------------------------------------------------------------------------
\* What may be observed of a connection: a request, its answer, and so on to a
\* close, with what the others do between.

Events(connections, keys, answers) ==
    {Request(c, key) : c \in connections, key \in keys \cup {NoKey}}
        \cup {Response(c, answer) : c \in connections, answer \in answers}
        \cup {Closed(c) : c \in connections}

\* The last of the first n events that is of a connection, if there is one.
Latest(events, n, c) ==
    {i \in 1 .. n : /\ events[i].connection = c
                    /\ \A j \in i + 1 .. n : events[j].connection # c}
Previous(events, i) == Latest(events, i - 1, events[i].connection)

MayFollow(event) ==
    CASE event = "closed"  -> {}
      [] event = "request" -> {"response", "closed"}
      [] OTHER             -> {"request", "closed"}
TakesTurns(events, i) ==
    /\ Previous(events, i) = {} => events[i].event \in MayFollow("none")
    /\ \A j \in Previous(events, i) : events[i].event \in MayFollow(events[j].event)

Observations(length, connections, keys, answers) ==
    {events \in [1 .. length -> Events(connections, keys, answers)] :
        \A i \in 1 .. length : TakesTurns(events, i)}

AnswersIn(events) == {i \in DOMAIN events : events[i].event = "response"}
AnswersTo(events, key) ==
    {events[i].answer : i \in {j \in AnswersIn(events) :
        \E asked \in Previous(events, j) : events[asked].key = key}}

\* A request is reported exactly where none of its connection's answers is the
\* one to it, whether the connection closed or the run ended; a key is reported
\* exactly where two connections, or one, were told different things of it.
StrandedIsExact(events) ==
    StrandedFires(events) <=>
        \E i \in DOMAIN events : /\ events[i].event = "request"
                                 /\ \A j \in AnswersIn(events) : i \notin Previous(events, j)
RetryIsExact(events, keys) ==
    RetryFires(events) <=>
        \E key \in keys \ {NoKey} : \E one, other \in AnswersTo(events, key) : one # other

ChecksAreExact(length, connections, keys, answers) ==
    \A events \in Observations(length, connections, keys, answers) :
        StrandedIsExact(events) /\ RetryIsExact(events, keys)
=============================================================================
