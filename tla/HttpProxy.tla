----------------------------- MODULE HttpProxy -----------------------------
(***************************************************************************)
(* One HTTP connection: the client, the adapter's task between accept and  *)
(* close, the service, and the checker that reads what the adapter         *)
(* observed.  Requests are numbered from 1 in the order they arrived.      *)
(*                                                                         *)
(* A delayed or corrupted message takes the path of an unharmed one: time  *)
(* and bytes are not modelled, and a service may give up on any request.   *)
(***************************************************************************)
EXTENDS Naturals, Sequences, SequencesExt, TLC, HttpChecks

CONSTANTS
    Permitted,      \* the faults the scenario lists
    MaxRequests     \* bound: requests one client sends

ASSUME MaxRequestsAssumption == MaxRequests \in Nat

Table == INSTANCE Schedule

VARIABLES
    sent, halfClosed, gone, got,      \* the client
    service, reply,                   \* the service, and its answer in flight
    cancelled,                        \* the run's cancellation token
    pc, deferred, batch, last,        \* serve_connection
    answers, held, alive,             \* exchange
    decided, responded,               \* history: the answers to the forks
    written,                          \* history: what went to the service
    outcome,                          \* the task's result
    pending, fired                    \* EveryRequestReachesTerminalState

client == <<sent, halfClosed, gone, got>>
upstream == <<service, reply, written>>
loop == <<deferred, batch, last>>
replies == <<answers, held, alive>>
forks == <<decided, responded>>
checker == <<outcome, pending, fired>>
vars == <<client, upstream, cancelled, pc, loop, replies, forks, checker>>

Init ==
    /\ sent = 0 /\ halfClosed = FALSE /\ gone = FALSE /\ got = <<>>
    /\ service = "open" /\ reply = "none" /\ written = <<>>
    /\ cancelled = FALSE
    /\ pc = "accepted"
    /\ deferred = <<>> /\ batch = <<>> /\ last = FALSE
    /\ answers = <<>> /\ held = <<>> /\ alive = TRUE
    /\ decided = <<>> /\ responded = <<>>
    /\ outcome = "none" /\ pending = <<>> /\ fired = FALSE

-----------------------------------------------------------------------------
\* The client writes requests without waiting and reads what comes.

Writing == ~halfClosed /\ ~gone /\ pc # "refused"

Send ==
    /\ Writing /\ sent < MaxRequests
    /\ sent' = sent + 1
    /\ UNCHANGED <<halfClosed, gone, got, upstream, cancelled, pc, loop, replies, forks, checker>>

HalfClose ==
    /\ Writing
    /\ halfClosed' = TRUE
    /\ UNCHANGED <<sent, gone, got, upstream, cancelled, pc, loop, replies, forks, checker>>

Vanish ==
    /\ ~gone
    /\ gone' = TRUE
    /\ UNCHANGED <<sent, halfClosed, got, upstream, cancelled, pc, loop, replies, forks, checker>>

\* The runner ends the run.
Cancel ==
    /\ ~cancelled
    /\ cancelled' = TRUE
    /\ UNCHANGED <<client, upstream, pc, loop, replies, forks, checker>>

\* The service answers what it is asked, and may say that it closes with it.  A
\* refused answer is one that read_response makes an error of: its head or body
\* over the limit, a folded header, a length or a status that is no number.
ServiceAnswers ==
    /\ service = "busy"
    /\ \/ reply' \in {"stay", "refused"} /\ service' = "open"
       \/ reply' = "close" /\ service' = "parted"
    /\ UNCHANGED <<client, written, cancelled, pc, loop, replies, forks, checker>>

\* Or it goes away without a word.
ServiceDies ==
    /\ service \in {"open", "busy"}
    /\ service' = "dead"
    /\ UNCHANGED <<client, reply, written, cancelled, pc, loop, replies, forks, checker>>

-----------------------------------------------------------------------------
\* The checker.

Asked(queue, request) == Append(queue, request)
Replied(queue) == IF queue = <<>> THEN queue ELSE Tail(queue)

\* However serve_connection returned, the close is observed.
End(result) ==
    /\ pc' = "ended"
    /\ outcome' = result
    /\ fired' = (pending # <<>>)
    /\ pending' = <<>>

-----------------------------------------------------------------------------
\* The accept loop and the task it spawns.

Refuse ==
    /\ pc = "accepted"
    /\ "close" \in Table!Answers(Permitted, "connection")
    /\ pc' = "refused"
    /\ UNCHANGED <<client, upstream, cancelled, loop, replies, forks, checker>>

Connect ==
    /\ pc = "accepted"
    /\ pc' = "reading"
    /\ UNCHANGED <<client, upstream, cancelled, loop, replies, forks, checker>>

ConnectFails ==
    /\ pc = "accepted" /\ service = "dead"
    /\ End("error")
    /\ UNCHANGED <<client, upstream, cancelled, loop, replies, forks>>

\* Released newest first: each deferred request asked for the one after it to
\* go ahead of it.
Release(requests) == Reverse(requests)

\* A batch handed to exchange.
StartExchange(requests, isLast) ==
    /\ batch' = requests
    /\ deferred' = <<>>
    /\ last' = isLast
    /\ pc' = "forwarding"

Defer(request) ==
    /\ deferred' = Append(deferred, request)
    /\ UNCHANGED <<batch, last, pc, checker>>

\* A dropped request is not written, so it is not observed either.
WithholdObserved(request) ==
    /\ pending' = Asked(pending, request)
    /\ UNCHANGED <<loop, pc, outcome, fired>>
Withhold(request) == UNCHANGED <<loop, pc, checker>>

Read ==
    LET request == Len(decided) + 1
    IN  /\ pc = "reading" /\ ~cancelled /\ request <= sent
        /\ \E decision \in Table!Answers(Permitted, "deliver") :
               /\ decided' = Append(decided, decision)
               /\ \/ decision = "reorder" /\ Defer(request)
                  \/ decision = "drop" /\ Withhold(request)
                  \/ decision = "close" /\ End("ok") /\ UNCHANGED loop
                  \/ /\ decision \in {"allow", "delay", "corrupt"}
                     /\ StartExchange(<<request>> \o Release(deferred), FALSE)
                     /\ UNCHANGED checker
        /\ UNCHANGED <<client, upstream, cancelled, replies, responded>>

\* A client that is gone, or a request that read_request makes an error of.
ReadFails ==
    /\ pc = "reading" /\ ~cancelled /\ (gone \/ Len(decided) < sent)
    /\ End("error")
    /\ UNCHANGED <<client, upstream, cancelled, loop, replies, forks>>

\* The loop ends at the end of the client's stream or of the run.
OnlyAtEndOfStream == Len(decided) = sent /\ (halfClosed \/ gone)
NoMoreRequests == cancelled \/ (Len(decided) = sent /\ (halfClosed \/ gone))

StopForgetting == End("ok") /\ UNCHANGED loop
Stop ==
    \/ deferred = <<>> /\ End("ok") /\ UNCHANGED loop
    \/ deferred # <<>> /\ StartExchange(Release(deferred), TRUE) /\ UNCHANGED checker

StopReading ==
    /\ pc = "reading" /\ NoMoreRequests
    /\ Stop
    /\ UNCHANGED <<client, upstream, cancelled, replies, forks>>

-----------------------------------------------------------------------------
\* exchange.  A write to a service that is gone fails or goes nowhere.

Forward ==
    LET request == Head(batch)
    IN  /\ pc = "forwarding"
        /\ written' = Append(written, request)
        /\ service' = IF service = "open" THEN "busy" ELSE service
        /\ pending' = Asked(pending, request)
        /\ pc' = "awaiting"
        /\ UNCHANGED <<client, reply, cancelled, loop, replies, forks, outcome, fired>>

ForwardFails ==
    /\ pc = "forwarding" /\ service \in {"dead", "parted"}
    /\ End("error")
    /\ UNCHANGED <<client, upstream, cancelled, loop, replies, forks>>

InTheOrderAnswered(list) == list
InTheOrderAsked(list) ==
    CHOOSE sorted \in [DOMAIN list -> ToSet(list)] :
        /\ ToSet(sorted) = ToSet(list)
        /\ \A i, j \in DOMAIN list : i < j => sorted[i].request < sorted[j].request

Answered ==
    LET all == Append(answers, [request |-> Head(batch), closes |-> reply = "close"])
    IN  /\ pc = "awaiting" /\ reply \in {"stay", "close"}
        /\ reply' = "none"
        /\ pending' = Replied(pending)
        /\ batch' = Tail(batch)
        /\ IF Len(batch) > 1
           THEN pc' = "forwarding" /\ answers' = all
           ELSE pc' = "answering" /\ answers' = InTheOrderAsked(all)
        /\ UNCHANGED <<client, service, written, cancelled, deferred, last, held, alive,
                       forks, outcome, fired>>

\* The connection ends before an answer, or there is one that cannot be read.
NoAnswer ==
    /\ pc = "awaiting"
    /\ reply = "refused" \/ (reply = "none" /\ service \in {"dead", "parted"})
    /\ End("error")
    /\ UNCHANGED <<client, upstream, cancelled, loop, replies, forks>>

\* write_response.
Write(answer) ==
    /\ got' = Append(got, answer.request)
    /\ alive' = (alive /\ ~answer.closes)

Respond ==
    /\ pc = "answering" /\ answers # <<>>
    /\ \E decision \in Table!Answers(Permitted, "response") :
           /\ responded' = Append(responded,
                               [request |-> Head(answers).request, decision |-> decision])
           /\ \/ /\ decision = "reorder"
                 /\ held' = Append(held, Head(answers))
                 /\ UNCHANGED <<got, alive, pc, checker>>
              \/ decision = "drop" /\ UNCHANGED <<got, held, alive, pc, checker>>
              \/ decision = "close" /\ End("ok") /\ UNCHANGED <<got, held, alive>>
              \/ /\ decision \in {"allow", "delay", "corrupt"}
                 /\ Write(Head(answers))
                 /\ UNCHANGED <<held, pc, checker>>
    /\ answers' = Tail(answers)
    /\ UNCHANGED <<sent, halfClosed, gone, upstream, cancelled, loop, decided>>

WriteHeld ==
    /\ pc = "answering" /\ answers = <<>> /\ held # <<>>
    /\ Write(Last(held))
    /\ held' = Front(held)
    /\ UNCHANGED <<sent, halfClosed, gone, upstream, cancelled, pc, loop, answers, forks, checker>>

RespondFails ==
    /\ pc = "answering" /\ gone /\ answers \o held # <<>>
    /\ End("error")
    /\ UNCHANGED <<client, upstream, cancelled, loop, replies, forks>>

\* exchange returns, to the loop or out of it.
Return ==
    /\ pc = "answering" /\ answers = <<>> /\ held = <<>>
    /\ \/ (last \/ ~alive) /\ End("ok")
       \/ ~last /\ alive /\ pc' = "reading" /\ UNCHANGED checker
    /\ alive' = TRUE
    /\ UNCHANGED <<client, upstream, cancelled, loop, answers, held, forks>>

Adapter ==
    \/ Refuse \/ Connect \/ ConnectFails
    \/ Read \/ ReadFails \/ StopReading
    \/ Forward \/ ForwardFails \/ Answered \/ NoAnswer
    \/ Respond \/ WriteHeld \/ RespondFails \/ Return

Service == ServiceAnswers \/ ServiceDies

Next == Send \/ HalfClose \/ Vanish \/ Cancel \/ Service \/ Adapter

\* The tasks run, and the service answers a request or goes away.
Spec == Init /\ [][Next]_vars /\ WF_vars(Adapter) /\ WF_vars(Service)

-----------------------------------------------------------------------------

Requests == 1..MaxRequests
Over == pc \in {"ended", "refused"}

TypeOK ==
    /\ sent \in 0..MaxRequests /\ Len(decided) <= sent
    /\ got \in Seq(Requests) /\ written \in Seq(Requests)
    /\ deferred \in Seq(Requests) /\ batch \in Seq(Requests) /\ pending \in Seq(Requests)
    /\ service \in {"open", "busy", "parted", "dead"} /\ reply \in {"none", "stay", "close", "refused"}
    /\ pc \in {"accepted", "refused", "reading", "forwarding", "awaiting", "answering", "ended"}
    /\ pc \in {"forwarding", "awaiting"} <=> batch # <<>> /\ ~Over
    /\ outcome \in {"none", "ok", "error"}

Place(request) == CHOOSE i \in DOMAIN written : written[i] = request

\* Of two requests in a row that both reach the service, the later goes first
\* exactly when the fork of the earlier answered reorder, however many were
\* deferred before it and whether a request, the end of the stream or the end
\* of the run released them (serve_connection's stack of deferred requests).
ReorderLetsTheNextGoFirst ==
    \A request \in ToSet(written) : request + 1 \in ToSet(written) =>
        (Place(request + 1) < Place(request) <=> decided[request] = "reorder")

ResponseTo(request) ==
    {responded[i].decision : i \in {j \in DOMAIN responded : responded[j].request = request}}

\* Reordering requests never reorders answers: the client gets them in the
\* order it asked, each once, unless the fork of the earlier answer itself
\* answered reorder (exchange's sort).
AnswersInTheOrderAsked ==
    \A i, j \in DOMAIN got :
        i < j => /\ got[i] # got[j]
                 /\ got[i] > got[j] => ResponseTo(got[j]) = {"reorder"}

\* The service and the client each see the order the forks decided.
OrderAsDecided == ReorderLetsTheNextGoFirst /\ AnswersInTheOrderAsked

\* Unless the schedule cut the connection, a task that ends well has lost
\* nothing: every request it read was forwarded or dropped at its fork, and
\* every answer it got was passed on or dropped at its own.
NothingLost ==
    outcome = "ok" /\ "close" \notin ToSet(decided)
        /\ (\A i \in DOMAIN responded : responded[i].decision # "close")
        => \A request \in DOMAIN decided :
               /\ decided[request] # "drop" <=> request \in ToSet(written)
               /\ request \in ToSet(got) <=>
                      request \in ToSet(written) /\ ResponseTo(request) # {"drop"}

\* The checker fires for no fault of the schedule and for nothing the client
\* did: on a connection it reports stranded the service went away, or answered
\* what read_response refuses, and the task told of an error.  (Of the two the
\* report says the same, that a request is unanswered.)
FiresOnlyForTheService ==
    fired => outcome = "error" /\ (service \in {"dead", "parted"} \/ reply = "refused")

\* The checker of retried keys (idempotent_retry_returns_same_response) fires
\* exactly when two attempts with one idempotency key were told different things,
\* on whichever connections and with whatever between them; and no request of
\* several connections is forgotten when its connection closes or the run ends.
\* A fact about observations, looked at once.
RetriesAreCompared ==
    Init => \A length \in 0 .. 5 : ChecksAreExact(length, {1, 2}, {"k", "l"}, {1, 2})

\* A client that stops sending, or a run that ends, ends the task: nothing
\* deferred, no pooled connection and no answer on hold keeps it open.
TaskEnds == (halfClosed \/ gone \/ cancelled) ~> Over
=============================================================================
