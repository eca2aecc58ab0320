--------------------------- MODULE PostgresProxy ---------------------------
(***************************************************************************)
(* One Postgres connection: the login, the adapter's task, the server's    *)
(* session, and the checker of no_commit_after_error.  A statement group - *)
(* what the server answers as one - is numbered from 1 in the order the    *)
(* client sent it, which is also one more than its fork's ordinal.         *)
(*                                                                         *)
(* What a group asks for is chosen when it goes upstream, since nothing    *)
(* reads it before.  A delayed or corrupted group takes the path of an     *)
(* unharmed one, and no fault answers drop at a fork of this adapter.      *)
(***************************************************************************)
EXTENDS Naturals, Sequences, FiniteSets, SequencesExt, Functions, TLC

CONSTANTS
    Permitted,      \* the faults the scenario lists
    MaxGroups,      \* bound: groups the client sends
    MaxHold         \* bound: how many forks ahead a hold names; a seed says 1

ASSUME BoundsAssumption == MaxGroups \in Nat /\ MaxHold \in Nat \ {0}

Table == INSTANCE Schedule

VARIABLES
    script, said, waiting, owes,        \* the login
    session, wire,                      \* the server, and the group or answer in flight
    pc, deferred, batch, last, outcome, \* serve_connection
    answers, alive,                     \* exchange
    got,                                \* the client: complete answers read
    errored, reported,                  \* NoCommitAfterError
    asked, written, ran, causes,        \* history: forks, order upstream, run, why it ended
    voided, lost                        \* history: commits sent in vain, in a failed transaction

login == <<script, said, waiting, owes>>
server == <<session, wire>>
loop == <<deferred, batch, last>>
exchanged == <<answers, alive, got>>
checker == <<errored, reported>>
history == <<asked, written, ran, causes, voided, lost>>
vars == <<login, server, pc, loop, outcome, exchanged, checker, history>>

\* What a server says to let somebody in.  SCRAM's last round asks for nothing,
\* and neither does the last continue of GSS or SSPI where the server proves
\* itself too: gssLast, the method of gssContinue.
Logins == {<<"ok">>, <<"cleartext", "ok">>, <<"md5", "ok">>,
           <<"sasl", "saslContinue", "saslFinal", "ok">>}
          \cup {<<method>> \o rounds : method \in {"gss", "sspi"},
                rounds \in {<<"ok">>, <<"gssContinue", "ok">>, <<"gssLast", "ok">>,
                           <<"gssContinue", "gssLast", "ok">>}}
Asks == {"cleartext", "md5", "sasl", "saslContinue", "gss", "sspi", "gssContinue"}

Init ==
    /\ script \in Logins /\ said = "none" /\ waiting = FALSE /\ owes = FALSE
    /\ session = "idle" /\ wire = "none"
    /\ pc = "accepted" /\ outcome = "none"
    /\ deferred = {} /\ batch = <<>> /\ last = FALSE
    /\ answers = <<>> /\ alive = TRUE /\ got = <<>>
    /\ errored = FALSE /\ reported = FALSE
    /\ asked = <<>> /\ written = <<>> /\ ran = <<>> /\ causes = {}
    /\ voided = FALSE /\ lost = FALSE

Over == pc \in {"ended", "refused"}

\* However serve_connection returned, the end is observed.
End(result) ==
    /\ pc' = "ended" /\ outcome' = result
    /\ errored' = FALSE
    /\ UNCHANGED reported

-----------------------------------------------------------------------------
\* The server.

Speak ==
    /\ pc \in {"authenticating", "relaying"} /\ session # "over"
    /\ said = "none" /\ ~waiting
    /\ said' = IF script = <<>> THEN "ready" ELSE Head(script)
    /\ waiting' = (script # <<>> /\ Head(script) \in Asks)
    /\ script' = IF script = <<>> THEN script ELSE Tail(script)
    /\ UNCHANGED <<owes, server, pc, loop, outcome, exchanged, checker, history>>

\* It refuses the session, is told to end it, or crashes.
Quit ==
    /\ session # "over" /\ ~Over
    /\ session' = "over"
    /\ causes' = causes \cup {"died"}
    /\ UNCHANGED <<login, wire, pc, loop, outcome, exchanged, checker,
                   asked, written, ran, voided, lost>>

Requests == {"begin", "commit", "rollback", "other"}

\* What a request does to the session, and whether it is answered with errors.
Effects(request) ==
    CASE request = "rollback" -> {<<"idle", FALSE>>}
      [] request = "commit" ->
             {<<"idle", FALSE>>} \cup (IF session = "active" THEN {<<"idle", TRUE>>} ELSE {})
      [] request \in {"begin", "other"} /\ session = "failed" -> {<<"failed", TRUE>>}
      [] request = "begin" /\ session # "failed" -> {<<"active", FALSE>>}
      [] request = "other" /\ session # "failed" ->
             {<<session, FALSE>>, <<IF session = "active" THEN "failed" ELSE session, TRUE>>}

Execute ==
    /\ wire \in Requests /\ session # "over"
    /\ \E effect \in Effects(wire) :
           /\ session' = effect[1]
           /\ wire' = IF effect[2] THEN "error" ELSE "answer"
    /\ ran' = Append(ran, Head(batch))
    /\ UNCHANGED <<login, pc, loop, outcome, exchanged, checker,
                   asked, written, causes, voided, lost>>

-----------------------------------------------------------------------------
\* Accept and login.

Refuse ==
    /\ pc = "accepted"
    /\ "close" \in Table!Answers(Permitted, "connection")
    /\ pc' = "refused"
    /\ UNCHANGED <<login, server, loop, outcome, exchanged, checker, history>>

Connect ==
    /\ pc = "accepted" /\ session # "over"
    /\ pc' = "starting"
    /\ UNCHANGED <<login, server, loop, outcome, exchanged, checker, history>>

ConnectFails ==
    /\ pc = "accepted" /\ session = "over"
    /\ End("error")
    /\ UNCHANGED <<login, server, loop, exchanged, history>>

\* A request for encryption is answered no and changes nothing.
Startup ==
    /\ pc = "starting"
    /\ pc' = "authenticating"
    /\ UNCHANGED <<login, server, loop, outcome, exchanged, checker, history>>

\* A cancel request, the end of the stream, or a packet that does not decode.
NoStartup ==
    /\ pc = "starting"
    /\ \E result \in {"ok", "error"} : End(result)
    /\ UNCHANGED <<login, server, loop, exchanged, history>>

\* The methods after which the adapter waits for the client.
AnyButOk == {"kerberos", "cleartext", "md5", "gss", "gssContinue", "gssLast", "sspi",
             "sasl", "saslContinue", "saslFinal"}
Answered == {"kerberos", "cleartext", "md5", "gss", "gssContinue", "gssLast", "sspi",
             "sasl", "saslContinue"}

Relay ==
    /\ pc = "authenticating" /\ said # "none"
    /\ said' = "none"
    /\ owes' = (said \in Asks)
    /\ pc' = IF said = "ready" THEN "reading"
             ELSE IF said \in Answered THEN "relaying" ELSE pc
    /\ UNCHANGED <<script, waiting, server, loop, outcome, exchanged, checker, history>>

\* A client that was asked answers.
RelayAnswer ==
    /\ pc = "relaying" /\ owes
    /\ owes' = FALSE /\ waiting' = FALSE
    /\ pc' = "authenticating"
    /\ UNCHANGED <<script, said, server, loop, outcome, exchanged, checker, history>>

\* Either side has gone, or a message is too short to name a method.
LoginFails ==
    /\ pc \in {"authenticating", "relaying"}
    /\ \E result \in {"ok", "error"} : End(result)
    /\ UNCHANGED <<login, server, loop, exchanged, history>>
ServerLeft == pc = "authenticating" /\ session = "over" /\ LoginFails

-----------------------------------------------------------------------------
\* The loop.  An entry of deferred waits for a fork, or with 0 for the next
\* group that goes up.  Entries are pushed in the order asked and taken from the
\* end, so they are a set that is taken newest first.

ReadyEarly(entry, ordinal) == entry.until <= ordinal + 1
Ready(entry, ordinal) == entry.until <= ordinal

Orders(entries) == {entry.order : entry \in entries}
NewestFirst(orders) ==
    CHOOSE list \in [1 .. Cardinality(orders) -> orders] :
        \A i, j \in DOMAIN list : i < j => list[i] > list[j]

\* release.
Released(ordinal) == NewestFirst(Orders({entry \in deferred : Ready(entry, ordinal)}))
Kept(ordinal) == {entry \in deferred : ~Ready(entry, ordinal)}

Defer(order, until) ==
    /\ deferred' = deferred \cup {[order |-> order, until |-> until]}
    /\ UNCHANGED <<batch, last, pc, outcome, checker, causes>>

Read ==
    LET ordinal == Len(asked) + 1
    IN  /\ pc = "reading" /\ ordinal <= MaxGroups
        /\ \E decision \in Table!Answers(Permitted, "statement"), ahead \in 1..MaxHold :
               /\ decision # "hold" => ahead = 1
               /\ asked' = Append(asked, [decision |-> decision, until |-> ordinal + ahead])
               /\ \/ decision = "reorder" /\ Defer(ordinal, 0)
                  \/ decision = "hold" /\ Defer(ordinal, ordinal + ahead)
                  \/ decision = "close" /\ End("ok") /\ causes' = causes \cup {"cut"}
                     /\ UNCHANGED loop
                  \/ /\ decision \in {"allow", "delay"}
                     /\ batch' = <<ordinal>> \o Released(ordinal)
                     /\ deferred' = Kept(ordinal)
                     /\ pc' = "forwarding"
                     /\ UNCHANGED <<last, outcome, checker, causes>>
        /\ UNCHANGED <<login, server, exchanged, written, ran, voided, lost>>

\* A group cut short, a Flush, or a message that belongs nowhere.
ReadFails ==
    /\ pc = "reading"
    /\ End("error")
    /\ UNCHANGED <<login, server, loop, exchanged, history>>

\* Nothing later is coming, so whatever is held goes up, newest first.
DiscardDeferred == End("ok") /\ UNCHANGED loop
Stop ==
    \/ deferred = {} /\ End("ok") /\ UNCHANGED loop
    \/ /\ deferred # {}
       /\ batch' = NewestFirst(Orders(deferred)) /\ deferred' = {}
       /\ last' = TRUE /\ pc' = "forwarding"
       /\ UNCHANGED <<outcome, checker>>

\* The client closes, or the run is cancelled.
StopReading ==
    /\ pc = "reading"
    /\ Stop
    /\ UNCHANGED <<login, server, exchanged, history>>

\* The client says goodbye, which goes up at once and without a fork.  A server
\* that is gone already makes this an error of ReadFails' kind.
Terminate ==
    /\ pc = "reading" /\ session # "over"
    /\ session' = "over"
    /\ causes' = causes \cup {"terminated"}
    /\ Stop
    /\ UNCHANGED <<login, wire, exchanged, asked, written, ran, voided, lost>>

-----------------------------------------------------------------------------
\* exchange.  Each group is answered before the next is written.  A group is
\* observed as it goes up.

EventsClearedByRollback(request) ==
    /\ errored' = (errored /\ request # "rollback")
    /\ reported' = (reported \/ (errored /\ request = "commit"))
Events(request) ==
    /\ errored' = (errored /\ request \notin {"begin", "rollback"})
    /\ reported' = (reported \/ (errored /\ request = "commit"))

Write ==
    /\ pc = "forwarding"
    /\ \E request \in Requests :
           /\ wire' = IF session = "over" THEN "nowhere" ELSE request
           /\ Events(request)
           /\ voided' = (voided \/ (request = "commit" /\ session # "active"))
           /\ lost' = (lost \/ (request = "commit" /\ session = "failed"))
    /\ written' = Append(written, Head(batch))
    /\ pc' = "awaiting"
    /\ UNCHANGED <<login, session, loop, outcome, exchanged, asked, ran, causes>>

WriteFails ==
    /\ pc = "forwarding" /\ session = "over"
    /\ End("error")
    /\ UNCHANGED <<login, server, loop, exchanged, history>>

InTheOrderAnswered(list) == list
InTheOrderAsked(list) ==
    CHOOSE sorted \in [DOMAIN list -> ToSet(list)] :
        \A i, j \in DOMAIN list : i < j => sorted[i].order < sorted[j].order

\* Reading an answer, whole or cut off by the end of the session, which may
\* have said why before it went.
Take(complete, errors) ==
    LET all == Append(answers, [order |-> Head(batch), complete |-> complete])
        rest == IF complete THEN Tail(batch) ELSE <<>>
    IN  /\ errored' = (errored \/ errors)
        /\ alive' = (alive /\ complete)
        /\ batch' = rest
        /\ IF rest = <<>>
           THEN pc' = "answering" /\ answers' = InTheOrderAsked(all)
           ELSE pc' = "forwarding" /\ answers' = all
        /\ wire' = "none"

ReadAnswer ==
    /\ pc = "awaiting"
    /\ \/ wire \in {"answer", "error"} /\ Take(TRUE, wire = "error")
       \/ session = "over" /\ \E errors \in BOOLEAN : Take(FALSE, errors)
    /\ UNCHANGED <<login, session, deferred, last, outcome, got, reported, history>>

\* A notification, a copy, or a frame that does not decode.
AnswerRefused ==
    /\ pc = "awaiting" /\ session # "over"
    /\ End("error")
    /\ UNCHANGED <<login, server, loop, exchanged, history>>

Respond ==
    /\ pc = "answering" /\ answers # <<>>
    /\ \E decision \in Table!Answers(Permitted, "response") :
           \/ /\ decision \in {"allow", "delay", "corrupt"}
              /\ got' = IF Head(answers).complete THEN Append(got, Head(answers).order) ELSE got
              /\ answers' = Tail(answers)
              /\ UNCHANGED <<pc, outcome, checker, causes>>
           \/ decision = "close" /\ End("ok") /\ causes' = causes \cup {"cut"}
              /\ UNCHANGED <<got, answers>>
           \/ decision \in {"reorder", "hold"} /\ End("undoable")
              /\ UNCHANGED <<got, answers, causes>>
    /\ UNCHANGED <<login, server, loop, alive, asked, written, ran, voided, lost>>

RespondFails ==
    /\ pc = "answering" /\ answers # <<>>
    /\ End("error")
    /\ UNCHANGED <<login, server, loop, exchanged, history>>

Return ==
    /\ pc = "answering" /\ answers = <<>>
    /\ \/ (last \/ ~alive) /\ End("ok")
       \/ ~last /\ alive /\ pc' = "reading" /\ UNCHANGED <<outcome, checker>>
    /\ UNCHANGED <<login, server, loop, exchanged, history>>

Adapter ==
    \/ Refuse \/ Connect \/ ConnectFails
    \/ Startup \/ NoStartup \/ Relay \/ RelayAnswer \/ LoginFails
    \/ Read \/ ReadFails \/ StopReading \/ Terminate
    \/ Write \/ WriteFails \/ ReadAnswer \/ AnswerRefused
    \/ Respond \/ RespondFails \/ Return

Next == Adapter \/ Speak \/ Execute \/ Quit

\* The adapter's task runs, a server in the middle of a login goes on with it,
\* and a client that is asked for a password gives one.
Spec == Init /\ [][Next]_vars /\ WF_vars(Speak)
        /\ WF_vars(Relay \/ RelayAnswer \/ ServerLeft)

-----------------------------------------------------------------------------

Groups == 1..MaxGroups

TypeOK ==
    /\ session \in {"idle", "active", "failed", "over"}
    /\ wire \in Requests \cup {"none", "nowhere", "answer", "error"}
    /\ pc \in {"accepted", "refused", "starting", "authenticating", "relaying", "reading",
              "forwarding", "awaiting", "answering", "ended"}
    /\ outcome \in {"none", "ok", "error", "undoable"}
    /\ {batch, got, written, ran} \subseteq Seq(Groups) /\ Len(asked) <= MaxGroups
    /\ pc \in {"forwarding", "awaiting"} => batch # <<>>
    /\ Orders(deferred) \cap ToSet(batch) = {}
    /\ \A list \in {batch, written, ran} : IsInjective(list)

\* Where the forks put a group.  One that was not deferred goes up before every
\* later group; one that was, goes after those delivered up to the first
\* delivered at or past the fork it waits for, and before the rest.
Direct(group) == asked[group].decision \in {"allow", "delay"}
Place(group) == CHOOSE i \in DOMAIN written : written[i] = group
OrderAsDecided ==
    \A group, later \in ToSet(written) :
        group < later /\ Direct(later) =>
            (Place(later) < Place(group) <=>
                /\ ~Direct(group)
                /\ \A between \in group + 1 .. later - 1 :
                       Direct(between) => between < asked[group].until)

\* "Sent rather than discarded": when a task ends well and neither the schedule
\* nor the server ended the session, the server ran every group of the client,
\* those still waiting for a fork that never came included.
NothingDiscarded ==
    outcome = "ok" /\ causes = {} => ToSet(ran) = DOMAIN asked

\* The same when the client says goodbye.
HeldThenGoodbye ==
    outcome = "ok" /\ causes \subseteq {"terminated"} => ToSet(ran) = DOMAIN asked

\* A client matches answers to groups by position; while the session lives and
\* holds are a seed's, one fork long, the n-th answer it reads is that of its
\* n-th group.  (A longer hold lets other batches be answered in between.)
AsASeedHolds == \A group \in DOMAIN asked : asked[group].until = group + 1
AnswersMatchPositions ==
    alive /\ AsASeedHolds => \A i \in DOMAIN got : got[i] = i

\* A commit is reported if the server had failed its transaction, and only if
\* there was no transaction left for it to commit.
CommitReportsAreRight ==
    /\ lost => reported
    /\ reported => voided

\* Relaying the login never leaves the adapter waiting for one side while it is
\* the other's turn, whichever way the server lets a client in, unless a continue
\* of GSS or SSPI that asks for nothing is still to come: the adapter waits for
\* the client's answer to that one, and all three wait.
Unanswerable == said = "gssLast" \/ "gssLast" \in ToSet(script)
LoginEnds ==
    (pc = "authenticating" /\ ~Unanswerable) ~> pc \notin {"authenticating", "relaying"}
=============================================================================
