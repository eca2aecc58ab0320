---------------------------- MODULE MCCampaign ----------------------------
EXTENDS Campaign

\* A scenario that runs, and the ways in which one may not.
Plain ==
    [named |-> TRUE, systems |-> 1, listens |-> TRUE, deps |-> {"redis"}, streams |-> <<>>,
     steps |-> <<{"post"}, {"wait"}, {"post"}>>, faults |-> {"connection_drop"},
     invariants |-> <<[builtin |-> "lock_released_by_owner", name |-> None, check |-> None,
                       query |-> FALSE]>>,
     vendors |-> {}]
Invariant(builtin) == [builtin |-> builtin, name |-> None, check |-> None, query |-> FALSE]
Asks(check) == [builtin |-> None, name |-> "mine", check |-> check, query |-> TRUE]
Wants(behaviour) == [vendor |-> "stripe", behaviour |-> behaviour]

Odd ==
    {[Plain EXCEPT !.invariants = <<>>],
     [Plain EXCEPT !.invariants = <<Invariant("no_such_thing")>>],
     [Plain EXCEPT !.invariants = <<Invariant("no_query_outside_transaction")>>],
     [Plain EXCEPT !.invariants = <<Invariant("no_commit_after_error")>>],
     [Plain EXCEPT !.invariants = <<Asks("sql")>>],
     [Plain EXCEPT !.invariants = <<Asks("http")>>, !.listens = FALSE, !.steps = <<>>],
     [Plain EXCEPT !.invariants = <<Asks("http"), Asks(None)>>],
     [Plain EXCEPT !.listens = FALSE],
     [Plain EXCEPT !.deps = {"postgres"}],
     [Plain EXCEPT !.faults = {"ack_timeout"}],
     [Plain EXCEPT !.steps = <<{"post", "wait"}>>],
     [Plain EXCEPT !.deps = {"nats", "redis"},
                   !.streams = <<[name |-> "s", subjects |-> 1, max_deliver |-> 1],
                                 [name |-> "s", subjects |-> 1, max_deliver |-> 1]>>],
     [Plain EXCEPT !.vendors = {Wants("retries")}],
     [Plain EXCEPT !.vendors = {Wants("forgets")}]}

Corpus == [stripe |-> [format |-> 1, vendor |-> "stripe", behaviours |-> {"retries"}]]
Full == {"http", "nats", "postgres", "redis"}

At(scenario, build, corpus, steady, terminal) ==
    [scenario |-> scenario, build |-> build, corpus |-> corpus, steady |-> steady,
     terminal |-> terminal]

Checking == [name |-> "check"]
Running(trace, shrink, json) ==
    [name |-> "run", seed |-> 0, trace |-> trace, shrink |-> shrink, json |-> json]
Fuzzing(start, count, parallel, max, report, shard) ==
    [name |-> "fuzz", start |-> start, count |-> count, parallel |-> parallel, max |-> max,
     report |-> report, shard |-> shard]
Replaying == [name |-> "replay"]
Shrinking(out) == [name |-> "shrink", out |-> out]

Mistyped == [name |-> "mistyped"]

\* A file of a run of one batch of three, of nothing, a torn one, others that
\* are not traces of this version, and one out of order with a key twice.
Lying ==
    {<<>>, <<Header, Header>>, <<Record(<<1, 1>>, "close")>>,
     <<[format |-> FormatVersion + 1]>>,
     <<Header, Record(<<1, 1>>, Allow), Record(<<1, 2>>, Allow), Record(<<1, 3>>, "close")>>,
     <<Header, Record(<<1, 1>>, Allow), Torn>>,
     <<Header, Record(<<2, 1>>, Allow), Record(<<1, 1>>, "close"), Record(<<1, 1>>, Allow),
       Record(<<1, 2>>, "close")>>}

Session(where, commands, left) == [setting |-> where, script |-> commands, file |-> left]

MCSessions ==
    {Session(At(Plain, Full, None, steady, FALSE), commands, None) :
        steady \in BOOLEAN,
        commands \in {<<Running("file", TRUE, FALSE), Replaying>>,
                     <<Running("-", FALSE, TRUE), Replaying>>, <<Mistyped, Replaying>>,
                     <<Running("file", FALSE, TRUE), Shrinking("file"), Replaying>>}}
    \cup {Session(At(Plain, Full, None, steady, FALSE), commands, left) :
             steady \in BOOLEAN, left \in Lying,
             commands \in {<<Replaying>>, <<Shrinking(None)>>, <<Shrinking("-"), Replaying>>}}
    \cup {Session(At(Plain, Full, None, TRUE, TRUE), <<fuzz>>, None) :
             fuzz \in {Fuzzing(2, 2, 2, 1, "file", Nothing), Fuzzing(3, 2, 0, None, "-", Nothing),
                       Fuzzing(0, 3, 1, 3, None, [index |-> 1, count |-> 2]),
                       Fuzzing(0, 3, 1, 3, None, [index |-> 2, count |-> 2])}}
    \cup {Session(At(scenario, build, corpus, TRUE, FALSE), commands, None) :
             scenario \in Odd, build \in {Full, {"http", "redis"}}, corpus \in {None, Corpus},
             commands \in {<<Checking, Running(None, FALSE, FALSE)>>,
                          <<Checking, Fuzzing(0, 1, 1, None, None, Nothing)>>}}

MCVerdicts == {<<>>, <<"A">>, <<"B", "A">>}
MCBatches == <<2, 1>>
MCPermitted == {"connection_drop"}
=============================================================================
