# misorder in TLA+

misorder puts proxies between a service and what it talks to, decides at every
*fork* (a message, an acknowledgement, a connection) whether to let it be or to
perturb it, and reports when an invariant breaks. This directory holds TLA+
models of the parts where being wrong is easy and testing is hard, TLC
configurations that check them on small instances, and TLAPS proofs of the
results that must hold at every size.

`C/` below stands for `src/crates/misorder/src/`.

## Inventory

| Component | State it keeps | Operations | What makes it hard | What makes it correct |
| --- | --- | --- | --- | --- |
| Faults and seeds (`C/schedule/fault.rs`, `seeded.rs`) | none: a function of seed and fork | `applies_at`, `fork_kinds`, `decide` | a fault permitted where no adapter can carry it out | an answer depends on seed and fork only |
| Scheduler and forks (`C/schedule/mod.rs`, `C/proxy/mod.rs`) | connection counter and fork table per proxy; one recorder per run | `next_connection`, `Forks::next`, `Scheduler::decide` | tasks of different connections run in parallel | a fork is answered alike however the tasks interleave |
| Trace and replay (`C/trace`) | records in order; the map of a replay; keys used and unmatched; the file | `record`, `without`, `Replay::decide`, `divergence`, `save`, `load` | a neutralised decision changes which forks are reached; a file is overwritten in place | a replay is called faithful exactly when it went the same way; no fault is added; a half-written file is no trace of another run |
| Shrinker (`C/shrink`) | candidate, granularity, attempts | `fails_with`, `ddmin`, `partition` | the oracle need not be monotone; the budget may end anywhere | the result still fails, is 1-minimal, and was paid for |
| HTTP adapter (`C/proxy/http.rs`) | deferred requests, batch, held answers; what is left of a socket | accept, read, forward, answer, release; `framing`, `read_body`, `encode` | pipelining, half-close, cancellation, a service that dies in the middle or answers what cannot be read; four ways of saying where a message ends | the order the schedule chose and no other, no invented failure, the task ends, every peer agrees on where a message ends |
| Redis adapter (`C/proxy/redis.rs`) | deferred commands, batch | the same, per command; `read_command`, `read_reply` | observations of two connections are not ordered as the server ran them; replies nest, and some are refused | an observed order is an order Redis may have seen; one reply is read for one command |
| Postgres adapter (`C/proxy/postgres.rs`) | groups deferred, each perhaps until a later fork; prepared statements and portals | `release`, exchange of a group, `read_group` | `Hold` names a fork that may not come; a `Bind` names SQL of an earlier group | every group goes up once, holds end, the checker is told the SQL that runs |
| NATS adapter (`C/proxy/nats.rs`) | pending acks per connection, deferred deliveries | two pumps in one task; `read_frame` | acks race deliveries; either pump ends the other; the table of acks has a limit | redelivery is the server's; acks are matched to deliveries |
| Readiness (`C/proxy/mod.rs`, `C/orchestrator/process.rs`) | three flags | raise, wait with a timeout | raised before anybody waits | no signal is lost |
| Checker and invariants (`C/invariant`) | one state machine per invariant, which fired | `observe`, `finish` | order and completeness of observations | fires only for the service, and when it should |
| Run lifecycle (`C/runner.rs`, `C/workload.rs`) | stage, proxies, services, containers | `execute`, `drive`, `await_quiescence`, teardown | any stage fails while everything else runs | teardown, checks in the right order, an outcome that says what happened |
| Orchestrator (`C/orchestrator`) | containers, child processes | start, probe, apply topology, stop | one of several fails; one is somebody else's | nothing is left behind |
| Sweep (`C/runner.rs`: `fuzz_with`, `Seeds`, `Shard`; `progress.rs`) | two counters, the progress line | launch, finish, shard | runs finish in any order; seeds end at `u64::MAX` | every seed once, every outcome counted once |
| Scenario files, corpus, user-defined invariants (`C/scenario`, `C/corpus`, `C/invariant/user.rs`) | none | resolve, look up, build | five places refuse a scenario, each on a condition of its own | `mis check` foretells them |
| Reports (`C/report`) | none | `Reproducer::build`, `to_report`, grouping | delivery order is told from decisions alone | what is counted and listed is what happened |
| Command line (`src/apps/misorder-cli`) | the trace file, standard output, exit code | check, run, fuzz, replay, shrink | a failure after the finding; one command reads what another wrote | exit codes, files and reports tell the truth |
| Demo services | - | - | examples of systems under test | - |

How they interact. An adapter's task calls `ProxyContext::decide` at every fork;
that numbers the fork in the proxy's own table and asks the run's one scheduler,
which asks a seed or a replay and appends to the run's one trace. Adapters emit
observations into an unbounded channel and raise readiness signals. The runner
starts everything, waits for each service, drives the workload through the
ingress proxy, cancels and joins the proxies, feeds the channel to the checker,
asks for terminal checks, and tears down. A failing run's trace goes to the
shrinker, which replays whole runs as its oracle. The command line runs one
execution, or a sweep of them, keeps traces and reports in files, and exits with
a code.

## Modules

| Module | Models | Its state and actions in the code |
| --- | --- | --- |
| `Schedule` | the fault tables and what a seed may answer | pure operators; a decision is its `discriminant()` |
| `ForkIdentity` | fork keys and lookup by key | `PointKey`, the `match` of `Replay::decide` |
| `KeyedSchedule` | abstract: each connection's n-th fork of a kind is answered by a function of just that | what the comments of `PointKey` and `Scheduler` promise |
| `Forks` | the proxies of one run | `connections` is `ProxyContext::connections`, `counters` is `Forks::counters`, `trace` the recorder, `used`/`unmatched` are `Replay::seen`; `Number`, `Decide`, `Record` are the three locks `ProxyContext::decide` takes one after another |
| `Replaying` | a recording run, then a replay of its trace with any of its active decisions neutralised | `Without`, `DecisionsOf`, `Unused`, `Faithful` are the functions of those names |
| `Shrink` | `ddmin`, one action per question to the oracle | `candidate` is a set of positions in the list of active keys, since every candidate is a subsequence of it |
| `HttpProxy` | one HTTP connection: client, adapter task, service, checker | `deferred` and `batch` are those of `serve_connection`, `answers` and `held` those of `exchange`, `pending` that of `EveryRequestReachesTerminalState` |
| `HttpWire` | heads, framing, bodies and their encoding | a function per function of `http.rs`; a socket is a sequence of lines and bytes |
| `HttpChecks` | both HTTP checkers over several connections | `Observe` and `Finish` of each; what a run shows them is a fold of `Observe` |
| `RedisProxy` | connections that share one lock key: clients, adapter tasks, the server, two checkers | `conn[c]` holds the locals of `serve_connection` and `exchange`, `unanswered` is the queue of `EveryCommandGetsAReply`, `owner`/`believed`/`pending` are `owner`/`held`/`pending` of `LockReleasedByOwner` |
| `RespWire` | commands and replies, nested, with attributes, null or inline | `read_command`, `inline`, `read_reply` |
| `PostgresProxy` | one Postgres connection: login, adapter task, server session, checker | `deferred` is that of `serve_connection`, with 0 for `until: None`; `Released` and `Kept` are `release`; `Events` is `Group::events` as `NoCommitAfterError` sees it |
| `PostgresWire` | startup packets, groups with prepared statements and portals, answers | `read_startup`, `read_group`, `Session`; a history is read group by group, each with what follows it on the socket, beside what the server makes of the same messages |
| `NatsProxy` | one JetStream consumer: server, two pumps, service, checker, reconnections | `deferred` and `batch` are those of `pump_to_client_inner`, `ack` is the frame `pump_to_server_inner` has in hand, `remembered` is `Pending` with its limit, `closed` the child token |
| `NatsWire` | operations in both directions, ack subjects and payloads | `read_frame`, `parse_ack_subject`, `ack_event` |
| `NatsChecks` | topology, subject filters, the other three NATS checkers | a fold per checker; the time a payload was last seen is kept beside it |
| `Wire` | what the wire modules share: readings, torn tokens, a corrupted byte | `corrupt` |
| `Runner` | one run from `execute` to its outcome, with readiness | `stage` is the line `execute` or `drive` is at; `log` the channel, `signals` the flags of `Readiness`, `busy` the proxies with a connection that waits for a reply or a login, `driven`, `checked`, `outcome` the three results; `refused`, a history, the containers the daemon did not remove |
| `Scenario` | what a scenario must say, and where it is refused | `RefusedAt` goes through `resolve`, the corpus, `build_all` and the proxies; `AllMarkedGood` is what `mis check` prints |
| `Traces` | the trace as a document: recording, replay, file, delivery order, signature | `TraceOf`, `Follow`, `Without`, `Load`, `ArrivedOn`, `Signature` |
| `Sweep` | seeds, shards, runs in flight, counters, progress line, grouping | `mine` is the shard's seeds, `flying` the runs of `buffer_unordered`, `line` what the bar shows |
| `Campaign` | `mis check`, `run`, `fuzz`, `replay`, `shrink`, one after another | `pc` is where `main` is; `file` the trace file's lines, `stdout` the documents printed, `exit` the code |
| `Ranking` | the elements of a set as a list, in a given order | `Ranked` is `sort_by_key`, `Picked` a filter of a list |
| `ShrinkProofs`, `ReplayProofs`, `RunnerProofs`, `HttpProofs`, `RedisProofs`, `PostgresProofs`, `NatsProofs`, `CampaignProofs` | theorems about `Shrink`, `Replaying`, `Runner`, the four adapters and `Campaign` | each extends its module, or the MC module where wire and checks meet it, and adds the invariant |
| `MCForks`, `MCShrink`, `MCHttpProxy`, `MCRunner`, `MCRedisProxy`, `MCPostgresProxy`, `MCNatsProxy`, `MCCampaign` | constants for TLC | |

How they compose. `Replaying` extends `Forks`, which instantiates `KeyedSchedule`
and is checked to implement it. `MCForks`, the four adapters, `Traces` and
`Scenario` take what a fork may answer from the tables of `Schedule`. Each
adapter's MC module extends its wire and check modules beside it. `Runner` sees
an adapter only as a task that emits observations, raises signals, may end with
an error, and does not end while a connection of it awaits an answer, which is
what `execute` sees of it. `Campaign` extends `Scenario`,
`Traces` and `Sweep`, which take their lists from `Ranking`; it sees a run as the trace it records and the invariants it
breaks, and the shrinker as what `ShrinkProofs` proves of it: a search whose
result still fails.

What the models abstract. Delays and corrupted offsets do not show in the
adapter models: a delayed or corrupted message takes the path of an unharmed
one; `Wire` has the corrupted byte itself. A token of a wire module is what the
adapter reads at once, a line or a count of bytes, and header fields, SQL and
command words that change nothing are left out. In `RedisProxy` every `SET NX`
has a token of its own, a client that reconnects is another connection, and a
command is `SET NX` or `DEL` of one key. In `PostgresProxy` what a group asks for
is chosen when it goes upstream, since nothing reads it before. In `NatsProxy`
messages share a subject; publishes and control lines pass straight through and
are left out. No fault of the tables answers `drop` at a Redis or Postgres fork,
so that branch is unreachable and absent. A write and the observation after it
are two steps in `RedisProxy`, where connections are tasks that run in parallel,
and one in `NatsProxy`, whose pumps are branches of one task. In `Campaign` a run
is one step, since nothing the command line does goes on beside it but other
runs of a sweep.

History variables (`took`, `decided`, `responded`, `written`, `original`,
`trespassed`, `stolen`, `ran`, `causes`, `settled`, `overdue`, `mistaken`,
`crossed`, `misjudged`, `results`, `whole`, `refused`, ...) are read by properties
and by no guard, except that `Len(decided)` and `Len(asked)` number requests.
An operator that precedes a definition and reads like a wrong version of it
(`CountOnce`, `KeepStarted`, `JoinStopping`, ...) is one: it documents the bug
that the property named in `PROJECT.json` would catch.

A property of the form `Init => ...` states a fact about functions (what a
reader makes of every message of a bounded size); it is looked at in the initial
states and costs nothing afterwards.

## Runs

| Run | Question | Properties |
| --- | --- | --- |
| `replay_one_proxy` | Do parallel connections keep the keyed schedule, and does "faithful" mean what it says? | `KeepsPromise`, `FaithfulIffSame`, `NoNewFault` |
| `replay_two_proxies` | The same with two proxies | refuted, see below |
| `shrink` | ddmin against every oracle | `StillFails`, `BudgetHonest`, `OneMinimal`, `QuadraticCost` |
| `http_proxy` | Order, loss, invented failures and termination of a connection; framing; the retry checker | `OrderAsDecided`, `NothingLost`, `FiresOnlyForTheService`, `FramingAgrees`, `RetriesAreCompared`, `TaskEnds` |
| `runner` | Teardown, what stays behind, readiness, what a pass means, what holds a run up | `ChecksJudgeTheRun`, `LeavesNothingBehind`, `ReadinessIsHeard`, `PassIsEarned`, `RunEnds` |
| `runner_ceiling` | The hard ceiling on a run | refuted, see below |
| `redis_proxy` | Replies in the client's order; what the two checkers' verdicts mean; frames | `RepliesMatchPositions`, `StrandedOnlyByServer`, `LockReportsAreRight`, `FramesAreWhole` |
| `postgres_proxy` | The order the forks decided, nothing held is lost, commit reports, logins, what a group is said to run | `OrderAsDecided`, `NothingDiscarded`, `AnswersMatchPositions`, `CommitReportsAreRight`, `GroupsAreUnderstood`, `LoginEnds` |
| `postgres_goodbye` | A goodbye while groups are held | refuted, see below |
| `nats_proxy` | When `no_delivery_after_ack` may fire and when it must, across reconnections; the other checkers; pumps end together | `FiresForAReason`, `RedeliveryIsReported`, `ChecksMeanWhatTheySay`, `PumpsEndTogether` |
| `nats_misattributed` | The checker without any fault | refuted, see below |
| `campaign` | What exit codes, files, reports and counts mean over sequences of commands | `ExitTellsTheTruth`, `FailureKept`, `WrittenTraceReplays`, `ReplayMeansFollowed`, `SweepAccounts`, `CheckForetells`, `DeliveryOrderExact`, `CommandsEnd` |

`KeepsPromise` is the refinement: every behaviour of `Forks` under recording and
replay is one of `KeyedSchedule`. Each of these is stated above its definition.
The modules' `TypeOK` have no run of their own, since they say little that
these properties do not; they are proved, those of `RedisProxy` and `NatsProxy`
in the form `Typed`.

Instances and why they are enough. *Replay*: two connections interleave, two
forks of a kind make an ordinal other than zero and let a close cut one off;
every seed over `redelivery` and `connection_drop`, every subset of active
decisions neutralised. *Shrink*: four decisions are the least on which both
refining and a reduction after refining happen, against all 2^15 oracles that
fail on the whole, with budgets 0, 5 and 100. *HTTP*: four requests allow two reorders in a row followed by an
ordinary request and by the end of the stream; client, service and run may end
at any point. A body of three bytes can be cut into three chunks, and a head of
four lines has room for two contradictory lengths. Five observations are what it
takes for two connections to try a key each, one answered, and one to close.
*Runner*: with two dependencies one can fail after another has succeeded, and
one may be somebody else's; two services are waited for one after another, in
either order of signals; a third scenario has neither; the workload has a batch of
two posts, a wait and a publish; each removal of each container may fail (605 234
states). *Redis*: one client takes the lock, it expires,
the other takes it, and the first deletes it - three commands, the shortest
theft there is, and enough for a reorder on either side; any reply may be one that
is refused (1 186 953 states); replies nest two deep.
*Postgres*: with four groups a hold of two forks, a reorder and two delivered
groups meet in one list, and a login takes one of twelve forms, GSS and SSPI of one
to three rounds among them (270 606 states); three groups of up to four messages can prepare, bind,
execute and close, and with one name remembered the table is full at once. *NATS*: a message,
its redelivery and another message are what it takes to charge an ack to the
wrong one; four deliveries and connections in all leave a redelivery on a second
connection, and a table of two names fills up. *Campaign*: two batches, of two
deliveries and of one, make a trace that an edit lengthens and shortens; three
commands write, overwrite and read a file; words of two bits reach their top in
a sweep of two; two verdicts in the other order tell the shrinker's target from
the first violation of its result; one file has its records out of order and a key
twice, and one command line is one that clap refuses.

Every bound is a constant used as a guard of the action that would exceed it, or
as the size of a message: `MaxConnections`, `MaxForks`, `MaxRequests`, `MaxHead`,
`MaxBody`, `MaxTraffic`, `MaxCommands`, `MaxDepth`, `MaxBulk`, `MaxGroups`,
`MaxHold`, `MaxMessages`, `MaxPrepared`, `MaxDeliver`, `MaxPending`, `MaxWork`,
`MaxUnread`, `MaxPayload`, `Unlimited`, `Window`, `MaxRepeats`, `Top`. Of these
`MaxHead`, `MaxBody`, `MaxDepth`, `MaxBulk`, `MaxMessages`, `MaxPrepared`,
`MaxPending` and `MaxPayload` are limits of the code made small, `MaxDeliver`,
`Window` and `MaxRepeats` settings of a scenario, and `Top` is `u64::MAX`.

`CHECK_DEADLOCK FALSE` is in every configuration because every one of these
systems ends: a search is done, a connection closes, a run is over, a script has
no more commands.

### Fairness

- `HttpProxy`: `WF_vars(Adapter)` because a spawned tokio task that can go on is
  polled, and `WF_vars(Service)` because the service answers or its connection
  ends; an answer need not be one that can be read. Nothing is assumed of the client
  or of the cancellation. A service that is silent for ever is not in this model; `runner_ceiling` is about that one.
- `PostgresProxy`: only the login is scheduled. The adapter relays what it can,
  the server says its next word when it is its turn, a client that was asked
  for a password gives one, and a server that has left is noticed by who reads from
  it. `LoginEnds` needs no more. A login may also fail at any moment.
- `NatsProxy`: each of the two pumps goes on when it can; a write it is in the
  middle of succeeds or fails. Nothing is assumed of the service, of the server
  or of the sockets.
- `Runner`: the function `execute`, each proxy's task and a batch that can be
  answered are scheduled; a service that is waited for is ready in time or is
  given up on, `ready_timeout` being such a step. Nothing is assumed of failures,
  of the run's clock, of signals or of background traffic. A cancelled proxy's task
  ends once none of its connections has something to wait for, and not before:
  `serve` joins its connection tasks, and those of Redis and Postgres look at no
  cancellation while they await a reply (`C/proxy/redis.rs:378`) or a login
  (`C/proxy/postgres.rs:669`). So `RunEnds` is conditional: a run ends *if*
  `EveryoneAnswers`, that is the service takes no request and leaves it, and what a
  connection awaits comes or breaks off. The code promises neither; a blocking
  `BLPOP` that nobody feeds holds a run, since services are stopped only after the
  join (`C/runner.rs:564`-`589`). What `RunEnds` shows is that nothing else does.
- `Campaign`: `WF_vars(Next)`, a process goes on until it exits and the shell
  then starts the next. That a run ends is what `runner` is about.
- `RedisProxy`, `Shrink` and `Replaying` state safety only and assume none.

## What was refuted

Each is a `violation` run and a finding in `PROJECT.json`.

1. *Two proxies share keys.* A fork's key names kind, connection and ordinal but
   not the proxy, and each proxy counts from one. A replay of a run with two
   proxies answers one with the other's decision and reports no divergence.
2. *`run.timeout` is no ceiling.* It is read once, after the workload: a service
   that takes a request and never answers holds the run (`CeilingHolds`).
3. *A goodbye overtakes.* `Terminate` goes upstream at once, then the groups the
   schedule held go to a server that has left.
4. *An ack is charged to the wrong message.* `NoDeliveryAfterAck` takes the
   payload last delivered on the subject for the one acked. With two messages in
   the service's hands and a server that behaves, it reports a violation.

Seen while modelling, each stated by a proviso or a path of the models rather
than by a run of its own:

- *A failure that needs no fault* keeps one decision, since ddmin never tries
  the empty set (`C/shrink/mod.rs:166`); `OneMinimal` has the proviso.
- *Behind a farewell.* When the service answers with `Connection: close`, the
  adapter still writes the deferred requests of the batch behind it
  (`C/proxy/http.rs:401`); the one left unanswered is reported as the service's
  failure. `FiresOnlyForTheService` allows for a service that has `"parted"`.
- *An answer that is refused* leaves its question unanswered in the report.
  `read_response` takes no head over `MAX_HEAD`, no body over `MAX_BODY`, no folded
  header and no length that is none (`C/proxy/http.rs:691`-`838`), `read_reply` no
  nesting past `MAX_DEPTH`, no bulk over `MAX_BULK`, no unknown type and no empty line
  (`C/proxy/redis.rs:575`, `598`, `673`, `717`). The connection's task then ends with
  an error, and the checker says that a live peer never answered. Both
  `FiresOnlyForTheService` and `StrandedOnlyByServer` name that cause beside the
  broken connection.
- *A GSS or SSPI login never ends* when the server's last continue asks for nothing:
  the client is done, the server speaks next, and the adapter waits for the client.
  `C/proxy/postgres.rs:704` says the methods are listed "because `SASLFinal` is the
  one that ends a round without asking for anything"; the last continue is another.
  `LoginEnds` excepts the logins in which it comes (`Unanswerable`).
- *Exit code 2 without a run.* clap ends the process on a command line it does not
  take, with a code of its own (`src/apps/misorder-cli/src/main.rs:43`), and that code
  is 2, which `main.rs:17`-`26` reserves for "the service under test has a bug" so
  that it is told from "the harness could not run"; a test says "a bad scenario is
  exit 1, never exit 2" (`src/apps/misorder-cli/tests/cli.rs:142`), and a bad option is
  exit 2. The commands of a session include a `mistyped` one, and
  `ExitTellsTheTruth` excepts it by name.
- *A proxy's error is dropped* (`C/runner.rs:565`): a run with a refused command
  can pass. *Containers stay* when the topology cannot be applied
  (`C/runner.rs:539`), and any that the daemon refuses to remove
  (`C/orchestrator/docker.rs:406`, "best effort", where a failure is only logged);
  `LeavesNothingBehind` names both exceptions. A removal that fails keeps none of the
  others from being asked for.
- A seed may answer `reorder` at a Redis or Postgres response
  (`C/schedule/fault.rs:101`), and the adapter ends the connection with an
  internal error: the outcome `"undoable"`. `Hold` at a Redis statement delivers
  at once.
- *Redis exchanges that overlap* are observed in an order Redis may not have
  seen, and `lock_released_by_owner` then both invents and misses; both its
  properties have the proviso `~overlapped`.
- *Cut mid-batch.* When Postgres ends the session before a batch of reordered
  groups is answered, the answers it did give go back at earlier positions than
  their questions had; holds longer than a seed's do the same while the session
  lives. `AnswersMatchPositions` has both provisos.
- *Crossing.* An ack written while the redelivery is on its way is followed by a
  delivery, and reported: `crossed` in `FiresForAReason`.
- An ack on another connection than its delivery's names no subject and marks
  nothing (`C/proxy/nats.rs:374`), so `AckedThenDelivered` is about the others.
- `Handled::delivered` and `Handled::classify` (`C/proxy/nats.rs:297`, `326`)
  are called by nothing, so no `DeadLettered` is ever observed; and
  `serve_connection` passes the pumps an argument (`:420`, `:430`) they do not
  take (`:442`, `:549`), which does not compile. The model follows the pumps.
- `await_quiescence` sleeps rather than waiting for an idle window, so
  `eventually_quiescent` reports nothing in a run that passes (`PassIsEarned`).
- Seeds saturate at the top of `u64`; the sweep then runs one seed several times,
  and counts each (`SweepAccounts` allows it and holds).
- *Framing.* An interim 1xx is taken for the answer (`C/proxy/http.rs:692`); a
  chunked body torn after its size-0 line is taken for whole, which `CutOff`
  allows; a HEAD answer goes on with a length of 0.
- A RESP3 push is taken for the reply to a command, and attributes are kept and
  forwarded (`C/proxy/redis.rs:645`) where line 53 says they are discarded.
- *A stale portal.* With the table of names full, or after SQL-level `PREPARE`, a
  `Bind` of an unknown name leaves the portal's old SQL, which a later `Execute`
  reports (`C/proxy/postgres.rs:905`); `GroupsSayWhatRuns` is about sessions that
  stay below the limit. Of several executes in a group the first is reported.
- Consumers of one name on two streams overwrite each other in
  `max_deliver_respected`, which is keyed by consumer (`C/invariant/builtin/nats.rs:60`).
  The table of pending acks is cleared whole at its limit, not "the oldest"
  (`C/proxy/nats.rs:132`): `cleared` in `RedeliveryIsReported`.
- *Readiness is shared.* A second service with `first_connection` is ready as soon
  as the first has connected, and a connection the schedule refuses counts
  (`C/proxy/mod.rs:359`); `ReadinessIsHeard` says what was crossed and not by whom.
- Cleaning up after a dependency that did not start asks the daemon to remove
  `"external"` (`C/orchestrator/docker.rs:237`), which is nobody's container.
- *check is not the whole truth.* A workload that posts to nobody, a user's check of
  a service or database that is not there, and SQL in a build without it pass
  `mis check` and fail later; `CheckForetells` names them. Replay and shrink do not
  look vendors up.
- `mis fuzz --max-failures` limits what is shrunk and printed and stops nothing,
  where `src/apps/misorder-cli/src/cli.rs:200` says it stops the sweep; the bar of
  the shrinking has the maximum for its denominator.
- Standard output is not one document: `run --trace -` prints the trace before the
  reproducer, and again when it was shrunk; `fuzz --report -` prints reproducers
  before the document (`cli.rs:323`).
- A sweep all of whose runs are incomplete exits 0; a trace or report that cannot
  be written turns a finding into exit 1 (`ExitTellsTheTruth` has both).
- The oracle accepts any violation of the invariant it shrinks for, the report
  shows the first violation of the shrunk replay: not the same in general, so
  `FailureKept` and `WrittenTraceReplays` ask for membership. `mis shrink` asks only
  that something still breaks.
- A dropped ack is reported as `swallow_ack` and every delay as `delay`
  (`C/trace/decision.rs:172`), so another fault that caused them reads "not
  required". A signature leaves out the invariant, so two bugs may share one
  (`C/trace/mod.rs:202`). `render_arrivals` mixes positions of several connections
  (`C/report/mod.rs:211`), so `DeliveryOrderExact` is about one.

## Proofs

Each theorem is about the specification with every value of the constants its
assumptions allow; the property it states is the one a run checks, so the run
shows it on a small instance first. Where no property is named, the theorem is
about the types or about the inductive invariant itself.

| Module | Theorem | Property |
| --- | --- | --- |
| `ShrinkProofs` | `TypeCorrect` | `TypeOK` |
| | `AlwaysReproduces` | `StillFails` |
| | `BudgetKept` | `BudgetHonest` |
| | `EndsOneMinimal` | `OneMinimal` |
| | `ReductionsEarned` | `ReductionEarned` |
| | `CostIsQuadratic` | `QuadraticCost` |
| `ReplayProofs` | `TypeCorrect` | `TypeOK` |
| | `PromiseKept` | `KeepsPromise`, the refinement of `KeyedSchedule` |
| | `NothingAdded` | `NoNewFault`, for one proxy |
| | `VerdictIsRight` | `FaithfulIffSame`, for one proxy |
| `RunnerProofs` | `TypeCorrect` | `TypeOK` |
| | `ChecksAreFair` | `ChecksJudgeTheRun` |
| | `NothingIsLeft` | `LeavesNothingBehind` |
| | `SignalsCount` | `ReadinessIsHeard` |
| | `PassesAreEarned` | `PassIsEarned` |
| `HttpProofs` | `TypeCorrect` | `TypeOK` |
| | `InTheDecidedOrder` | `OrderAsDecided` |
| | `StrandedByService` | `FiresOnlyForTheService` |
| | `NothingGoesMissing` | `NothingLost` |
| | `ChecksAlwaysExact` | `RetriesAreCompared`, for observations of any length |
| | `FramingAlwaysAgrees` | `FramingAgrees`, for bodies of any size |
| `RedisProofs` | `TypeCorrect` | `Typed` |
| | `RepliesInOrder` | `RepliesMatchPositions` |
| | `StrandedByServer` | `StrandedOnlyByServer` |
| | `LockJudgedRightly` | `LockReportsAreRight` |
| | `FramesAlwaysWhole` | `FramesAreWhole`, for replies that nest to any depth |
| `PostgresProofs` | `TypeCorrect` | `TypeOK` |
| | `CommitsJudgedRightly` | `CommitReportsAreRight` |
| | `NothingGoesUnsent` | `NothingDiscarded` |
| | `InTheDecidedOrder` | `OrderAsDecided` |
| | `AnswersFollowPositions` | `AnswersMatchPositions` |
| | `GroupsAlwaysUnderstood` | `GroupsAreUnderstood`, for histories of any length |
| `NatsProofs` | `TypeCorrect` | `Typed` |
| | `ReportsHaveAReason` | `FiresForAReason` |
| | `RedeliveriesAreReported` | `RedeliveryIsReported` |
| | `ChecksAlwaysExact` | `ChecksMeanWhatTheySay`, for observations of any length |
| `CampaignProofs` | `EveryStageIsAsItSays` | (`CampaignInv`) |
| | `ExitCodesAreTrue` | `ExitTellsTheTruth` |
| | `ChecksForetell` | `CheckForetells` |
| | `FailuresAreKept` | `FailureKept` |
| | `WrittenTracesReplay` | `WrittenTraceReplays` |
| | `PassesFollowed` | `ReplayMeansFollowed`, for every file |
| | `SweepsAccount` | `SweepAccounts` |
| | `OrdersAreExact` | `DeliveryOrderExact`, for batches of any length |

### From which assumptions

Sizes are natural numbers, positive where the code has a positive constant or a
setting that must be positive (`MaxConnectionsAssumption`, `MaxForksAssumption`,
`MaxRequestsAssumption`, `MaxCommandsAssumption`, `TopAssumption`,
`LimitsAssumption` of `Shrink`, the two `BoundsAssumption`s); messages are
numbered from one (`MessagesAssumption`). A head may have four lines
(`LimitsAssumption` of `HttpWire`): a first line, a length beside an encoding and
the blank; `MAX_HEAD` has room for far more. A reply may nest and a bulk string
hold a byte (`RespAssumption`; `MAX_DEPTH` is 32 and `MAX_BULK` eight MiB). `ActiveAssumption`: the active
decisions are a sequence of keys. `KindsAssumption`: an adapter has no kind of
its own called `connection`. `SeedsAssumption`: a seed answers for forks.
`RunnerAssumption`: dependencies are a list without repeats, a workload is a list
of steps, every scenario has a service and leaves to others only dependencies it
lists. `NoneAssumption` and `FileAssumption`: the value for "absent" is no stage
and no file; `NothingAssumption`: that for "no shard" is no shard. `BatchesAssumption`,
`PermittedAssumption`, `SessionsAssumption` and `VerdictsAssumption`: batches have
lengths, permitted faults are faults, a session is a script of commands, each with
the options the parser gives it or `mistyped`, and an oracle's verdict is a list of
invariants' names.

Two theorems about replays have the hypothesis `OneProxy`, since two proxies
refute them (finding 1). `PassesFollowed` has none about the file: its records may be in any order, as connections at the
same time leave them, and keys may be repeated, as proxies that share them do; the
last record of a key is the one that counts, as in the map of `Replay::new`.
`WrittenTracesReplay` is narrower. The runs of `Traces` are of one proxy and of one
connection after another, so the files that `Campaign` writes are in key order;
equality of a file with its replay is claimed for those, and finding 1 refutes it
for two proxies.

### Along which arguments

None of the properties is inductive as it stands. Each module names the parts of
the invariant that makes it so, checked by TLC on the run's instance before it
was proved, and shows for each part that every action keeps it.

*Shrink.* `OneMinimal` says nothing before the search is done. `IInv` adds
`LoopsHaveWork` (in both loops the candidate has two decisions) and
`TriedAreNeeded` (unless the budget ran out, each complement already tried does
not fail). When the last complement has been tried at the finest granularity,
every chunk is one decision (`FinestChunks`, from `RankIdentifies`: ranks in a
finite set tell its members apart), so every complement misses exactly one and
`TriedAreNeeded` is 1-minimality. `QuadraticCost` needs more: `WithinCost` says
that what was asked and what may still be asked (`StillToAsk`) are together
within the bound. A refinement asks at most two questions per chunk, and pays for
them with the granularity it gains, the last one with the size of the candidate;
a decision that is lost pays for starting again. The bound is `n² + 4n`: with
`3n`, which holds on every small instance, a search of 33 decisions whose chunks
do not divide evenly is over it, and the attempt to prove it was what showed that.

*Replay.* `RunInv`: a connection belongs to at most one task, its counter of a
kind is the number of forks of that kind it took, plus one while it stands at
one, and so the fork it stands at is the next one. That gives the refinement:
the recorded key is the promised one, whatever the other tasks do between the
three locks. `ReplayInv` adds that the trace is what the tasks took, that keys
occur in it once (this needs `OneProxy`), that the replay's map is the recording
less what was removed, and that `used` and `unmatched` are what was asked. From
it a verdict of faithful is equality of the two runs in both directions.

*Runner.* `RunnerInv`: the stage orders what is up. `DriveReturns` (what `drive`
returned is known once it has returned), `ServicesUp`, `ProxiesServe`,
`ContainersAreOwn`, `WorkDone`, `LogIsRead` (the checker has read a prefix of
the log, and from its finishing on the whole), `SignalsAreHeard` (a
flag stays up from its raising on, so a wait that begins later still sees it).

*HTTP and Postgres, on the connection.* Which of two questions goes upstream first is a relation
between two positions and the decisions made so far (`Before`). In HTTP it is:
the earlier one if a request in between started an exchange, else the later
one. In Postgres a group waits for a fork of its own, and of two groups released
together the newer goes first. `OrderInv` says that what was written, what is
in the batch and what is deferred respect it; `Accounted` and `Shape`
(HTTP), `Apart`, `AllPlaced` and `AllRan` (Postgres) that a question is in
exactly one of those places until it is answered; `AnswersInv` and `Placed`
where each answer goes. `TransactionIsKnown` is what `no_commit_after_error`
knows of the server's transaction: with it, its report is the server's state.

*The HTTP checkers.* Both are followed event by event. `EndInv` and `RetryInv` say
what a checker's maps hold after the first so many: the last event of each
connection if it is a request, the answer to the last one, the attempts of every
key that were answered. The theorem is about any number of observations, of any
connections, with any keys and answers. It needs that a connection's requests and
answers take turns, which `exchange` sees to: it answers one request before it
reads another.

*HTTP messages.* A message is a head without a blank, a blank and a rest
(`Opened`), and what reads such a message reads the rest as the head says
(`SaysItself`). A rest in chunks is read turn by turn: after `k` turns of the loop
of `read_chunked` the body is what the first `k` chunks hold and the socket what
is behind them, or an error if the socket ends before (`AfterTurns`, shown for the
least turn at which it would fail). This holds wherever the socket ends, so it
gives both that a whole body is read and that one which is cut off is not; only
the trailer behind the last chunk may be missing. What is sent on is again of the
first form, with one length, so the same lemma reads it. Bodies have any number
of bytes up to any limit and are cut into chunks in any way.

*What a Postgres group runs.* After any number of messages a session's two maps
hold exactly the names that are open, each with the SQL last said of it
(`Learnt`): as long as no more are open than a session may remember (`HasRoom`),
`Session::remember` refuses nothing. The SQL of a group is then what its first
`Parse`, `Bind` or `Execute` stands for, or the text of its `Query` (`Told`), and
this goes from group to group (`HistoryIsUnderstood`) by induction on the number
of groups. A history may be of any length, over any messages and any names; the
run enumerates three groups of seven shapes.

*Redis.* `Placed`: what a client got, what is deferred, what is to be sent and
what is answered but not sorted yet are four stretches of its numbers, which is
all that answering by position needs. `StrandedEnded` says why a command may
stay unanswered. `LockInv`, in twelve parts, says what the lock checker knows of
the server's lock while exchanges do not overlap: whose token it is, that a
holder has been told or is about to be, and that a theft was seen.

*Redis frames.* A value is read whole (`IsValue`) if at every depth and before
whatever follows it the reader takes its bytes and no others, or refuses it where
it would nest too deeply, and if nothing it begins with is read. A value of a type
byte and parts that are read whole is read whole itself (`TwoElements`,
`OneElement`, `NoElements`, `AttributeIsValue`, `BlobIsValue`): a stream cut off is
cut off in the line, in the first part or behind it (`CutJoined`). So every value
is, by induction on how deeply it nests (`AllAreValues`), up to and past the limit.
What a reader of one more level makes of a socket is a function of what the reader
below it makes of every socket (`ReplyIs`). Commands are read word by word; what is
sent on is the same words with the name in upper case, which reads as the same
command (`SentencesAre`).

*NATS.* `Numbered`: a delivery is in one place at a time and bears a number the
server has counted. `TableIsTrue`: the table of pending acks is what this
connection delivered, unless it was emptied. `AckInHand`, `AckedIsOver`,
`SettledIsAcked`: a message the checker holds to be acked is neither on its way
nor about to be sent again, unless an ack was mistaken or crossed.

*The other NATS checkers.* For each, what its tables hold after the first so many
events: the limits and filters in force, by the last event that set them; the
sightings of a payload that are within the window, counted by the numbers of the
entries that bear it. A filter is judged by the first word that decides. The
theorem assumes that the times of observations do not go back, as `Instant` does
not, and that no count passes `Unlimited`. Frames are taken operation by
operation, for every size of payload.

*Campaign.* Ranked lists hold the elements of their set once and in order
(`ListingIs`, by well-founded induction on the number of predecessors); what a
run records is such a list (`TraceIs`); a replay of a recording takes the
recorded decision at each fork and so reaches the same ones
(`FollowIsRecorded`), and a replay of any file that departs from it nowhere was given
what the file says last (`FollowsToTheEnd`); what a save leaves behind reads back as
it should (`SaveReads`). `CampaignInv` then says, stage by stage of
a command, where the run, its shrunk form and the file come from; the theorems
are about what is left when the command exits. `AccountsInv` is the invariant of
a sweep: what is in flight and what ended are the seeds launched, the counters
count what ended (`CountInv`), the line and the callback show those counters
(`LineInv`, `ReportedInv`), a shard's seeds are its share of all (`ShardInv`), and
the document has every failing run in the group of its signature (`DocumentInv`);
ranked lists being bijections, each is there once. `OrdersAreExact` follows the
arrivals of a batch, delivery by delivery, for a batch of any length.

Some definitions have the form they have so that they can be reasoned about: an
order is chosen by what makes it one (`InTheOrderAsked`, `NewestFirst`,
`Ranked`) rather than computed by a recursive sort, `deferred` of
`PostgresProxy` is the set of what waits, since each entry carries its order,
the loop of `read_chunked` is a function of the number of its turns, and the
recursion of `read_reply` is a function of the levels that are left.

### What is only model-checked

- What holds eventually: `TaskEnds`, `RunEnds`, `LoginEnds`, `PumpsEndTogether`,
  `CommandsEnd`.
- What is refuted, of course.

## Not modelled, and why

- The random generator behind a seed. A seed is any function from forks to the
  answers the tables allow.
- Docker's API, the bytes of a probe, SQL, JetStream and process I/O beyond
  succeeding or failing.
- The request, query and comparison of a user-defined invariant: one call and one
  comparison, after the run is over.
- Redis commands other than the two about the lock (the scripted release is a
  `DEL` to the checker), Postgres cancel requests past the connection they end,
  isolation levels and savepoints (text to the adapter).
- TOML, durations and paths of a scenario; wording, colours and layout of reports;
  which command lines clap takes, `--help` and `--version`; telemetry.
- The temporary file behind `--trace -` (`src/apps/misorder-cli/src/cli.rs:931`): the
  save and the reading back fail or succeed as one step, and two commands of one
  seed that share it at the same time are not modelled.
- Processes that do not die when killed: stopping a service always takes it down.
- Kerberos V5 logins (method 2), which no supported Postgres server offers.
- `Handled::delivered` and `classify` of the NATS adapter: called by nothing.
- The demo services: examples of systems under test.

One hazard has no property because the code does what a property would forbid:
containers stay behind when the topology cannot be applied (`C/runner.rs:539`),
which `LeavesNothingBehind` excepts by name. Of the login's hazard `LoginEnds` covers
all but the GSS and SSPI logins it excepts, for the same reason.

## What is open

The modules and runs of the tables above are there, and so are the theorems of
the table under Proofs. What could still be added, in this order:

1. What one step may not do, as action properties of the adapters: nothing got is
   taken back, nothing decided is decided again.
2. The facts of `ShrinkProofs` that `Campaign` relies on, as one abstract
   specification of a search that `Shrink` implements.
