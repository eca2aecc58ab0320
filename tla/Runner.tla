------------------------------- MODULE Runner -------------------------------
(***************************************************************************)
(* One run, from nothing to an outcome: dependencies, topology, egress     *)
(* proxies, services, ingress proxy, workload, quiescence, checks, and     *)
(* the teardown in the order the code takes it.  The proxies are tasks of  *)
(* their own that emit observations into an unbounded channel; the checker *)
(* reads it once they have all been joined.                                *)
(*                                                                         *)
(* An observation is "good" or "bad" to the invariants of the scenario;    *)
(* bad ones fire one.  The services keep traffic going through the         *)
(* proxies for as long as they run.  What that traffic shows of them is    *)
(* raised as signals, for which the start of a service may wait.           *)
(***************************************************************************)
EXTENDS Naturals, Sequences, FiniteSets, SequencesExt

CONSTANTS
    Dependencies,   \* what the scenario asks for, in the order it is started
    Scenarios,      \* [modes, external]: ready_when of one service after the other, and
                    \* which dependencies somebody else runs
    Workload,       \* its steps
    MaxTraffic      \* bound: observations of the services' own traffic

ReadyWhen == {"immediate", "http_listening", "first_connection", "nats_subscription_active",
              "postgres_connected"}

ASSUME RunnerAssumption ==
    /\ Dependencies \in Seq({"nats", "postgres", "redis"})
    /\ IsInjective(Dependencies)
    /\ Scenarios # {}
    /\ \A s \in Scenarios : /\ s.modes \in Seq(ReadyWhen) \ {<<>>}
                            /\ s.external \subseteq ToSet(Dependencies)
    /\ Workload \in Seq({"post", "publish", "wait"})
    /\ MaxTraffic \in Nat

VARIABLES
    scenario,       \* one of Scenarios
    stage,          \* where execute and drive are
    containers,     \* the containers of this run
    refused,        \* history: those the daemon was told to remove, and did not
    started,        \* how many dependencies start_declared has to hand over
    proxies,        \* every proxy's task
    up,             \* services in Running
    booting,        \* the one after them: "no", "spawned" or "waiting"
    port,           \* its port: "closed", "open", or "exited" with it
    signals,        \* Readiness: what the proxies have seen
    crossed,        \* history: what crossed them
    misjudged,      \* history: a service was held ready, or not, against that
    health,         \* the first service, the one requests go to
    step,           \* the workload's next step
    waiting,        \* the driver reads a batch's answers to their end
    busy,           \* proxies with a connection that has an answer or a login to wait for
    expired,        \* run.timeout has passed
    cancelled,
    log,            \* the channel: every observation emitted, in order
    read,           \* how many of them the checker has been given
    fired,          \* an invariant of the scenario fired
    unsettled,      \* eventually_quiescent fired
    driven,         \* what drive returned
    checked,        \* what Checker::finish returned
    outcome         \* what execute returned

environment == <<containers, refused, started>>
services == <<scenario, up, booting, port>>
readiness == <<signals, crossed, misjudged>>
built == <<environment, services, readiness>>
work == <<step, waiting, busy>>
verdict == <<read, fired, unsettled, checked>>
vars == <<stage, built, proxies, health, work, expired, cancelled, log, verdict, driven, outcome>>

modes == scenario.modes
External == scenario.external
Systems == Len(modes)
AllProxies == ToSet(Dependencies) \cup {"ingress"}
Serving(proxy) == proxies[proxy] \in {"serving", "tainted"}

Init ==
    /\ scenario \in Scenarios
    /\ stage = "new"
    /\ containers = {} /\ refused = {} /\ started = 0 /\ up = 0 /\ booting = "no" /\ port = "closed"
    /\ signals = {} /\ crossed = {} /\ misjudged = FALSE
    /\ proxies = [proxy \in AllProxies |-> "none"]
    /\ health = "well" /\ step = 1 /\ waiting = FALSE /\ busy = {}
    /\ expired = FALSE /\ cancelled = FALSE
    /\ log = <<>> /\ read = 0 /\ fired = FALSE /\ unsettled = FALSE
    /\ driven = "none" /\ checked = "none" /\ outcome = "none"

-----------------------------------------------------------------------------
\* Before drive: a failure returns at once.

GiveUp ==
    /\ stage' = "over"
    /\ outcome' = "error"
    /\ UNCHANGED <<started, services, readiness, proxies, health, work, expired, cancelled, log,
                   verdict, driven>>

GoOn(next) ==
    /\ stage' = next
    /\ UNCHANGED <<services, readiness, proxies, health, work, expired, cancelled, log, verdict,
                   driven, outcome>>

\* invariant::build_all.
Build ==
    /\ stage = "new"
    /\ UNCHANGED <<containers, refused>>
    /\ \/ GoOn("environment") /\ UNCHANGED started
       \/ GiveUp

\* Somebody else's dependencies share one id, which is no container's.
IdOf(name) == IF name \in External THEN "external" ELSE name
Handed == {IdOf(Dependencies[i]) : i \in 1 .. started}

\* Client::remove, one container after another and each best effort: what the
\* daemon does not remove is logged, stays, and stops nothing.
AskUpToTheFirstRefused(asked) ==
    \E kept, left \in SUBSET (containers \cap asked) :
        /\ kept = {} => left = {}
        /\ containers' = (containers \ asked) \cup kept \cup left
        /\ refused' = refused \cup kept
AskToRemove(asked) ==
    \E kept \in SUBSET (containers \cap asked) :
        /\ containers' = (containers \ asked) \cup kept
        /\ refused' = refused \cup kept

\* start_declared removes what it had started when one will not start.
RemoveStarted == AskToRemove(Handed)

\* start_one, up to its container: the daemon, the image.
StartDependency ==
    LET name == Dependencies[started + 1]
    IN  /\ stage = "environment" /\ started < Len(Dependencies)
        /\ name \notin containers
        /\ IF name \in External
           THEN GoOn(stage) /\ started' = started + 1 /\ UNCHANGED <<containers, refused>>
           ELSE \/ GoOn(stage) /\ containers' = containers \cup {name}
                   /\ UNCHANGED <<started, refused>>
                \/ GiveUp /\ RemoveStarted

\* And from there: its start, its port, and the answer to a probe.  A
\* container that fails one of them is removed by start_one itself.
RemoveOwn(name) == AskToRemove(Handed \cup {name})

DependencyAnswers ==
    LET name == Dependencies[started + 1]
    IN  /\ stage = "environment" /\ started < Len(Dependencies)
        /\ name \in containers
        /\ \/ GoOn(stage) /\ started' = started + 1 /\ UNCHANGED <<containers, refused>>
           \/ GiveUp /\ RemoveOwn(name)

EnvironmentUp ==
    /\ stage = "environment" /\ started = Len(Dependencies)
    /\ GoOn("topology") /\ UNCHANGED environment

\* Streams and migrations.  Nothing takes down what is up when one fails.
ApplyTopology ==
    /\ stage = "topology"
    /\ UNCHANGED <<containers, refused>>
    /\ \/ GoOn("egress") /\ UNCHANGED started
       \/ Dependencies # <<>> /\ GiveUp

-----------------------------------------------------------------------------
\* drive.  Whatever it returns, the run is cancelled and taken down.

UnwindUncancelled(result) ==
    /\ driven' = result
    /\ stage' = "joining"
    /\ UNCHANGED cancelled
Unwind(result) ==
    /\ driven' = result
    /\ cancelled' = TRUE
    /\ stage' = "joining"

\* One proxy after another, in front of the dependencies in their order.
BindEgress ==
    /\ stage = "egress"
    /\ \/ \E i \in DOMAIN Dependencies :
              /\ proxies[Dependencies[i]] = "none"
              /\ \A j \in 1 .. i - 1 : proxies[Dependencies[j]] # "none"
              /\ \/ /\ proxies' = [proxies EXCEPT ![Dependencies[i]] = "serving"]
                    /\ UNCHANGED <<stage, driven, cancelled>>
                 \/ Unwind("error") /\ UNCHANGED proxies
       \/ /\ \A name \in ToSet(Dependencies) : proxies[name] # "none"
          /\ stage' = "systems"
          /\ UNCHANGED <<proxies, driven, cancelled>>
    /\ UNCHANGED <<built, health, work, expired, log, verdict, outcome>>

\* Service::start.
StartSystem ==
    /\ stage = "systems" /\ booting = "no" /\ up < Systems
    /\ \/ booting' = "spawned" /\ UNCHANGED <<stage, driven, cancelled>>
       \/ Unwind("error") /\ UNCHANGED booting
    /\ port' = "closed"
    /\ UNCHANGED <<environment, scenario, up, readiness, proxies, health, work, expired, log, verdict,
                   outcome>>

\* Then its readiness: Service::await_ready looks at the process and its port,
\* Readiness::wait at what the proxies have seen.
AwaitReady ==
    /\ booting = "spawned" /\ stage = "systems"
    /\ booting' = "waiting"
    /\ UNCHANGED <<stage, environment, scenario, up, port, readiness, proxies, health, work, expired,
                   cancelled, log, verdict, driven, outcome>>

Mode == modes[up + 1]
SignalOf == [first_connection |-> "connected", nats_subscription_active |-> "subscribed",
             postgres_connected |-> "postgres_ready"]
Shown(seen) ==
    \/ Mode = "immediate"
    \/ Mode = "http_listening" /\ port = "open"
    \/ Mode \in DOMAIN SignalOf /\ SignalOf[Mode] \in seen

SystemReady ==
    /\ booting = "waiting" /\ stage = "systems" /\ Shown(signals)
    /\ up' = up + 1 /\ booting' = "no"
    /\ misjudged' = (misjudged \/ ~Shown(crossed))
    /\ UNCHANGED <<stage, environment, scenario, port, signals, crossed, proxies, health, work, expired,
                   cancelled, log, verdict, driven, outcome>>

\* ready_timeout, or a service that has exited.  What is dropped is killed.
SystemNotReady ==
    /\ booting = "waiting" /\ stage = "systems" /\ ~Shown(signals)
    /\ booting' = "no" /\ port' = "exited"
    /\ misjudged' = (misjudged \/ Shown(crossed))
    /\ Unwind("error")
    /\ UNCHANGED <<environment, scenario, up, signals, crossed, proxies, health, work, expired, log,
                   verdict, outcome>>

\* Only a workload that posts gets an ingress proxy.
Posts == "post" \in ToSet(Workload)

BindIngress ==
    /\ stage = "systems" /\ booting = "no" /\ up = Systems
    /\ \/ stage' = "driving"
          /\ proxies' = [proxies EXCEPT !["ingress"] = IF Posts THEN "serving" ELSE @]
          /\ UNCHANGED <<driven, cancelled>>
       \/ Posts /\ Unwind("error") /\ UNCHANGED proxies
    /\ UNCHANGED <<built, health, work, expired, log, verdict, outcome>>

\* Driver::run.  Consecutive posts go out together.
NextIs(kind) == stage = "driving" /\ ~waiting /\ step <= Len(Workload) /\ Workload[step] = kind
AfterPosts ==
    Min({i \in step .. Len(Workload) + 1 : i > Len(Workload) \/ Workload[i] # "post"})

\* post_batch: everything is written, then the answers are read to the end of
\* the connection.  An ingress that is gone cannot be connected to.
Post ==
    /\ NextIs("post")
    /\ \/ /\ Serving("ingress")
          /\ waiting' = TRUE
          /\ step' = AfterPosts
          /\ UNCHANGED <<busy, stage, driven, cancelled>>
       \/ ~Serving("ingress") /\ Unwind("error") /\ UNCHANGED work
    /\ UNCHANGED <<built, proxies, health, expired, log, verdict, outcome>>

\* Straight to the dependency, which must say that it stored the message.
Publish ==
    /\ NextIs("publish")
    /\ \/ /\ "nats" \in ToSet(Dependencies)
          /\ step' = step + 1
          /\ UNCHANGED <<stage, driven, cancelled>>
       \/ Unwind("error") /\ UNCHANGED step
    /\ UNCHANGED <<built, proxies, health, waiting, busy, expired, log, verdict, outcome>>

Wait ==
    /\ NextIs("wait")
    /\ step' = step + 1
    /\ UNCHANGED <<stage, built, proxies, health, waiting, busy, expired, cancelled, log, verdict,
                   driven, outcome>>

WorkloadComplete ==
    /\ stage = "driving" /\ step > Len(Workload) /\ ~waiting
    /\ log' = Append(log, "complete")
    /\ stage' = "settling"
    /\ UNCHANGED <<built, proxies, health, work, expired, cancelled, verdict, driven, outcome>>

\* await_quiescence, up to its sleep and after it.
AwaitQuiescence ==
    /\ stage = "settling"
    /\ \/ expired /\ Unwind("error")
       \/ ~expired /\ stage' = "sleeping" /\ UNCHANGED <<driven, cancelled>>
    /\ UNCHANGED <<built, proxies, health, work, expired, log, verdict, outcome>>

Quiescent ==
    /\ stage = "sleeping"
    /\ log' = Append(log, "quiescent")
    /\ Unwind("ok")
    /\ UNCHANGED <<built, proxies, health, work, expired, verdict, outcome>>

-----------------------------------------------------------------------------
\* The proxies, the services and the clock, at any moment.

Traffic == Len(SelectSeq(log, LAMBDA entry : entry \in {"good", "bad"}))

\* Some service of the run is still there.
Alive == up > 0 \/ (booting # "no" /\ port # "exited")

\* Its port opens, or it exits.
ServiceListens ==
    /\ booting # "no" /\ port = "closed"
    /\ port' \in {"open", "exited"}
    /\ UNCHANGED <<stage, environment, scenario, up, booting, readiness, proxies, health, work, expired,
                   cancelled, log, verdict, driven, outcome>>

\* A connection is accepted, a subscription crosses or a login succeeds.  The
\* stronger signals imply the first.  After the last service is ready nobody
\* waits for them.
RaiseWhileAwaited(signal) ==
    signals' = IF booting = "waiting" THEN signals \cup {signal, "connected"} ELSE signals
Raise(signal) == signals' = signals \cup {signal, "connected"}

Carries == [nats |-> {"connected", "subscribed"}, postgres |-> {"connected", "postgres_ready"},
            redis |-> {"connected"}]

Signal(name) ==
    /\ stage = "systems" /\ Alive /\ Serving(name)
    /\ \E signal \in Carries[name] :
          /\ Raise(signal)
          /\ crossed' = crossed \cup {signal, "connected"}
    /\ UNCHANGED <<stage, environment, services, misjudged, proxies, health, work, expired, cancelled,
                   log, verdict, driven, outcome>>

\* The services talk to their dependencies through the proxies.
Observe ==
    /\ Traffic < MaxTraffic
    /\ Alive
    /\ \E name \in ToSet(Dependencies) : Serving(name)
    /\ \E event \in {"good", "bad"} : log' = Append(log, event)
    /\ UNCHANGED <<stage, built, proxies, health, work, expired, cancelled, verdict, driven, outcome>>

\* The service answers the batch, or dies under it, and the connection closes.
Exchange ==
    /\ waiting /\ Serving("ingress") /\ health # "hung"
    /\ waiting' = FALSE
    /\ \E event \in {"good", "bad"} : log' = Append(log, event)
    /\ proxies' = IF health = "dead" THEN [proxies EXCEPT !["ingress"] = "tainted"] ELSE proxies
    /\ UNCHANGED <<stage, built, health, step, busy, expired, cancelled, verdict, driven, outcome>>

\* A connection of a service has something to wait for that it waits for
\* whether the run is cancelled or not: the reply to a command in flight, or to
\* those it holds back for the end, or the two ends of a login.  Only nats reads
\* with an eye on the cancellation throughout.
Await(name) ==
    /\ ~cancelled /\ Alive /\ Serving(name)
    /\ name \in {"postgres", "redis"} \ busy
    /\ busy' = busy \cup {name}
    /\ UNCHANGED <<stage, built, proxies, health, step, waiting, expired, cancelled, log, verdict,
                   driven, outcome>>

\* All of it has come, or broken off.
Answered(name) ==
    /\ name \in busy
    /\ busy' = busy \ {name}
    /\ UNCHANGED <<stage, built, proxies, health, step, waiting, expired, cancelled, log, verdict,
                   driven, outcome>>

\* A connection ends with an error: refused, undecodable, broken.
ConnectionFails(proxy) ==
    /\ proxies[proxy] = "serving"
    /\ Alive
    /\ proxies' = [proxies EXCEPT ![proxy] = "tainted"]
    /\ UNCHANGED <<stage, built, health, work, expired, cancelled, log, verdict, driven, outcome>>

\* serve returns once its accept loop has ended and its connections are done.
Serve(proxy) ==
    /\ Serving(proxy)
    /\ cancelled /\ proxy \notin busy /\ (proxy = "ingress" => ~waiting)
    /\ proxies' = [proxies EXCEPT ![proxy] = IF @ = "tainted" THEN "failed" ELSE "ended"]
    /\ UNCHANGED <<stage, built, health, work, expired, cancelled, log, verdict, driven, outcome>>

\* Or as soon as it cannot accept, and then its connections are aborted.
AcceptFails(proxy) ==
    /\ Serving(proxy)
    /\ proxies' = [proxies EXCEPT ![proxy] = "failed"]
    /\ waiting' = (waiting /\ proxy # "ingress")
    /\ busy' = busy \ {proxy}
    /\ UNCHANGED <<stage, built, health, step, expired, cancelled, log, verdict, driven, outcome>>

ServiceChanges ==
    /\ up > 0 /\ health = "well"
    /\ health' \in {"dead", "hung"}
    /\ UNCHANGED <<stage, built, proxies, work, expired, cancelled, log, verdict, driven, outcome>>

Expire ==
    /\ ~expired /\ stage # "over"
    /\ expired' = TRUE
    /\ UNCHANGED <<stage, built, proxies, health, work, cancelled, log, verdict, driven, outcome>>

-----------------------------------------------------------------------------
\* After drive.

Joined == \A proxy \in AllProxies : ~Serving(proxy)

JoinStopping ==
    /\ stage = "joining" /\ Joined
    /\ stage' = "collecting"
    /\ up' = 0
    /\ UNCHANGED <<environment, scenario, booting, port, readiness, proxies, health, work, expired,
                   cancelled, log, verdict, driven, outcome>>
Join ==
    /\ stage = "joining" /\ Joined
    /\ stage' = "collecting"
    /\ UNCHANGED <<built, proxies, health, work, expired, cancelled, log, verdict, driven, outcome>>

\* Checker::observe, for what is in the channel until every sender is gone.
Collect ==
    /\ stage = "collecting"
    /\ \/ /\ read < Len(log)
          /\ read' = read + 1
          /\ fired' = (fired \/ log[read + 1] = "bad")
          /\ UNCHANGED stage
       \/ /\ read = Len(log)
          /\ stage' = "finishing"
          /\ UNCHANGED <<read, fired>>
    /\ UNCHANGED <<built, proxies, health, work, expired, cancelled, log, unsettled, checked,
                   driven, outcome>>

\* Checker::finish.  A terminal check that cannot be made is an error.
Told(event) == event \in ToSet(SubSeq(log, 1, read))

Finish ==
    /\ stage = "finishing"
    /\ unsettled' = (Told("complete") /\ ~Told("quiescent"))
    /\ \/ checked' = "ok" /\ fired' \in {fired, TRUE}
       \/ checked' = "error" /\ UNCHANGED fired
    /\ stage' = "stopping"
    /\ UNCHANGED <<built, proxies, health, work, expired, cancelled, log, read, driven, outcome>>

StopServices ==
    /\ stage = "stopping"
    /\ up' = 0
    /\ stage' = "removing"
    /\ UNCHANGED <<environment, scenario, booting, port, readiness, proxies, health, work, expired,
                   cancelled, log, verdict, driven, outcome>>

SecondOf(first, second) == second
FirstErrorOf(first, second) == IF first = "error" THEN first ELSE second

StopEnvironment ==
    /\ stage = "removing"
    /\ AskToRemove(Handed \ {"external"})
    /\ outcome' = FirstErrorOf(driven, checked)
    /\ stage' = "over"
    /\ UNCHANGED <<started, services, readiness, proxies, health, work, expired, cancelled, log,
                   verdict, driven>>

Execute ==
    \/ Build \/ StartDependency \/ DependencyAnswers \/ EnvironmentUp \/ ApplyTopology
    \/ BindEgress \/ StartSystem \/ AwaitReady \/ SystemReady \/ SystemNotReady \/ BindIngress
    \/ Post \/ Publish \/ Wait \/ WorkloadComplete \/ AwaitQuiescence \/ Quiescent
    \/ Join \/ Collect \/ Finish \/ StopServices \/ StopEnvironment

Around ==
    \/ Observe \/ ServiceListens \/ ServiceChanges \/ Expire
    \/ \E name \in ToSet(Dependencies) : Signal(name) \/ Await(name) \/ Answered(name)
    \/ \E proxy \in AllProxies : ConnectionFails(proxy) \/ AcceptFails(proxy)

Next == Execute \/ Exchange \/ (\E proxy \in AllProxies : Serve(proxy)) \/ Around

\* The run loop and the proxies' tasks are scheduled; a service that is not
\* hung answers.  That an answer comes which a proxy awaits is for nobody here
\* to promise.
Spec ==
    /\ Init /\ [][Next]_vars
    /\ WF_vars(Execute) /\ WF_vars(Exchange)
    /\ \A proxy \in AllProxies : WF_vars(Serve(proxy))

-----------------------------------------------------------------------------

TypeOK ==
    /\ scenario \in Scenarios /\ started \in 0 .. Len(Dependencies)
    /\ containers \cup refused \subseteq ToSet(Dependencies) \ External
    /\ busy \subseteq {"postgres", "redis"}
    /\ up \in 0 .. Systems /\ (booting # "no" => stage = "systems" /\ up < Systems)
    /\ signals \subseteq {"connected", "subscribed", "postgres_ready"}
    /\ proxies \in [AllProxies -> {"none", "serving", "tainted", "ended", "failed"}]
    /\ step \in 1 .. Len(Workload) + 1 /\ read <= Len(log)
    /\ driven \in {"none", "ok", "error"}
    /\ outcome \in {"none", "ok", "error"} /\ (outcome # "none" <=> stage = "over")

\* The checks are made on the whole of the run: whatever a proxy observed,
\* however late, the invariants saw before the first terminal check (execute
\* joins every proxy before it drains the channel).
EverythingSeen ==
    stage \in {"finishing", "stopping", "removing"} => read = Len(log)

\* The terminal checks ask a system that is still there: services up,
\* dependencies up, and no proxy left to disturb the answer.
ChecksMeetTheSystem ==
    stage = "finishing" /\ driven = "ok"
        => /\ up = Systems /\ ToSet(Dependencies) \ External = containers
           /\ \A proxy \in AllProxies : ~Serving(proxy)

\* A verdict is about the whole run and about the system that ran: both of the
\* above, whatever failed on the way and in whatever order the proxies ended.
ChecksJudgeTheRun == EverythingSeen /\ ChecksMeetTheSystem

\* A run that got as far as drive, or failed to start a dependency, leaves no
\* service, no proxy, and no container but one the daemon was told to remove and
\* did not.  That holds whatever happened in between, of a container that came
\* up and never answered, and of those whose turn comes after one that stays.
LeavesNothingBehind ==
    stage = "over" /\ (driven # "none" \/ started < Len(Dependencies))
        => /\ containers \subseteq refused /\ up = 0 /\ booting = "no"
           /\ \A proxy \in AllProxies : ~Serving(proxy)

\* Whenever a signal is raised, before a service is waited for, while it is, or
\* by the service before it, the wait for it succeeds; and none succeeds, and no
\* workload is driven, without what each service had to show (Readiness is a
\* state to look at, not a notification to be there for).
ReadinessIsHeard ==
    /\ ~misjudged
    /\ stage = "driving" =>
          \A i \in DOMAIN modes : modes[i] \in DOMAIN SignalOf => SignalOf[modes[i]] \in crossed

\* A run that is reported to pass was driven to the end of its workload, was
\* given its idle window, was seen to settle, and nothing bad was observed in it.
PassIsEarned ==
    outcome = "ok" /\ ~fired
        => /\ step > Len(Workload)
           /\ {"complete", "quiescent"} \subseteq ToSet(log)
           /\ "bad" \notin ToSet(log) /\ ~unsettled

\* Every run ends, with whatever result, in which those it talks to answer: the
\* service takes no request and leaves it, and what a proxy's connection waits
\* for comes or breaks off.  Nothing else can hold a run up: no proxy, no signal
\* that never comes, no checker, no failure on the way.
EveryoneAnswers ==
    /\ [](health # "hung")
    /\ \A name \in ToSet(Dependencies) : (name \in busy) ~> (name \notin busy)
RunEnds == EveryoneAnswers => <>(stage = "over")

\* Every run ends, as run.timeout is documented to see to: "Hard ceiling on one
\* run".
CeilingHolds == <>(stage = "over")
=============================================================================
