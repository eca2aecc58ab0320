---------------------------- MODULE RunnerProofs ----------------------------
(***************************************************************************)
(* What a run's outcome and its remains mean, for every scenario, list of  *)
(* dependencies and workload.                                              *)
(***************************************************************************)
EXTENDS Runner, SequenceTheorems, WellFoundedInduction, TLAPS

\* Where execute is: before drive, in it, and after it.
Before == {"new", "environment", "topology"}
Driving == {"egress", "systems", "driving", "settling", "sleeping"}
TakenDown == {"collecting", "finishing", "stopping", "removing"}
Stages == Before \cup Driving \cup {"joining"} \cup TakenDown \cup {"over"}

Events == {"good", "bad", "complete", "quiescent"}
Logged(event) == event \in ToSet(log)

StagesTyped ==
    /\ stage \in Stages /\ booting \in {"no", "spawned", "waiting"}
    /\ driven \in {"none", "ok", "error"}
    /\ stage \in {"stopping", "removing"} => checked \in {"ok", "error"}
    /\ outcome \in {"none", "ok", "error"} /\ (outcome # "none" <=> stage = "over")
SignalsTyped == signals \subseteq {"connected", "subscribed", "postgres_ready"}
StartedTyped ==
    /\ scenario \in Scenarios /\ started \in 0 .. Len(Dependencies)
    /\ containers \cup refused \subseteq ToSet(Dependencies) \ External
UpTyped == up \in 0 .. Systems /\ (booting # "no" => stage = "systems" /\ up < Systems)
ProxiesTyped == proxies \in [AllProxies -> {"none", "serving", "tainted", "ended", "failed"}]
LogTyped == log \in Seq(Events) /\ read \in 0 .. Len(log)
StepTyped == step \in 1 .. Len(Workload) + 1 /\ busy \subseteq {"postgres", "redis"}
Typed ==
    /\ StagesTyped /\ SignalsTyped /\ StartedTyped 
    /\ UpTyped /\ ProxiesTyped /\ LogTyped /\ StepTyped

\* What drive returned is known once it has.
DriveReturns ==
    /\ stage \in Before \cup Driving => driven = "none" /\ ~unsettled
    /\ stage \in {"joining"} \cup TakenDown => driven # "none"
    /\ stage \in {"joining", "collecting", "finishing"} => ~unsettled

\* The containers of a run are those of the dependencies it has started.
Own(count) == {Dependencies[i] : i \in 1 .. count} \ External
ContainersAreOwn ==
    /\ stage = "new" => started = 0 /\ containers = {}
    /\ stage = "environment" =>
          \/ containers = Own(started)
          \/ started < Len(Dependencies) /\ containers = Own(started + 1)
    /\ stage \in {"topology"} \cup Driving \cup {"joining"} \cup TakenDown =>
          started = Len(Dependencies) /\ containers = Own(started)
    /\ stage = "over" /\ (driven # "none" \/ started < Len(Dependencies))
          => containers \subseteq refused

\* Services come up between the proxies and the workload, and go last.
ServicesUp ==
    /\ stage \in Before \cup {"egress"} => up = 0
    /\ stage \in {"driving", "settling", "sleeping"} => up = Systems
    /\ stage \in {"joining", "collecting", "finishing", "stopping"} /\ driven = "ok"
          => up = Systems
    /\ stage \in {"removing", "over"} => up = 0

\* No proxy serves before drive, or once all are joined.
ProxiesServe ==
    stage \in Before \cup TakenDown \cup {"over"} =>
        \A proxy \in AllProxies : ~Serving(proxy)

\* The workload is done before the idle window, and the window before "ok".
WorkDone ==
    /\ stage \in {"settling", "sleeping"} => step > Len(Workload) /\ Logged("complete")
    /\ driven = "ok" => step > Len(Workload) /\ Logged("complete") /\ Logged("quiescent")

\* The checker has been given a prefix of the log, in the end the whole.
LogIsRead ==
    /\ \A i \in 1 .. read : log[i] = "bad" => fired
    /\ stage \in {"finishing", "stopping", "removing"} => read = Len(log)
    /\ stage \in {"stopping", "removing"} /\ driven = "ok" => ~unsettled
    /\ outcome = "ok" => driven = "ok" /\ read = Len(log) /\ ~unsettled

\* A signal is what crossed, and each service that is up has shown its own.
SignalsAreHeard ==
    /\ signals = crossed /\ ~misjudged
    /\ \A i \in 1 .. up : modes[i] \in DOMAIN SignalOf => SignalOf[modes[i]] \in crossed

RunnerInv ==
    /\ Typed /\ DriveReturns /\ ContainersAreOwn /\ ServicesUp /\ ProxiesServe
    /\ WorkDone /\ LogIsRead /\ SignalsAreHeard

-----------------------------------------------------------------------------

\* What the constants are, in the form the proofs use.
LEMMA ConstantsTyped ==
    /\ Len(Dependencies) \in Nat /\ DOMAIN Dependencies = 1 .. Len(Dependencies)
    /\ \A i \in DOMAIN Dependencies :
           Dependencies[i] \in ToSet(Dependencies) \cap {"nats", "postgres", "redis"}
    /\ \A i, j \in DOMAIN Dependencies : Dependencies[i] = Dependencies[j] => i = j
    /\ \A name \in ToSet(Dependencies) : \E i \in DOMAIN Dependencies : name = Dependencies[i]
    /\ Len(Workload) \in Nat
    /\ scenario \in Scenarios => Systems \in Nat /\ modes \in Seq(ReadyWhen)
<1> USE RunnerAssumption
<1>1. scenario \in Scenarios => Systems \in Nat /\ modes \in Seq(ReadyWhen)
  BY LenProperties DEF Systems, modes
<1>2. \A i \in DOMAIN Dependencies :
           Dependencies[i] \in ToSet(Dependencies) \cap {"nats", "postgres", "redis"}
  BY LenProperties, ElementOfSeq DEF ToSet
<1>3. \A name \in ToSet(Dependencies) : \E i \in DOMAIN Dependencies : name = Dependencies[i]
  BY DEF ToSet
<1>4. QED
  BY <1>1, <1>2, <1>3, LenProperties DEF IsInjective

\* The scenario is chosen once.
LEMMA ScenarioStays ==
    ASSUME Next
    PROVE  /\ scenario' = scenario
           /\ External' = External /\ Systems' = Systems /\ modes' = modes
           /\ \A count : Own(count)' = Own(count)
<1>1. scenario' = scenario
  BY DEF Next, Execute, Around, Build, StartDependency, DependencyAnswers, EnvironmentUp,
     ApplyTopology, BindEgress, StartSystem, AwaitReady, SystemReady, SystemNotReady,
     BindIngress, Post, Publish, Wait, WorkloadComplete, AwaitQuiescence, Quiescent, Join,
     Collect, Finish, StopServices, StopEnvironment, Exchange, Observe, ServiceListens,
     ServiceChanges, Expire, Signal, Await, Answered, Serve, ConnectionFails, AcceptFails, GiveUp, GoOn,
     Unwind, environment, services, readiness, built, work, verdict
<1>2. QED
  BY <1>1 DEF External, Systems, modes, Own

\* A run is over when it has an outcome.
LEMMA StagesTypedKept ==
    ASSUME StagesTyped, Next
    PROVE  StagesTyped'
<1> USE DEF StagesTyped, NextIs, Before, Driving, TakenDown, Stages, GiveUp, GoOn, Unwind,
         environment, services, readiness, built, work, verdict
<1>1. CASE Build \/ StartDependency \/ DependencyAnswers \/ EnvironmentUp \/ ApplyTopology
  BY ScenarioStays, <1>1 DEF Build, StartDependency, DependencyAnswers, EnvironmentUp,
     ApplyTopology
<1>2. CASE BindEgress \/ StartSystem \/ AwaitReady \/ SystemReady \/ SystemNotReady
           \/ BindIngress
  BY ScenarioStays, <1>2 DEF BindEgress, StartSystem, AwaitReady, SystemReady,
     SystemNotReady, BindIngress
<1>3. CASE Post \/ Publish \/ Wait \/ WorkloadComplete \/ AwaitQuiescence \/ Quiescent
  BY ScenarioStays, <1>3 DEF Post, Publish, Wait, WorkloadComplete, AwaitQuiescence, Quiescent
<1>4. CASE Join \/ Collect
  BY ScenarioStays, <1>4 DEF Join, Collect
<1>5. CASE Finish \/ StopServices
  BY ScenarioStays, <1>5 DEF Finish, StopServices
<1>6. CASE StopEnvironment
  BY ScenarioStays, <1>6 DEF StopEnvironment, FirstErrorOf
<1>7. CASE Exchange \/ Observe \/ ServiceListens \/ ServiceChanges \/ Expire
  BY ScenarioStays, <1>7 DEF Exchange, Observe, ServiceListens, ServiceChanges, Expire
<1>8. CASE \/ \E name \in ToSet(Dependencies) : Signal(name) \/ Await(name) \/ Answered(name)
           \/ \E proxy \in AllProxies : Serve(proxy) \/ ConnectionFails(proxy) \/ AcceptFails(proxy)
  BY ScenarioStays, <1>8 DEF Signal, Await, Answered, Serve, ConnectionFails, AcceptFails
<1>9. QED
  BY <1>1, <1>2, <1>3, <1>4, <1>5, <1>6, <1>7, <1>8 DEF Next, Execute, Around

\* The proxies raise what their protocol can show.
LEMMA SignalsTypedKept ==
    ASSUME SignalsTyped, Next
    PROVE  SignalsTyped'
<1> USE DEF SignalsTyped, GiveUp, GoOn, Unwind, environment, services, readiness, built,
         work, verdict
<1>1. CASE Build \/ StartDependency \/ DependencyAnswers \/ EnvironmentUp \/ ApplyTopology
  BY ScenarioStays, <1>1 DEF Build, StartDependency, DependencyAnswers, EnvironmentUp,
     ApplyTopology
<1>2. CASE BindEgress \/ StartSystem \/ AwaitReady \/ SystemReady \/ SystemNotReady
           \/ BindIngress
  BY ScenarioStays, <1>2 DEF BindEgress, StartSystem, AwaitReady, SystemReady,
     SystemNotReady, BindIngress
<1>3. CASE Post \/ Publish \/ Wait \/ WorkloadComplete \/ AwaitQuiescence \/ Quiescent
  BY ScenarioStays, <1>3 DEF Post, Publish, Wait, WorkloadComplete, AwaitQuiescence, Quiescent
<1>4. CASE Join \/ Collect \/ Finish \/ StopServices \/ StopEnvironment
  BY ScenarioStays, <1>4 DEF Join, Collect, Finish, StopServices, StopEnvironment
<1>5. CASE Exchange \/ Observe \/ ServiceListens \/ ServiceChanges \/ Expire
  BY ScenarioStays, <1>5 DEF Exchange, Observe, ServiceListens, ServiceChanges, Expire
<1>6. CASE \/ \E name \in ToSet(Dependencies) : Signal(name) \/ Await(name) \/ Answered(name)
           \/ \E proxy \in AllProxies : Serve(proxy) \/ ConnectionFails(proxy) \/ AcceptFails(proxy)
  <2>1. \A name \in ToSet(Dependencies) :
            Carries[name] \subseteq {"connected", "subscribed", "postgres_ready"}
    BY ConstantsTyped DEF Carries
  <2>2. QED
    BY <1>6, <2>1 DEF Signal, Await, Answered, Raise, Serve, ConnectionFails, AcceptFails
<1>7. QED
  BY <1>1, <1>2, <1>3, <1>4, <1>5, <1>6 DEF Next, Execute, Around

\* What is told to be removed is gone, or the daemon was told and kept it.
LEMMA RemovedOrRefused ==
    ASSUME NEW asked, AskToRemove(asked)
    PROVE  /\ containers' \subseteq containers /\ refused' \subseteq refused \cup containers
           /\ containers \subseteq asked => containers' \subseteq refused'
<1>1. PICK kept \in SUBSET (containers \cap asked) :
          containers' = (containers \ asked) \cup kept /\ refused' = refused \cup kept
  BY DEF AskToRemove
<1>2. QED
  BY <1>1

\* A run starts its own dependencies and no other.
LEMMA StartedTypedKept ==
    ASSUME StartedTyped, Next
    PROVE  StartedTyped'
<1> USE ConstantsTyped DEF StartedTyped, GiveUp, GoOn, Unwind, environment, services,
         readiness, built, work, verdict
<1>1. CASE StartDependency
  <2>1. UNCHANGED scenario /\ started' \in {started, started + 1}
    BY <1>1 DEF StartDependency
  <2>2. started + 1 \in DOMAIN Dependencies
    BY <1>1 DEF StartDependency
  <2>3. /\ \/ containers' \subseteq containers
           \/ containers' = containers \cup {Dependencies[started + 1]}
        /\ refused' \subseteq refused \cup containers
    BY <1>1, RemovedOrRefused DEF StartDependency, RemoveStarted
  <2>4. QED
    BY <1>1, <2>1, <2>2, <2>3, ScenarioStays DEF StartDependency
<1>2. CASE DependencyAnswers
  <2>1. started' \in 0 .. Len(Dependencies)
    BY <1>2 DEF DependencyAnswers
  <2>2. containers' \subseteq containers /\ refused' \subseteq refused \cup containers
    BY <1>2, RemovedOrRefused DEF DependencyAnswers, RemoveOwn
  <2>3. QED
    BY <2>1, <2>2, ScenarioStays
<1>3. CASE Build \/ EnvironmentUp \/ ApplyTopology
  BY ScenarioStays, <1>3 DEF Build, EnvironmentUp, ApplyTopology
<1>4. CASE BindEgress \/ StartSystem \/ AwaitReady \/ SystemReady \/ SystemNotReady
           \/ BindIngress
  BY ScenarioStays, <1>4 DEF BindEgress, StartSystem, AwaitReady, SystemReady,
     SystemNotReady, BindIngress
<1>5. CASE Post \/ Publish \/ Wait \/ WorkloadComplete \/ AwaitQuiescence \/ Quiescent
  BY ScenarioStays, <1>5 DEF Post, Publish, Wait, WorkloadComplete, AwaitQuiescence, Quiescent
<1>6. CASE Join \/ Collect \/ Finish \/ StopServices \/ StopEnvironment
  <2>1. CASE StopEnvironment
    <3>1. containers' \subseteq containers /\ refused' \subseteq refused \cup containers
      BY <2>1, RemovedOrRefused DEF StopEnvironment
    <3>2. QED
      BY <2>1, <3>1, ScenarioStays DEF StopEnvironment
  <2>2. CASE Join \/ Collect \/ Finish \/ StopServices
    BY ScenarioStays, <2>2 DEF Join, Collect, Finish, StopServices
  <2>3. QED
    BY <1>6, <2>1, <2>2
<1>7. CASE Exchange \/ Observe \/ ServiceListens \/ ServiceChanges \/ Expire
  BY ScenarioStays, <1>7 DEF Exchange, Observe, ServiceListens, ServiceChanges, Expire
<1>8. CASE \/ \E name \in ToSet(Dependencies) : Signal(name) \/ Await(name) \/ Answered(name)
           \/ \E proxy \in AllProxies : Serve(proxy) \/ ConnectionFails(proxy) \/ AcceptFails(proxy)
  BY ScenarioStays, <1>8 DEF Signal, Await, Answered, Serve, ConnectionFails, AcceptFails
<1>9. QED
  BY <1>1, <1>2, <1>3, <1>4, <1>5, <1>6, <1>7, <1>8 DEF Next, Execute, Around

\* Only one service is booting, and only while services are started.
LEMMA UpTypedKept ==
    ASSUME StartedTyped, UpTyped, Next
    PROVE  UpTyped'
<1> USE ConstantsTyped DEF UpTyped, StartedTyped, NextIs, GiveUp, GoOn, Unwind, environment,
         services, readiness, built, work, verdict
<1>1. CASE Build \/ StartDependency \/ DependencyAnswers \/ EnvironmentUp \/ ApplyTopology
  BY ScenarioStays, <1>1 DEF Build, StartDependency, DependencyAnswers, EnvironmentUp,
     ApplyTopology
<1>2. CASE BindEgress \/ StartSystem \/ AwaitReady \/ SystemReady \/ SystemNotReady
           \/ BindIngress
  BY ScenarioStays, <1>2 DEF BindEgress, StartSystem, AwaitReady, SystemReady,
     SystemNotReady, BindIngress
<1>3. CASE Post \/ Publish \/ Wait \/ WorkloadComplete \/ AwaitQuiescence \/ Quiescent
  BY ScenarioStays, <1>3 DEF Post, Publish, Wait, WorkloadComplete, AwaitQuiescence, Quiescent
<1>4. CASE Join
  BY ScenarioStays, <1>4 DEF Join
<1>5. CASE Collect
  BY ScenarioStays, <1>5 DEF Collect
<1>6. CASE Finish
  BY ScenarioStays, <1>6 DEF Finish
<1>7. CASE StopServices
  BY ScenarioStays, <1>7 DEF StopServices
<1>8. CASE StopEnvironment
  BY ScenarioStays, <1>8 DEF StopEnvironment
<1>9. CASE Exchange \/ Observe \/ ServiceListens \/ ServiceChanges \/ Expire
  BY ScenarioStays, <1>9 DEF Exchange, Observe, ServiceListens, ServiceChanges, Expire
<1>10. CASE \/ \E name \in ToSet(Dependencies) : Signal(name) \/ Await(name) \/ Answered(name)
           \/ \E proxy \in AllProxies : Serve(proxy) \/ ConnectionFails(proxy) \/ AcceptFails(proxy)
  BY ScenarioStays, <1>10 DEF Signal, Await, Answered, Serve, ConnectionFails, AcceptFails
<1>11. QED
  BY <1>1, <1>2, <1>3, <1>4, <1>5, <1>6, <1>7, <1>8, <1>9, <1>10 DEF Next, Execute, Around

\* A proxy is in one of its states.
LEMMA ProxiesTypedKept ==
    ASSUME ProxiesTyped, Next
    PROVE  ProxiesTyped'
<1> USE DEF ProxiesTyped, GiveUp, GoOn, Unwind, environment, services, readiness, built,
         work, verdict
<1>1. CASE Build \/ StartDependency \/ DependencyAnswers \/ EnvironmentUp \/ ApplyTopology
  BY ScenarioStays, <1>1 DEF Build, StartDependency, DependencyAnswers, EnvironmentUp,
     ApplyTopology
<1>2. CASE BindEgress \/ StartSystem \/ AwaitReady \/ SystemReady \/ SystemNotReady
           \/ BindIngress
  BY ScenarioStays, <1>2 DEF BindEgress, StartSystem, AwaitReady, SystemReady,
     SystemNotReady, BindIngress
<1>3. CASE Post \/ Publish \/ Wait \/ WorkloadComplete \/ AwaitQuiescence \/ Quiescent
  BY ScenarioStays, <1>3 DEF Post, Publish, Wait, WorkloadComplete, AwaitQuiescence, Quiescent
<1>4. CASE Join \/ Collect \/ Finish \/ StopServices \/ StopEnvironment
  BY ScenarioStays, <1>4 DEF Join, Collect, Finish, StopServices, StopEnvironment
<1>5. CASE Exchange \/ Observe \/ ServiceListens \/ ServiceChanges \/ Expire
  BY ScenarioStays, <1>5 DEF Exchange, Observe, ServiceListens, ServiceChanges, Expire
<1>6. CASE \/ \E name \in ToSet(Dependencies) : Signal(name) \/ Await(name) \/ Answered(name)
           \/ \E proxy \in AllProxies : Serve(proxy) \/ ConnectionFails(proxy) \/ AcceptFails(proxy)
  BY ScenarioStays, <1>6 DEF Signal, Await, Answered, Serve, ConnectionFails, AcceptFails
<1>7. QED
  BY <1>1, <1>2, <1>3, <1>4, <1>5, <1>6 DEF Next, Execute, Around

\* What appending to the log does to it.
LEMMA LogGrows ==
    ASSUME LogTyped, NEW event \in Events, log' = Append(log, event)
    PROVE  /\ Len(log) \in Nat /\ log' \in Seq(Events) /\ Len(log') = Len(log) + 1
           /\ \A i \in 1 .. Len(log) : log'[i] = log[i]
           /\ \A any : Logged(any)' <=> (Logged(any) \/ any = event)
<1>1. log \in Seq(Events) /\ Len(log) \in Nat /\ DOMAIN log = 1 .. Len(log)
  BY LenProperties DEF LogTyped
<1>2. /\ log' \in Seq(Events) /\ Len(log') = Len(log) + 1
      /\ \A i \in 1 .. Len(log) : log'[i] = log[i]
      /\ log'[Len(log) + 1] = event
      /\ DOMAIN log' = 1 .. Len(log) + 1
  BY <1>1, AppendProperties, LenProperties
<1>3. \A any : Logged(any)' <=> (Logged(any) \/ any = event)
  BY <1>1, <1>2 DEF Logged, ToSet
<1>4. QED
  BY <1>1, <1>2, <1>3

\* Only what is observed, completed or settled enters the log.
LEMMA LogSteps ==
    ASSUME Next
    PROVE  \/ log' = log
           \/ \E event \in Events : log' = Append(log, event)
<1>1. QED
  BY DEF Next, Execute, Around, Events, Build, StartDependency, DependencyAnswers,
     EnvironmentUp, ApplyTopology, BindEgress, StartSystem, AwaitReady, SystemReady,
     SystemNotReady, BindIngress, Post, Publish, Wait, WorkloadComplete, AwaitQuiescence,
     Quiescent, Join, Collect, Finish, StopServices, StopEnvironment, Exchange, Observe,
     ServiceListens, ServiceChanges, Expire, Signal, Await, Answered, Serve, ConnectionFails, AcceptFails,
     GiveUp, GoOn, Unwind, environment, services, readiness, built, work, verdict

\* The checker is given no more than there is.
LEMMA LogTypedKept ==
    ASSUME LogTyped, Next
    PROVE  LogTyped'
<1>1. log' \in Seq(Events) /\ Len(log') >= Len(log) /\ Len(log) \in Nat
  BY LogSteps, LogGrows, LenProperties DEF LogTyped
<1>2. read' = read \/ Collect
  BY DEF Next, Execute, Around, Build, StartDependency, DependencyAnswers, EnvironmentUp,
     ApplyTopology, BindEgress, StartSystem, AwaitReady, SystemReady, SystemNotReady,
     BindIngress, Post, Publish, Wait, WorkloadComplete, AwaitQuiescence, Quiescent, Join,
     Collect, Finish, StopServices, StopEnvironment, Exchange, Observe, ServiceListens,
     ServiceChanges, Expire, Signal, Await, Answered, Serve, ConnectionFails, AcceptFails, GiveUp, GoOn,
     Unwind, environment, services, readiness, built, work, verdict
<1>3. read' \in 0 .. Len(log')
  BY <1>1, <1>2, LenProperties DEF LogTyped, Collect
<1>4. QED
  BY <1>1, <1>3 DEF LogTyped

\* A set of numbers that is not empty has a least.
LEMMA LeastExists ==
    ASSUME NEW set \in SUBSET Nat, set # {}
    PROVE  Min(set) \in set /\ \A n \in set : Min(set) <= n
<1>1. PICK m \in set : \A n \in set : ~ (<<n, m>> \in OpToRel(<, Nat))
  BY WFMin, NatLessThanWellFounded, Zenon
<1>2. \A n \in set : m <= n
  <2>1. \A n \in set : ~(n < m)
    BY <1>1, Zenon DEF OpToRel
  <2>2. QED
    BY <2>1
<1>3. QED
  BY <1>2 DEF Min

\* The driver stays within its workload.
LEMMA StepTypedKept ==
    ASSUME StepTyped, Next
    PROVE  StepTyped'
<1> USE ConstantsTyped DEF StepTyped, NextIs, GiveUp, GoOn, Unwind, environment, services,
         readiness, built, work, verdict
<1>1. CASE Build \/ StartDependency \/ DependencyAnswers \/ EnvironmentUp \/ ApplyTopology
  BY ScenarioStays, <1>1 DEF Build, StartDependency, DependencyAnswers, EnvironmentUp,
     ApplyTopology
<1>2. CASE BindEgress \/ StartSystem \/ AwaitReady \/ SystemReady \/ SystemNotReady
           \/ BindIngress
  BY ScenarioStays, <1>2 DEF BindEgress, StartSystem, AwaitReady, SystemReady,
     SystemNotReady, BindIngress
<1>3. CASE Post
  <2>1. AfterPosts \in 1 .. Len(Workload) + 1
    <3> DEFINE ends == {i \in step .. Len(Workload) + 1 : i > Len(Workload) \/ Workload[i] # "post"}
    <3>1. ends \in SUBSET Nat /\ Len(Workload) + 1 \in ends
      OBVIOUS
    <3>2. Min(ends) \in ends
      BY <3>1, LeastExists
    <3>3. QED
      BY <3>2 DEF AfterPosts
  <2>2. QED
    BY <1>3, <2>1 DEF Post
<1>4. CASE Publish \/ Wait \/ WorkloadComplete \/ AwaitQuiescence \/ Quiescent
  <2>1. CASE Publish \/ Wait
    <3>1. step <= Len(Workload) /\ busy' = busy /\ step' \in {step, step + 1}
      BY <2>1 DEF Publish, Wait
    <3>2. QED
      BY <3>1
  <2>2. CASE WorkloadComplete \/ AwaitQuiescence \/ Quiescent
    BY <2>2 DEF WorkloadComplete, AwaitQuiescence, Quiescent
  <2>3. QED
    BY <1>4, <2>1, <2>2
<1>5. CASE Join \/ Collect \/ Finish \/ StopServices \/ StopEnvironment
  BY ScenarioStays, <1>5 DEF Join, Collect, Finish, StopServices, StopEnvironment
<1>6. CASE Exchange \/ Observe \/ ServiceListens \/ ServiceChanges \/ Expire
  BY ScenarioStays, <1>6 DEF Exchange, Observe, ServiceListens, ServiceChanges, Expire
<1>7. CASE \/ \E name \in ToSet(Dependencies) : Signal(name) \/ Await(name) \/ Answered(name)
           \/ \E proxy \in AllProxies : Serve(proxy) \/ ConnectionFails(proxy) \/ AcceptFails(proxy)
  BY ScenarioStays, <1>7 DEF Signal, Await, Answered, Serve, ConnectionFails, AcceptFails
<1>8. QED
  BY <1>1, <1>2, <1>3, <1>4, <1>5, <1>6, <1>7 DEF Next, Execute, Around

-----------------------------------------------------------------------------

\* Nothing but drive sets what drive returned, and nothing but the checker
\* whether the run settled.
LEMMA DriveReturnsKept ==
    ASSUME DriveReturns, Typed, Next
    PROVE  DriveReturns'
<1> USE DEF DriveReturns, Typed, StagesTyped, NextIs, Before, Driving, TakenDown, Stages,
        GiveUp, GoOn, Unwind, environment, services, readiness, built, work, verdict
<1>1. CASE Build \/ StartDependency \/ DependencyAnswers \/ EnvironmentUp \/ ApplyTopology
  BY ScenarioStays, <1>1 DEF Build, StartDependency, DependencyAnswers, EnvironmentUp,
     ApplyTopology
<1>2. CASE BindEgress \/ StartSystem \/ AwaitReady \/ SystemReady \/ SystemNotReady
           \/ BindIngress
  BY ScenarioStays, <1>2 DEF BindEgress, StartSystem, AwaitReady, SystemReady,
     SystemNotReady, BindIngress
<1>3. CASE Post \/ Publish \/ Wait \/ WorkloadComplete \/ AwaitQuiescence \/ Quiescent
  BY ScenarioStays, <1>3 DEF Post, Publish, Wait, WorkloadComplete, AwaitQuiescence, Quiescent
<1>4. CASE Join \/ Collect
  BY ScenarioStays, <1>4 DEF Join, Collect
<1>5. CASE Finish \/ StopServices
  BY ScenarioStays, <1>5 DEF Finish, StopServices
<1>6. CASE StopEnvironment
  BY ScenarioStays, <1>6 DEF StopEnvironment
<1>7. CASE Exchange \/ Observe \/ ServiceListens \/ ServiceChanges \/ Expire
  BY ScenarioStays, <1>7 DEF Exchange, Observe, ServiceListens, ServiceChanges, Expire
<1>8. CASE \/ \E name \in ToSet(Dependencies) : Signal(name) \/ Await(name) \/ Answered(name)
           \/ \E proxy \in AllProxies : Serve(proxy) \/ ConnectionFails(proxy) \/ AcceptFails(proxy)
  BY ScenarioStays, <1>8 DEF Signal, Await, Answered, Serve, ConnectionFails, AcceptFails
<1>9. QED
  BY <1>1, <1>2, <1>3, <1>4, <1>5, <1>6, <1>7, <1>8 DEF Next, Execute, Around

\* Services are stopped last, and after the checks.
LEMMA ServicesUpKept ==
    ASSUME ServicesUp, DriveReturns, Typed, Next
    PROVE  ServicesUp'
<1> USE ConstantsTyped DEF ServicesUp, DriveReturns, Typed, StagesTyped, StartedTyped,
        UpTyped, NextIs, Before, Driving, TakenDown, Stages, GiveUp, GoOn, Unwind,
        environment, services, readiness, built, work, verdict
<1>1. CASE Build \/ StartDependency \/ DependencyAnswers \/ EnvironmentUp \/ ApplyTopology
  BY ScenarioStays, <1>1 DEF Build, StartDependency, DependencyAnswers, EnvironmentUp,
     ApplyTopology
<1>2. CASE BindEgress \/ StartSystem \/ AwaitReady \/ SystemReady \/ SystemNotReady
           \/ BindIngress
  BY ScenarioStays, <1>2 DEF BindEgress, StartSystem, AwaitReady, SystemReady,
     SystemNotReady, BindIngress
<1>3. CASE Post \/ Publish \/ Wait \/ WorkloadComplete \/ AwaitQuiescence \/ Quiescent
  BY ScenarioStays, <1>3 DEF Post, Publish, Wait, WorkloadComplete, AwaitQuiescence, Quiescent
<1>4. CASE Join
  BY ScenarioStays, <1>4 DEF Join
<1>5. CASE Collect
  BY ScenarioStays, <1>5 DEF Collect
<1>6. CASE Finish \/ StopServices
  BY ScenarioStays, <1>6 DEF Finish, StopServices
<1>7. CASE StopEnvironment
  BY ScenarioStays, <1>7 DEF StopEnvironment
<1>8. CASE Exchange \/ Observe \/ ServiceListens \/ ServiceChanges \/ Expire
  BY ScenarioStays, <1>8 DEF Exchange, Observe, ServiceListens, ServiceChanges, Expire
<1>9. CASE \/ \E name \in ToSet(Dependencies) : Signal(name) \/ Await(name) \/ Answered(name)
           \/ \E proxy \in AllProxies : Serve(proxy) \/ ConnectionFails(proxy) \/ AcceptFails(proxy)
  BY ScenarioStays, <1>9 DEF Signal, Await, Answered, Serve, ConnectionFails, AcceptFails
<1>10. QED
  BY <1>1, <1>2, <1>3, <1>4, <1>5, <1>6, <1>7, <1>8, <1>9 DEF Next, Execute, Around

\* A proxy that has been joined observes nothing more.
LEMMA ProxiesServeKept ==
    ASSUME ProxiesServe, Typed, Next
    PROVE  ProxiesServe'
<1> USE DEF ProxiesServe, Typed, StagesTyped, ProxiesTyped, Serving, AllProxies, NextIs,
        Before, Driving, TakenDown, Stages, GiveUp, GoOn, Unwind, environment, services,
        readiness, built, work, verdict
<1>1. CASE Build \/ StartDependency \/ DependencyAnswers \/ EnvironmentUp \/ ApplyTopology
  BY ScenarioStays, <1>1 DEF Build, StartDependency, DependencyAnswers, EnvironmentUp,
     ApplyTopology
<1>2. CASE BindEgress \/ StartSystem \/ AwaitReady \/ SystemReady \/ SystemNotReady
           \/ BindIngress
  BY ScenarioStays, <1>2 DEF BindEgress, StartSystem, AwaitReady, SystemReady,
     SystemNotReady, BindIngress
<1>3. CASE Post \/ Publish \/ Wait \/ WorkloadComplete \/ AwaitQuiescence \/ Quiescent
  BY ScenarioStays, <1>3 DEF Post, Publish, Wait, WorkloadComplete, AwaitQuiescence, Quiescent
<1>4. CASE Join
  BY ScenarioStays, <1>4 DEF Join, Joined
<1>5. CASE Collect \/ Finish
  BY ScenarioStays, <1>5 DEF Collect, Finish
<1>6. CASE StopServices \/ StopEnvironment
  BY ScenarioStays, <1>6 DEF StopServices, StopEnvironment
<1>7. CASE Exchange \/ Observe \/ ServiceListens \/ ServiceChanges \/ Expire
  BY ScenarioStays, <1>7 DEF Exchange, Observe, ServiceListens, ServiceChanges, Expire
<1>8. CASE \/ \E name \in ToSet(Dependencies) : Signal(name) \/ Await(name) \/ Answered(name)
           \/ \E proxy \in AllProxies : Serve(proxy) \/ ConnectionFails(proxy) \/ AcceptFails(proxy)
  BY ScenarioStays, <1>8 DEF Signal, Await, Answered, Serve, ConnectionFails, AcceptFails
<1>9. QED
  BY <1>1, <1>2, <1>3, <1>4, <1>5, <1>6, <1>7, <1>8 DEF Next, Execute, Around

\* The next dependency is one container more, or none if somebody else runs it.
LEMMA OwnGrows ==
    ASSUME StartedTyped, started < Len(Dependencies)
    PROVE  LET name == Dependencies[started + 1]
           IN  /\ Own(started + 1) = IF name \in External THEN Own(started)
                                     ELSE Own(started) \cup {name}
               /\ name \notin Own(started)
<1>1. started + 1 \in DOMAIN Dependencies /\ 1 .. started + 1 = (1 .. started) \cup {started + 1}
  BY ConstantsTyped DEF StartedTyped
<1>2. \A i \in 1 .. started : Dependencies[i] # Dependencies[started + 1]
  BY <1>1, ConstantsTyped DEF StartedTyped
<1>3. QED
  BY <1>1, <1>2 DEF Own

\* Nothing has been started at first.
LEMMA OwnOfNone == Own(0) = {}
<1>1. \A i : i \notin 1 .. 0
  OBVIOUS
<1>2. QED
  BY <1>1 DEF Own

\* What was handed over covers the containers of what was started.
LEMMA OwnIsHanded ==
    ASSUME StartedTyped
    PROVE  Own(started) \subseteq Handed \ {"external"}
<1>1. \A i \in 1 .. started : Dependencies[i] # "external"
  BY ConstantsTyped DEF StartedTyped
<1>2. QED
  BY <1>1 DEF Own, Handed, IdOf

\* Whatever fails on the way up, the containers are those of the dependencies
\* started so far, or have been removed as far as the daemon would.
LEMMA ContainersAreOwnKept ==
    ASSUME ContainersAreOwn, DriveReturns, Typed, Next
    PROVE  ContainersAreOwn'
<1> USE ConstantsTyped DEF ContainersAreOwn, DriveReturns, Typed, StagesTyped, StartedTyped,
        NextIs, Before, Driving, TakenDown, Stages, GiveUp, GoOn, Unwind, environment,
        services, readiness, built, work, verdict
<1>1. CASE StartDependency
  <2> DEFINE name == Dependencies[started + 1]
  <2>1. containers = Own(started)
    BY <1>1, OwnGrows DEF StartDependency
  <2>2. CASE GiveUp
    <3>1. containers' \subseteq refused'
      BY <1>1, <2>1, <2>2, OwnIsHanded, RemovedOrRefused DEF StartDependency, RemoveStarted
    <3>2. QED
      BY <2>2, <3>1
  <2>3. CASE ~GiveUp
    BY <1>1, <2>1, <2>3, ScenarioStays, OwnGrows DEF StartDependency
  <2>4. QED
    BY <2>2, <2>3
<1>2. CASE DependencyAnswers
  <2> DEFINE name == Dependencies[started + 1]
  <2>1. containers = Own(started + 1) /\ containers = Own(started) \cup {name}
    BY <1>2, OwnGrows DEF DependencyAnswers
  <2>2. CASE GiveUp
    <3>1. containers' \subseteq refused'
      <4>1. AskToRemove(Handed \cup {name})
        BY <1>2, <2>2 DEF DependencyAnswers, RemoveOwn
      <4>2. containers \subseteq Handed \cup {name}
        BY <2>1, OwnIsHanded
      <4>3. QED
        BY <4>1, <4>2, RemovedOrRefused
    <3>2. QED
      BY <2>2, <3>1
  <2>3. CASE ~GiveUp
    BY <1>2, <2>1, <2>3, ScenarioStays DEF DependencyAnswers
  <2>4. QED
    BY <2>2, <2>3
<1>3. CASE StopEnvironment
  <2>1. containers' \subseteq refused'
    <3>1. AskToRemove(Handed \ {"external"})
      BY <1>3 DEF StopEnvironment
    <3>2. containers \subseteq Handed \ {"external"}
      BY <1>3, OwnIsHanded DEF StopEnvironment
    <3>3. QED
      BY <3>1, <3>2, RemovedOrRefused
  <2>2. QED
    BY <1>3, <2>1 DEF StopEnvironment
<1>4. CASE Build
  <2>1. Own(0) = {}
    BY OwnOfNone
  <2>2. QED
    BY ScenarioStays, <1>4, <2>1 DEF Build
<1>5. CASE EnvironmentUp
  BY ScenarioStays, <1>5 DEF EnvironmentUp
<1>6. CASE ApplyTopology
  BY ScenarioStays, <1>6 DEF ApplyTopology
<1>7. CASE BindEgress \/ StartSystem \/ AwaitReady \/ SystemReady \/ SystemNotReady
           \/ BindIngress
  BY ScenarioStays, <1>7 DEF BindEgress, StartSystem, AwaitReady, SystemReady,
     SystemNotReady, BindIngress
<1>8. CASE Post \/ Publish \/ Wait \/ WorkloadComplete \/ AwaitQuiescence \/ Quiescent
  BY ScenarioStays, <1>8 DEF Post, Publish, Wait, WorkloadComplete, AwaitQuiescence, Quiescent
<1>9. CASE Join \/ Collect \/ Finish \/ StopServices
  BY ScenarioStays, <1>9 DEF Join, Collect, Finish, StopServices
<1>10. CASE Exchange \/ Observe \/ ServiceListens \/ ServiceChanges \/ Expire
  BY ScenarioStays, <1>10 DEF Exchange, Observe, ServiceListens, ServiceChanges, Expire
<1>11. CASE \/ \E name \in ToSet(Dependencies) : Signal(name) \/ Await(name) \/ Answered(name)
           \/ \E proxy \in AllProxies : Serve(proxy) \/ ConnectionFails(proxy) \/ AcceptFails(proxy)
  BY ScenarioStays, <1>11 DEF Signal, Await, Answered, Serve, ConnectionFails, AcceptFails
<1>12. QED
  BY <1>1, <1>2, <1>3, <1>4, <1>5, <1>6, <1>7, <1>8, <1>9, <1>10, <1>11 DEF Next, Execute,
     Around

\* What is in the log stays there.
LEMMA LogKeeps ==
    ASSUME LogTyped, Next
    PROVE  /\ \A event : Logged(event) => Logged(event)'
           /\ \A i \in 1 .. Len(log) : log'[i] = log[i]
<1>1. CASE log' = log
  BY <1>1 DEF Logged
<1>2. CASE \E event \in Events : log' = Append(log, event)
  BY <1>2, LogGrows
<1>3. QED
  BY <1>1, <1>2, LogSteps

\* Once every proxy has been joined nothing enters the log.
LEMMA LogIsClosed ==
    ASSUME ProxiesServe, Next, stage \in TakenDown \cup {"over"}
    PROVE  log' = log
<1> USE DEF ProxiesServe, TakenDown, NextIs, GiveUp, GoOn, Unwind, environment, services,
   readiness, built, work, verdict
<1>1. /\ ~Serving("ingress")
      /\ \A name \in ToSet(Dependencies) : ~Serving(name)
  BY DEF AllProxies
<1>2. CASE Build \/ StartDependency \/ DependencyAnswers \/ EnvironmentUp \/ ApplyTopology
  BY <1>1, <1>2 DEF Build, StartDependency, DependencyAnswers, EnvironmentUp, ApplyTopology
<1>3. CASE BindEgress \/ StartSystem \/ AwaitReady \/ SystemReady \/ SystemNotReady
           \/ BindIngress
  BY <1>1, <1>3 DEF BindEgress, StartSystem, AwaitReady, SystemReady, SystemNotReady,
     BindIngress
<1>4. CASE Post \/ Publish \/ Wait \/ WorkloadComplete \/ AwaitQuiescence \/ Quiescent
  BY <1>1, <1>4 DEF Post, Publish, Wait, WorkloadComplete, AwaitQuiescence, Quiescent
<1>5. CASE Join \/ Collect \/ Finish \/ StopServices \/ StopEnvironment
  BY <1>1, <1>5 DEF Join, Collect, Finish, StopServices, StopEnvironment
<1>6. CASE Exchange \/ Observe \/ ServiceListens \/ ServiceChanges \/ Expire
  BY <1>1, <1>6 DEF Exchange, Observe, ServiceListens, ServiceChanges, Expire
<1>7. CASE \/ \E name \in ToSet(Dependencies) : Signal(name) \/ Await(name) \/ Answered(name)
           \/ \E proxy \in AllProxies : Serve(proxy) \/ ConnectionFails(proxy) \/ AcceptFails(proxy)
  BY <1>7 DEF Signal, Await, Answered, Serve, ConnectionFails, AcceptFails
<1>8. QED
  BY <1>2, <1>3, <1>4, <1>5, <1>6, <1>7 DEF Next, Execute, Around

\* The driver reports the end of its workload before the idle window, and the
\* run settled after it.
LEMMA WorkDoneKept ==
    ASSUME WorkDone, DriveReturns, Typed, Next
    PROVE  WorkDone'
<1> USE DEF WorkDone, DriveReturns, Typed, StagesTyped, NextIs, Before, Driving, TakenDown,
        Stages, GiveUp, GoOn, Unwind, environment, services, readiness, built, work, verdict
<1>1. CASE WorkloadComplete
  <2>1. Logged("complete")' /\ (Logged("quiescent") => Logged("quiescent")')
    BY <1>1, LogGrows, LogKeeps DEF WorkloadComplete, Events
  <2>2. QED
    BY <1>1, <2>1 DEF WorkloadComplete
<1>2. CASE Quiescent
  <2>1. Logged("quiescent")' /\ (Logged("complete") => Logged("complete")')
    BY <1>2, LogGrows, LogKeeps DEF Quiescent, Events
  <2>2. QED
    BY <1>2, <2>1 DEF Quiescent
<1>3. CASE Build \/ StartDependency \/ DependencyAnswers \/ EnvironmentUp \/ ApplyTopology
  BY ScenarioStays, <1>3, LogKeeps DEF Build, StartDependency, DependencyAnswers,
     EnvironmentUp, ApplyTopology
<1>4. CASE BindEgress \/ StartSystem \/ AwaitReady \/ SystemReady \/ SystemNotReady
           \/ BindIngress
  BY ScenarioStays, <1>4, LogKeeps DEF BindEgress, StartSystem, AwaitReady, SystemReady,
     SystemNotReady, BindIngress
<1>5. CASE Post \/ Publish \/ Wait \/ AwaitQuiescence
  BY ScenarioStays, <1>5, LogKeeps DEF Post, Publish, Wait, AwaitQuiescence
<1>6. CASE Join \/ Collect \/ Finish \/ StopServices \/ StopEnvironment
  BY ScenarioStays, <1>6, LogKeeps DEF Join, Collect, Finish, StopServices, StopEnvironment
<1>7. CASE Exchange \/ Observe \/ ServiceListens \/ ServiceChanges \/ Expire
  BY ScenarioStays, <1>7, LogKeeps DEF Exchange, Observe, ServiceListens, ServiceChanges,
     Expire
<1>8. CASE \/ \E name \in ToSet(Dependencies) : Signal(name) \/ Await(name) \/ Answered(name)
           \/ \E proxy \in AllProxies : Serve(proxy) \/ ConnectionFails(proxy) \/ AcceptFails(proxy)
  BY ScenarioStays, <1>8, LogKeeps DEF Signal, Await, Answered, Serve, ConnectionFails, AcceptFails
<1>9. QED
  BY <1>1, <1>2, <1>3, <1>4, <1>5, <1>6, <1>7, <1>8 DEF Next, Execute, Around

\* Readiness is a state: a wait that begins after the signal succeeds too.
LEMMA SignalsAreHeardKept ==
    ASSUME SignalsAreHeard, ServicesUp, DriveReturns, Typed, Next
    PROVE  SignalsAreHeard'
<1> USE DEF SignalsAreHeard, Typed, StagesTyped, GiveUp, GoOn, Unwind, environment,
        services, readiness, built, work, verdict
<1>1. CASE SystemReady
  <2>1. Shown(crossed) /\ ~misjudged' /\ signals' = crossed'
    BY <1>1 DEF SystemReady
  <2>2. Mode \in DOMAIN SignalOf => SignalOf[Mode] \in crossed
    BY <2>1 DEF Shown, SignalOf
  <2>3. up \in Nat /\ up' = up + 1 /\ crossed' = crossed
    BY <1>1, ConstantsTyped DEF SystemReady, UpTyped, StartedTyped
  <2>4. QED
    BY <2>1, <2>2, <2>3, ScenarioStays DEF Mode
<1>2. CASE SystemNotReady
  BY ScenarioStays, <1>2 DEF SystemNotReady
<1>3. CASE \/ \E name \in ToSet(Dependencies) : Signal(name) \/ Await(name) \/ Answered(name)
           \/ \E proxy \in AllProxies : Serve(proxy) \/ ConnectionFails(proxy) \/ AcceptFails(proxy)
  BY ScenarioStays, <1>3 DEF Signal, Await, Answered, Raise, Serve, ConnectionFails, AcceptFails
<1>4. CASE Build \/ StartDependency \/ DependencyAnswers \/ EnvironmentUp \/ ApplyTopology
  BY ScenarioStays, <1>4 DEF Build, StartDependency, DependencyAnswers, EnvironmentUp,
     ApplyTopology
<1>5. CASE BindEgress \/ StartSystem \/ AwaitReady \/ BindIngress
  BY ScenarioStays, <1>5 DEF BindEgress, StartSystem, AwaitReady, BindIngress
<1>6. CASE Post \/ Publish \/ Wait \/ WorkloadComplete \/ AwaitQuiescence \/ Quiescent
  BY ScenarioStays, <1>6 DEF Post, Publish, Wait, WorkloadComplete, AwaitQuiescence, Quiescent
<1>7. CASE Join
  BY ScenarioStays, <1>7 DEF Join
<1>8. CASE Collect
  BY ScenarioStays, <1>8 DEF Collect
<1>9. CASE Finish
  BY ScenarioStays, <1>9 DEF Finish
<1>10. CASE StopServices \/ StopEnvironment
  BY ScenarioStays, <1>10 DEF StopServices, StopEnvironment
<1>11. CASE Exchange \/ Observe \/ ServiceListens \/ ServiceChanges \/ Expire
  BY ScenarioStays, <1>11 DEF Exchange, Observe, ServiceListens, ServiceChanges, Expire
<1>12. QED
  BY <1>1, <1>2, <1>3, <1>4, <1>5, <1>6, <1>7, <1>8, <1>9, <1>10, <1>11 DEF Next, Execute,
     Around

\* The checker reads the log in order and to its end before the first
\* terminal check, and "quiescent" is in it when drive returned "ok".
LEMMA LogIsReadKept ==
    ASSUME LogIsRead, WorkDone, ProxiesServe, DriveReturns, Typed, Next
    PROVE  LogIsRead'
<1> USE DEF LogIsRead, DriveReturns, Typed, StagesTyped, NextIs, Before, Driving, TakenDown,
        Stages, GiveUp, GoOn, Unwind, environment, services, readiness, built, work, verdict
<1>1. CASE Collect
  <2>1. log' = log /\ read \in Nat /\ Len(log) \in Nat
    BY <1>1, LenProperties DEF Collect, LogTyped
  <2>2. ASSUME NEW i \in 1 .. read', log'[i] = "bad"
        PROVE  fired'
    <3>1. CASE read' = read
      BY <1>1, <2>1, <2>2, <3>1 DEF Collect
    <3>2. CASE read' = read + 1
      <4>1. fired' <=> fired \/ log[read + 1] = "bad"
        <5>1. read' # read
          BY <2>1, <3>2
        <5>2. QED
          BY <1>1, <5>1, Zenon DEF Collect
      <4>2. i \in 1 .. read \/ i = read + 1
        BY <2>1, <3>2
      <4>3. QED
        BY <2>1, <2>2, <4>1, <4>2
    <3>3. QED
      BY <1>1, <3>1, <3>2 DEF Collect
  <2>3. QED
    BY <1>1, <2>1, <2>2 DEF Collect
<1>2. CASE Finish
  <2>1. log' = log /\ read' = read /\ read = Len(log)
    BY <1>2 DEF Finish
  <2>2. fired => fired'
    BY <1>2, Zenon DEF Finish
  <2>3. driven = "ok" => Told("quiescent")
    <3>1. SubSeq(log, 1, read) = log
      BY <2>1, SubSeqFull DEF LogTyped
    <3>2. QED
      BY <3>1 DEF Told, Logged, WorkDone
  <2>4. QED
    BY <1>2, <2>1, <2>2, <2>3 DEF Finish
<1>3. CASE StopEnvironment
  <2>1. outcome' = "ok" => driven = "ok"
    BY <1>3 DEF StopEnvironment, FirstErrorOf
  <2>2. QED
    BY <1>3, <2>1 DEF StopEnvironment
<1>4. CASE StopServices
  BY ScenarioStays, <1>4 DEF StopServices
<1>5. CASE Join
  BY ScenarioStays, <1>5 DEF Join
<1>6. CASE Build \/ StartDependency \/ DependencyAnswers \/ EnvironmentUp \/ ApplyTopology
  <2>1. UNCHANGED <<read, fired>> /\ (stage \in TakenDown \cup {"over"} => log' = log)
    BY <1>6, LogIsClosed DEF Build, StartDependency, DependencyAnswers, EnvironmentUp,
       ApplyTopology
  <2>2. \A i \in 1 .. read : log'[i] = log[i]
    BY LogKeeps, LenProperties DEF LogTyped
  <2>3. QED
    BY <1>6, <2>1, <2>2 DEF Build, StartDependency, DependencyAnswers, EnvironmentUp,
       ApplyTopology
<1>7. CASE BindEgress \/ StartSystem \/ AwaitReady \/ SystemReady \/ SystemNotReady
           \/ BindIngress
  <2>1. UNCHANGED <<read, fired>> /\ (stage \in TakenDown \cup {"over"} => log' = log)
    BY <1>7, LogIsClosed DEF BindEgress, StartSystem, AwaitReady, SystemReady,
       SystemNotReady, BindIngress
  <2>2. \A i \in 1 .. read : log'[i] = log[i]
    BY LogKeeps, LenProperties DEF LogTyped
  <2>3. QED
    BY <1>7, <2>1, <2>2 DEF BindEgress, StartSystem, AwaitReady, SystemReady,
       SystemNotReady, BindIngress
<1>8. CASE Post \/ Publish \/ Wait \/ WorkloadComplete \/ AwaitQuiescence \/ Quiescent
  <2>1. UNCHANGED <<read, fired>> /\ (stage \in TakenDown \cup {"over"} => log' = log)
    BY <1>8, LogIsClosed DEF Post, Publish, Wait, WorkloadComplete, AwaitQuiescence, Quiescent
  <2>2. \A i \in 1 .. read : log'[i] = log[i]
    BY LogKeeps, LenProperties DEF LogTyped
  <2>3. QED
    BY <1>8, <2>1, <2>2 DEF Post, Publish, Wait, WorkloadComplete, AwaitQuiescence, Quiescent
<1>9. CASE Exchange \/ Observe \/ ServiceListens \/ ServiceChanges \/ Expire
  <2>1. UNCHANGED <<read, fired>> /\ (stage \in TakenDown \cup {"over"} => log' = log)
    BY <1>9, LogIsClosed DEF Exchange, Observe, ServiceListens, ServiceChanges, Expire
  <2>2. \A i \in 1 .. read : log'[i] = log[i]
    BY LogKeeps, LenProperties DEF LogTyped
  <2>3. QED
    BY <1>9, <2>1, <2>2 DEF Exchange, Observe, ServiceListens, ServiceChanges, Expire
<1>10. CASE \/ \E name \in ToSet(Dependencies) : Signal(name) \/ Await(name) \/ Answered(name)
           \/ \E proxy \in AllProxies : Serve(proxy) \/ ConnectionFails(proxy) \/ AcceptFails(proxy)
  <2>1. UNCHANGED <<read, fired>> /\ (stage \in TakenDown \cup {"over"} => log' = log)
    BY <1>10, LogIsClosed DEF Signal, Await, Answered, Serve, ConnectionFails, AcceptFails
  <2>2. \A i \in 1 .. read : log'[i] = log[i]
    BY LogKeeps, LenProperties DEF LogTyped
  <2>3. QED
    BY <1>10, <2>1, <2>2 DEF Signal, Await, Answered, Serve, ConnectionFails, AcceptFails
<1>11. QED
  BY <1>1, <1>2, <1>3, <1>4, <1>5, <1>6, <1>7, <1>8, <1>9, <1>10 DEF Next, Execute, Around


-----------------------------------------------------------------------------

\* What holds of a run from its first step to its last.
LEMMA RunnerInvariant == Spec => []RunnerInv
<1>1. Init => RunnerInv
  <2> SUFFICES ASSUME Init
               PROVE  RunnerInv
    OBVIOUS
  <2> USE DEF Init
  <2>1. Typed
    <3>1. <<>> \in Seq(Events) /\ Len(<<>>) = 0
      OBVIOUS
    <3>2. QED
      BY <3>1, ConstantsTyped DEF Typed, StagesTyped, SignalsTyped, StartedTyped, UpTyped,
         ProxiesTyped, LogTyped, StepTyped, Stages, Before
  <2>2. /\ DriveReturns /\ ContainersAreOwn /\ ServicesUp /\ ProxiesServe /\ WorkDone
        /\ LogIsRead /\ SignalsAreHeard
    BY DEF DriveReturns, ContainersAreOwn, ServicesUp, ProxiesServe, WorkDone, LogIsRead,
       SignalsAreHeard, Serving, Before, Driving, TakenDown
  <2>3. QED
    BY <2>1, <2>2 DEF RunnerInv
<1>2. RunnerInv /\ [Next]_vars => RunnerInv'
  <2> SUFFICES ASSUME RunnerInv, [Next]_vars
               PROVE  RunnerInv'
    OBVIOUS
  <2> USE DEF RunnerInv
  <2>1. CASE Next
    <3>1. Typed'
      BY <2>1, StagesTypedKept, SignalsTypedKept, StartedTypedKept, UpTypedKept,
         ProxiesTypedKept, LogTypedKept, StepTypedKept DEF Typed
    <3>2. DriveReturns' /\ ContainersAreOwn' /\ ServicesUp' /\ ProxiesServe'
      BY <2>1, DriveReturnsKept, ContainersAreOwnKept, ServicesUpKept, ProxiesServeKept
    <3>3. WorkDone' /\ LogIsRead' /\ SignalsAreHeard'
      BY <2>1, WorkDoneKept, LogIsReadKept, SignalsAreHeardKept
    <3>4. QED
      BY <3>1, <3>2, <3>3
  <2>2. CASE UNCHANGED vars
    <3> USE <2>2 DEF vars, built, environment, services, readiness, work, verdict
    <3>1. /\ External' = External /\ Systems' = Systems /\ modes' = modes
          /\ \A count : Own(count)' = Own(count)
          /\ \A proxy : Serving(proxy)' <=> Serving(proxy)
          /\ \A event : Logged(event)' <=> Logged(event)
      BY DEF External, Systems, modes, Own, Serving, Logged
    <3>2. Typed'
      BY <3>1 DEF Typed, StagesTyped, SignalsTyped, StartedTyped, UpTyped, ProxiesTyped,
         LogTyped, StepTyped
    <3>3. /\ DriveReturns' /\ ContainersAreOwn' /\ ServicesUp' /\ ProxiesServe' /\ WorkDone'
          /\ LogIsRead' /\ SignalsAreHeard'
      BY <3>1 DEF DriveReturns, ContainersAreOwn, ServicesUp, ProxiesServe, WorkDone,
         LogIsRead,
         SignalsAreHeard
    <3>4. QED
      BY <3>2, <3>3
  <2>3. QED
    BY <2>1, <2>2
<1>3. QED
  BY <1>1, <1>2, PTL DEF Spec

\* Every variable holds what the code's types allow, throughout.
THEOREM TypeCorrect == Spec => []TypeOK
<1>1. RunnerInv => TypeOK
  BY LenProperties DEF RunnerInv, Typed, StagesTyped, SignalsTyped, StartedTyped, UpTyped,
     ProxiesTyped,
     LogTyped, StepTyped, TypeOK
<1>2. QED
  BY <1>1, RunnerInvariant, PTL

\* Whatever fails on the way and in whatever order the proxies end, the checks
\* are made on every observation of the run and ask a system that is still up.
THEOREM ChecksAreFair == Spec => []ChecksJudgeTheRun
<1>1. RunnerInv => EverythingSeen
  BY DEF RunnerInv, LogIsRead, EverythingSeen
<1>2. RunnerInv => ChecksMeetTheSystem
  <2> SUFFICES ASSUME RunnerInv, stage = "finishing", driven = "ok"
               PROVE  /\ up = Systems /\ ToSet(Dependencies) \ External = containers
                      /\ \A proxy \in AllProxies : ~Serving(proxy)
    BY DEF ChecksMeetTheSystem
  <2>1. containers = Own(Len(Dependencies))
    BY DEF RunnerInv, ContainersAreOwn, TakenDown
  <2>2. Own(Len(Dependencies)) = ToSet(Dependencies) \ External
    BY ConstantsTyped DEF Own, ToSet
  <2>3. QED
    BY <2>1, <2>2 DEF RunnerInv, ServicesUp, ProxiesServe, TakenDown
<1>3. RunnerInv => ChecksJudgeTheRun
  BY <1>1, <1>2 DEF ChecksJudgeTheRun
<1>4. QED
  BY <1>3, RunnerInvariant, PTL

\* A run that got as far as drive, or failed to start a dependency, leaves no
\* service and no proxy behind, and of its containers only those the daemon was
\* told to remove and did not, however many of them and of the others there are.
THEOREM NothingIsLeft == Spec => []LeavesNothingBehind
<1>1. RunnerInv => LeavesNothingBehind
  BY DEF RunnerInv, LeavesNothingBehind, ContainersAreOwn, ServicesUp, ProxiesServe, Typed,
     UpTyped
<1>2. QED
  BY <1>1, RunnerInvariant, PTL

\* No signal is missed and no service is held ready without its own, however
\* many services there are and whatever each of them waits for.
THEOREM SignalsCount == Spec => []ReadinessIsHeard
<1>1. RunnerInv => ReadinessIsHeard
  <2> SUFFICES ASSUME RunnerInv
               PROVE  ReadinessIsHeard
    OBVIOUS
  <2>1. DOMAIN modes = 1 .. Systems
    BY ConstantsTyped, LenProperties DEF RunnerInv, Typed, StartedTyped, Systems
  <2>2. QED
    BY <2>1 DEF RunnerInv, ReadinessIsHeard, SignalsAreHeard, ServicesUp
<1>2. QED
  BY <1>1, RunnerInvariant, PTL

\* A run that is reported to pass was driven to the end of its workload, was
\* seen to settle, and nothing bad was observed in it.
THEOREM PassesAreEarned == Spec => []PassIsEarned
<1>1. RunnerInv => PassIsEarned
  <2> SUFFICES ASSUME RunnerInv, outcome = "ok", ~fired
               PROVE  /\ step > Len(Workload)
                      /\ {"complete", "quiescent"} \subseteq ToSet(log)
                      /\ "bad" \notin ToSet(log) /\ ~unsettled
    BY DEF PassIsEarned
  <2>1. driven = "ok" /\ read = Len(log) /\ ~unsettled
    BY DEF RunnerInv, LogIsRead
  <2>2. \A i \in DOMAIN log : log[i] # "bad"
    BY <2>1, LenProperties DEF RunnerInv, LogIsRead, Typed, LogTyped
  <2>3. "bad" \notin ToSet(log)
    BY <2>2 DEF ToSet
  <2>4. QED
    BY <2>1, <2>3 DEF RunnerInv, WorkDone, Logged
<1>2. QED
  BY <1>1, RunnerInvariant, PTL
=============================================================================
