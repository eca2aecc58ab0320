------------------------------ MODULE Scenario ------------------------------
(***************************************************************************)
(* What a scenario file may say, and every point at which one is refused:  *)
(* when it is resolved, when its vendors are looked up, when its           *)
(* invariants are built, when a proxy is bound, and when the run is        *)
(* already over and an invariant asks its question.  "mis check" passes    *)
(* judgement long before the last of these.                                *)
(*                                                                         *)
(* What the file may hold is IsScenario: a key that is not set is None,    *)
(* listens says that one of the systems has a listen_env.                  *)
(***************************************************************************)
EXTENDS Schedule, Naturals, FiniteSets, Sequences, SequencesExt

CONSTANT None       \* a key that is not set, a corpus that was not given

\* The stages at which a scenario is refused.
Stages == {"resolve", "vendors", "build", "egress", "ingress", "finish"}

ASSUME NoneAssumption == None \notin Stages

\* proxy::ADAPTERS and proxy::speaks: a build carries some of the adapters.
Adapters == {"nats", "postgres", "redis", "http"}
CompiledIn(build, dependency) == dependency \in Adapters => dependency \in build

\* builtin::REGISTRY: which protocol an invariant is about, and those that are
\* specified and not written.
DependencyOf ==
    [max_deliver_respected                  |-> "nats",
     no_delivery_after_ack                  |-> "nats",
     no_infinite_redelivery                 |-> "nats",
     consumer_filter_excludes_dead_letter   |-> "nats",
     no_commit_after_error                  |-> "postgres",
     no_query_outside_transaction           |-> "postgres",
     set_local_role_survives_pooler         |-> "postgres",
     every_command_gets_a_reply             |-> "redis",
     lock_released_by_owner                 |-> "redis",
     every_request_reaches_terminal_state   |-> "http",
     idempotent_retry_returns_same_response |-> "http",
     eventually_quiescent                   |-> "any"]
Planned == {"consumer_filter_excludes_dead_letter", "no_query_outside_transaction",
            "set_local_role_survives_pooler"}
Known(name) == name \in DOMAIN DependencyOf

Available(name, build) == name \notin Planned /\ CompiledIn(build, DependencyOf[name])

-----------------------------------------------------------------------------
\* The file as the parser accepts it: every key is optional, and a step or an
\* invariant is the set of keys it gives.

IsStream(stream) == stream.subjects \in Nat /\ stream.max_deliver \in Nat

StepKeys == {"publish", "post", "wait"}

IsInvariant(spec) ==
    /\ {"builtin", "name", "check", "query"} = DOMAIN spec
    /\ spec.check \in {"sql", "http", None} /\ spec.query \in BOOLEAN

IsVendor(wanted) == {"vendor", "behaviour"} = DOMAIN wanted

IsScenario(s) ==
    /\ s.named \in BOOLEAN /\ s.systems \in Nat /\ s.listens \in BOOLEAN
    /\ s.deps \subseteq Adapters /\ s.faults \subseteq FaultKinds
    /\ \A i \in DOMAIN s.streams : IsStream(s.streams[i])
    /\ \A i \in DOMAIN s.steps : s.steps[i] \subseteq StepKeys
    /\ \A i \in DOMAIN s.invariants : IsInvariant(s.invariants[i])
    /\ \A wanted \in s.vendors : IsVendor(wanted)

-----------------------------------------------------------------------------
\* Scenario::resolve.

Declared(s) == s.deps

Posts(s) == \E i \in DOMAIN s.steps : "post" \in s.steps[i]

\* A step does exactly one thing.
StepResolves(step) == Cardinality(step) = 1

Reachable(s) ==
    UNION {ForkKinds[protocol] :
             protocol \in Declared(s) \cup (IF Posts(s) THEN {"http"} ELSE {})}

\* A fault that can never fire would read as covering what is never explored.
CanFire(s, fault) == AppliesAt[fault] \cap Reachable(s) # {}

StreamResolves(s, i) ==
    /\ \A j \in DOMAIN s.streams : j < i => s.streams[j].name # s.streams[i].name
    /\ s.streams[i].subjects > 0
    /\ s.streams[i].max_deliver > 0

\* validate_invariant.
InvariantResolves(spec) ==
    \/ spec.builtin # None /\ spec.name = None /\ Known(spec.builtin)
    \/ spec.builtin = None /\ spec.name # None /\ spec.check # None /\ spec.query

Resolves(s) ==
    /\ s.named
    /\ s.systems > 0
    /\ s.invariants # <<>>
    /\ \A i \in DOMAIN s.streams : StreamResolves(s, i)
    /\ \A fault \in s.faults : CanFire(s, fault)
    /\ \A i \in DOMAIN s.steps : StepResolves(s.steps[i])
    /\ \A i \in DOMAIN s.invariants : InvariantResolves(s.invariants[i])

-----------------------------------------------------------------------------
\* corpus::resolve over LocalCorpus, or over EmptyCorpus when none was given.
\* A corpus gives each vendor's file: its format, the vendor it says it is
\* about, and its behaviours.

CurrentFormat == 1

Usable(corpus, vendor) ==
    /\ corpus # None /\ vendor \in DOMAIN corpus
    /\ corpus[vendor].format <= CurrentFormat
    /\ corpus[vendor].vendor = vendor

VendorsResolve(s, corpus) ==
    \A wanted \in s.vendors :
        /\ Usable(corpus, wanted.vendor)
        /\ wanted.behaviour \in corpus[wanted.vendor].behaviours

-----------------------------------------------------------------------------
\* invariant::build_all.

\* build_sql is another function in a build without the adapter.
BuildsUser(spec, build) == spec.check = "sql" => CompiledIn(build, "postgres")

BuildsBuiltin(name, build) == Available(name, build)

Builds(s, build) ==
    \A i \in DOMAIN s.invariants :
        LET spec == s.invariants[i]
        IN  IF spec.builtin # None THEN BuildsBuiltin(spec.builtin, build) ELSE BuildsUser(spec, build)

\* Runner::bind_egress has one arm per adapter, and Runner::start_ingress one
\* body per build: a workload that posts needs a service that listens.
BindsEgress(s, build) == \A protocol \in Declared(s) : CompiledIn(build, protocol)
BindsIngress(s, build) == Posts(s) => CompiledIn(build, "http") /\ s.listens

\* A terminal check asks the service, or the database, and there may be none.
Askable(s, spec) ==
    /\ spec.check = "http" => s.listens
    /\ spec.check = "sql" => "postgres" \in Declared(s)
AsksAll(s) ==
    \A i \in DOMAIN s.invariants : s.invariants[i].builtin = None => Askable(s, s.invariants[i])

-----------------------------------------------------------------------------
\* What the check command says of each invariant and of each dependency.

Mark(spec, build) ==
    IF spec.builtin = None THEN "good"
    ELSE IF ~Known(spec.builtin) THEN "unknown"
    ELSE IF Available(spec.builtin, build) THEN "good"
    ELSE IF spec.builtin \in Planned THEN "planned" ELSE "not_in_this_build"

InvariantsMarkedGood(s, build) ==
    \A i \in DOMAIN s.invariants : Mark(s.invariants[i], build) = "good"
AllMarkedGood(s, build) ==
    /\ \A i \in DOMAIN s.invariants : Mark(s.invariants[i], build) = "good"
    /\ BindsEgress(s, build)

\* Where a run of the scenario is refused, in the order the code gets there.
\* Only "resolve" and "vendors" come before anything is started.
RefusedAt(s, build, corpus, resolvesVendors) ==
    IF ~Resolves(s) THEN "resolve"
    ELSE IF resolvesVendors /\ ~VendorsResolve(s, corpus) THEN "vendors"
    ELSE IF ~Builds(s, build) THEN "build"
    ELSE IF ~BindsEgress(s, build) THEN "egress"
    ELSE IF ~BindsIngress(s, build) THEN "ingress"
    ELSE IF ~AsksAll(s) THEN "finish" ELSE None
=============================================================================
