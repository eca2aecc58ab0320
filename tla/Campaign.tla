------------------------------ MODULE Campaign ------------------------------
(***************************************************************************)
(* The command line over one scenario: check, run, fuzz, replay and        *)
(* shrink, invoked one after another by a person or a CI job that keeps    *)
(* the files between them.  A run is abstracted to the trace it records    *)
(* and the invariants it breaks, in the order the checker lists them; the  *)
(* shrinker is what ShrinkProofs proves of it, a search whose result still *)
(* fails.                                                                  *)
(*                                                                         *)
(* The system under test decides which runs break which invariants.  It is *)
(* either steady, and decides once for each trace, or flaky.               *)
(***************************************************************************)
EXTENDS Scenario, Traces, Sweep

CONSTANTS
    Sessions,     \* [setting, script, file]: where, the commands that are tried there, and
                  \* what the trace file holds before the first of them
    Verdicts      \* what a run may break: sequences of invariants

\* What clap accepts after the name of each command; mistyped stands for every
\* line that it does not take: another name, option or value, or one missing.
OptionsOf ==
    [check  |-> {}, run |-> {"seed", "trace", "shrink", "json"},
     fuzz   |-> {"start", "count", "parallel", "max", "report", "shard"},
     replay |-> {}, shrink |-> {"out"}, mistyped |-> {}]

IsCommand(wanted) ==
    /\ wanted.name \in DOMAIN OptionsOf
    /\ DOMAIN wanted = {"name"} \cup OptionsOf[wanted.name]
    /\ wanted.name = "fuzz" => /\ wanted.start \in 0 .. Top /\ wanted.count \in 0 .. Top
                               /\ wanted.max \in Nat \cup {None}
                               /\ wanted.shard \in [index : Nat, count : Nat] \cup {Nothing}

ASSUME SessionsAssumption ==
    \A session \in Sessions :
        /\ IsScenario(session.setting.scenario)
        /\ session.script \in Seq(ToSet(session.script))
        /\ \A i \in DOMAIN session.script : IsCommand(session.script[i])

ASSUME VerdictsAssumption == Verdicts \subseteq Seq(STRING)
ASSUME FileAssumption == None # "file"

VARIABLES
    setting,      \* [scenario, build, corpus, steady, terminal]
    script,       \* the commands still to come, the first being the current one
    pc,
    drawn,        \* the trace each seed turned out to record
    known,        \* the invariants each trace turned out to break, when steady
    outcome,      \* the run that was asked for
    shrunk,       \* the run that is reported in its place, or None
    candidate,    \* the trace the shrinker came back with
    results,      \* history: how the runs of this command ended, without the shrinker's
    reports,      \* what a sweep has to report so far
    document,     \* the sweep's document
    file,         \* the lines of the trace file, or None
    whole,        \* history: the file was written by a command, to its end
    stdout,       \* what this command wrote to standard output
    exit,         \* the exit code of the last command
    refused,      \* history: where the last command was refused
    promised      \* history: check found nothing wrong

runVars == <<drawn, known>>
fileVars == <<file, whole>>
vars == <<setting, script, pc, drawn, known, outcome, shrunk, candidate, results, reports,
          document, file, whole, stdout, exit, refused, promised, sweepVars>>

command == script[1]
Scenery == setting.scenario
NoRun == [trace |-> <<>>, violations |-> <<>>]
Passed(run) == run.violations = <<>>

Init ==
    /\ \E session \in Sessions :
          setting = session.setting /\ script = session.script /\ file = session.file
    /\ pc = "start"
    /\ drawn = <<>> /\ known = <<>>
    /\ outcome = NoRun /\ shrunk = None /\ candidate = <<>>
    /\ results = <<>> /\ reports = <<>> /\ document = None
    /\ whole = FALSE
    /\ stdout = <<>> /\ exit = None /\ refused = None /\ promised = FALSE
    /\ NoSweep

-----------------------------------------------------------------------------
\* One execution, Runner::execute.

RefusedHere(resolvesVendors) ==
    RefusedAt(Scenery, setting.build, setting.corpus, resolvesVendors)
Startable == RefusedHere(FALSE) \in {None, "resolve"}

\* What the execution of a trace may break, and what is known of it afterwards.
VerdictsOf(trace) == IF trace \in DOMAIN known THEN {known[trace]} ELSE Verdicts
Noted(table, key, value) ==
    [k \in DOMAIN table \cup {key} |-> IF k = key THEN value ELSE table[k]]
Learn(trace, violations) ==
    known' = IF setting.steady THEN Noted(known, trace, violations) ELSE known

\* The trace a seed records: the same one every time.
TracesOf(seed) ==
    IF seed \in DOMAIN drawn THEN {drawn[seed]} ELSE SeedTraces

Kind(violations) == IF violations = <<>> THEN "passed" ELSE "violated"

\* main: a command is over, with 0, 2, or 1 for an error.
Exit(code) ==
    /\ exit' = code
    /\ pc' = "exited"

Refuse(stage) == Exit(1) /\ refused' = stage

\* Cli::parse: clap ends the process itself, with a code of its own.
Usage == Exit(2) /\ refused' = "usage"

-----------------------------------------------------------------------------
\* Every command loads its scenario; check, run and fuzz also look up vendors.

Loadable == file # None /\ Readable(file)
LoadsTrace == command.name \in {"replay", "shrink"}

\* Shard::parse and Trace::load come before the scenario.
BadArguments ==
    \/ command.name = "fuzz" /\ command.shard # Nothing /\ ~ShardExists(command.shard)
    \/ LoadsTrace /\ ~Loadable

Prepare ==
    LET stage == RefusedHere(~LoadsTrace)
    IN  /\ pc = "start" /\ script # <<>>
        /\ command.name # "mistyped" /\ ~BadArguments
        /\ \/ stage \in {"resolve", "vendors"} /\ Refuse(stage)
           \/ /\ stage \notin {"resolve", "vendors"}
              /\ pc' = command.name
              /\ UNCHANGED <<exit, refused>>
        /\ UNCHANGED <<setting, script, runVars, outcome, shrunk, candidate, results, reports,
                       document, fileVars, stdout, promised, sweepVars>>

PrepareFails ==
    /\ pc = "start" /\ script # <<>>
    /\ \/ command.name = "mistyped" /\ Usage
       \/ BadArguments /\ Refuse("arguments")
    /\ UNCHANGED <<setting, script, runVars, outcome, shrunk, candidate, results, reports,
                   document, fileVars, stdout, promised, sweepVars>>

\* The shell goes on with the next command.
NextCommand ==
    /\ pc = "exited"
    /\ script' = Tail(script)
    /\ pc' = "start"
    /\ results' = <<>> /\ reports' = <<>> /\ document' = None /\ stdout' = <<>>
    /\ refused' = None
    /\ outcome' = NoRun /\ shrunk' = None /\ candidate' = <<>>
    /\ ClearSweep
    /\ UNCHANGED <<setting, runVars, fileVars, exit, promised>>

\* check prints what the scenario resolves to.
Check ==
    /\ pc = "check"
    /\ promised' = AllMarkedGood(Scenery, setting.build)
    /\ Exit(0)
    /\ UNCHANGED <<setting, script, runVars, outcome, shrunk, candidate, results, reports,
                   document, fileVars, stdout, refused, sweepVars>>

-----------------------------------------------------------------------------
\* run, replay and shrink execute once.

Execute ==
    /\ pc \in {"run", "replay", "shrink"}
    /\ Startable
    /\ \E trace \in IF pc = "run" THEN TracesOf(command.seed) ELSE {Follow(Load(file))} :
       \E violations \in VerdictsOf(trace) :
          /\ drawn' = IF pc = "run" THEN Noted(drawn, command.seed, trace) ELSE drawn
          /\ Learn(trace, violations)
          /\ outcome' = [trace |-> trace, violations |-> violations]
          /\ results' = Append(results, Kind(violations))
    /\ pc' = IF pc = "run" /\ command.trace # None THEN "write" ELSE "judge"
    /\ UNCHANGED <<setting, script, shrunk, candidate, reports, document, fileVars, stdout, exit,
                   refused, promised, sweepVars>>

\* A run may fail on its own account at any point; one that cannot be set up
\* always does.
ExecuteFails ==
    /\ pc \in {"run", "replay", "shrink"}
    /\ results' = Append(results, "error")
    /\ Refuse(IF Startable THEN "harness" ELSE RefusedHere(FALSE))
    /\ UNCHANGED <<setting, script, runVars, outcome, shrunk, candidate, reports, document,
                   fileVars, stdout, promised, sweepVars>>

\* write_trace: to a file, which may end half written, or to standard output,
\* through a temporary file that is saved and read back.
Write(trace, destination, next) ==
    \/ /\ destination = "-"
       /\ stdout' = Append(stdout, "trace")
       /\ pc' = next
       /\ UNCHANGED <<fileVars, exit, refused>>
    \/ /\ destination = "file"
       /\ file' = Save(trace) /\ whole' = TRUE
       /\ pc' = next
       /\ UNCHANGED <<stdout, exit, refused>>
    \/ /\ destination = "file"
       /\ file' \in Partial(Save(trace)) \cup {file}
       /\ whole' = (whole /\ file' = file)
       /\ Refuse("write")
       /\ UNCHANGED stdout
    \/ /\ destination = "-"
       /\ Refuse("write")
       /\ UNCHANGED <<stdout, fileVars>>

WriteTrace ==
    /\ pc = "write"
    /\ Write(outcome.trace, command.trace, "judge")
    /\ UNCHANGED <<setting, script, runVars, outcome, shrunk, candidate, results, reports,
                   document, promised, sweepVars>>

\* run_one: a pass is reported as it is, a failure shrunk first if asked to.
JudgeRun ==
    /\ pc = "judge" /\ command.name = "run"
    /\ \/ /\ Passed(outcome)
          /\ stdout' = IF command.json THEN Append(stdout, "report") ELSE stdout
          /\ Exit(0)
       \/ /\ ~Passed(outcome)
          /\ pc' = IF command.shrink THEN "shrinking" ELSE "report"
          /\ UNCHANGED <<stdout, exit>>
    /\ UNCHANGED <<setting, script, runVars, outcome, shrunk, candidate, results, reports,
                   document, fileVars, refused, promised, sweepVars>>

\* replay: a run that did not follow its trace proves nothing by passing.
DivergedUnused == Divergence(Load(file), outcome.trace).unused # {}
Diverged == ~Follows(Load(file), outcome.trace)
JudgeReplay ==
    /\ pc = "judge" /\ command.name = "replay"
    /\ \/ Passed(outcome) /\ Diverged /\ Refuse("diverged") /\ UNCHANGED stdout
       \/ Passed(outcome) /\ ~Diverged /\ Exit(0) /\ UNCHANGED <<refused, stdout>>
       \/ /\ ~Passed(outcome)
          /\ stdout' = Append(stdout, "reproducer")
          /\ Exit(2) /\ UNCHANGED refused
    /\ UNCHANGED <<setting, script, runVars, outcome, shrunk, candidate, results, reports,
                   document, fileVars, promised, sweepVars>>

\* shrink_trace: there must be a failure to shrink.
JudgeShrink ==
    /\ pc = "judge" /\ command.name = "shrink"
    /\ \/ Passed(outcome) /\ Refuse("nothing to shrink")
       \/ ~Passed(outcome) /\ pc' = "shrinking" /\ UNCHANGED <<exit, refused>>
    /\ UNCHANGED <<setting, script, runVars, outcome, shrunk, candidate, results, reports,
                   document, fileVars, stdout, promised, sweepVars>>

-----------------------------------------------------------------------------
\* Runner::shrink with RunOracle, then the replay of what it came back with.

Target == outcome.violations[1]

StillFailsAtAll(violations) == violations # <<>>
StillFails(violations) == Target \in ToSet(violations)

Shrink ==
    /\ pc = "shrinking"
    /\ \E removed \in SUBSET ActiveKeys(outcome.trace) :
          /\ candidate' = Without(outcome.trace, removed)
          /\ \/ removed = {} /\ UNCHANGED known
             \/ /\ removed # {} /\ Startable
                /\ \E violations \in VerdictsOf(Follow(candidate')) :
                      StillFails(violations) /\ Learn(Follow(candidate'), violations)
    /\ pc' = "verify"
    /\ UNCHANGED <<setting, script, drawn, outcome, shrunk, results, reports, document, fileVars,
                   stdout, exit, refused, promised, sweepVars>>

\* A shrinker that broke must not lose the failure: shrink_if_asked goes on
\* with the run as it was.  shrink_trace has nothing else to offer.
GiveUpAlways(stage) == Refuse(stage)
GiveUpShrinking(stage) ==
    \/ command.name = "shrink" /\ Refuse(stage)
    \/ command.name # "shrink" /\ pc' = "report" /\ UNCHANGED <<exit, refused>>

ShrinkFails ==
    /\ pc \in {"shrinking", "verify"}
    /\ GiveUpShrinking("harness")
    /\ UNCHANGED <<setting, script, runVars, outcome, shrunk, candidate, results, reports, document,
                   fileVars, stdout, promised, sweepVars>>

\* What is kept of the replay is its own recording, not the edited trace.
VerifyEdited(trace, violations) == [trace |-> candidate, violations |-> violations]
Verified(trace, violations) == [trace |-> trace, violations |-> violations]
Verify ==
    /\ pc = "verify" /\ Startable
    /\ LET trace == Follow(candidate)
       IN  \E violations \in VerdictsOf(trace) :
              /\ Learn(trace, violations)
              /\ \/ /\ violations = <<>> /\ GiveUpShrinking("shrunk passes")
                    /\ UNCHANGED shrunk
                 \/ /\ violations # <<>>
                    /\ shrunk' = Verified(trace, violations)
                    /\ pc' = "report"
                    /\ UNCHANGED <<exit, refused>>
    /\ UNCHANGED <<setting, script, drawn, outcome, candidate, results, reports, document, fileVars,
                   stdout, promised, sweepVars>>

Reported == IF shrunk = None THEN outcome ELSE shrunk

\* The end of run_one: the reproducer or the report, then the shrunk trace.
ReportRun ==
    /\ pc = "report" /\ command.name = "run"
    /\ stdout' = Append(stdout, IF command.json THEN "report" ELSE "reproducer")
    /\ pc' = IF command.trace # None /\ shrunk # None THEN "rewrite" ELSE "failed"
    /\ UNCHANGED <<setting, script, runVars, outcome, shrunk, candidate, results, reports, document,
                   fileVars, exit, refused, promised, sweepVars>>

RewriteTrace ==
    /\ pc = "rewrite"
    /\ Write(shrunk.trace, command.trace, "failed")
    /\ UNCHANGED <<setting, script, runVars, outcome, shrunk, candidate, results, reports, document,
                   promised, sweepVars>>

\* The end of shrink_trace: what is written is the replay's own recording.
ReportShrink ==
    /\ pc = "report" /\ command.name = "shrink"
    /\ \/ /\ command.out = None
          /\ pc' = "failed"
          /\ UNCHANGED <<stdout, fileVars, exit, refused>>
       \/ Write(shrunk.trace, command.out, "failed")
    /\ UNCHANGED <<setting, script, runVars, outcome, shrunk, candidate, results, reports, document,
                   promised, sweepVars>>

Fail ==
    /\ pc = "failed" /\ Exit(2)
    /\ UNCHANGED <<setting, script, runVars, outcome, shrunk, candidate, results, reports, document,
                   fileVars, stdout, refused, promised, sweepVars>>

-----------------------------------------------------------------------------
\* fuzz.

Sweeping ==
    /\ pc = "fuzz"
    /\ StartSweep(command.start, command.count, command.shard)
    /\ pc' = "sweeping"
    /\ UNCHANGED <<setting, script, runVars, outcome, shrunk, candidate, results, reports, document,
                   fileVars, stdout, exit, refused, promised>>

LaunchRun ==
    /\ pc = "sweeping"
    /\ Launch(command.parallel)
    /\ UNCHANGED <<setting, script, pc, runVars, outcome, shrunk, candidate, results, reports,
                   document, fileVars, stdout, exit, refused, promised>>

FinishRun ==
    /\ pc = "sweeping" /\ Startable
    /\ \E at \in flying : \E trace \in TracesOf(mine[at]) : \E violations \in VerdictsOf(trace) :
          /\ drawn' = Noted(drawn, mine[at], trace)
          /\ Learn(trace, violations)
          /\ EndRun(at, [kind |-> Kind(violations), trace |-> trace, violations |-> violations],
                    setting.terminal)
          /\ results' = Append(results, Kind(violations))
    /\ UNCHANGED <<setting, script, pc, outcome, shrunk, candidate, reports, document, fileVars,
                   stdout, exit, refused, promised>>

FinishRunFails ==
    /\ pc = "sweeping"
    /\ \E at \in flying : EndRun(at, [kind |-> "error"], setting.terminal)
    /\ results' = Append(results, "error")
    /\ UNCHANGED <<setting, script, pc, runVars, outcome, shrunk, candidate, reports, document,
                   fileVars, stdout, exit, refused, promised>>

\* The first failures are shrunk, one after another.
Shown == IF command.max = None THEN Len(Failures) ELSE command.max
ToShrink == Min({Shown, Len(Failures)})

ShrinkNext ==
    /\ pc = "sweeping" /\ Swept /\ Len(reports) < ToShrink
    /\ LET run == Failures[Len(reports) + 1].result
       IN  outcome' = [trace |-> run.trace, violations |-> run.violations]
    /\ shrunk' = None
    /\ Draw(setting.terminal, [label |-> "shrinking", at |-> Len(reports), of |-> Shown],
            Len(reports) >= Shown)
    /\ pc' = "shrinking"
    /\ UNCHANGED <<setting, script, runVars, candidate, results, reports, document, fileVars, stdout,
                   exit, refused, promised, mine, launched, flying, ended, done, failing, told>>

\* Reproducer::build, over the run that is reported and the number of decisions
\* of the one that was found, and Outcome::report around it.  Its delivery order is
\* what ArrivedOn gives of each connection, one after another.
Reproduce(run, original) ==
    [steps |-> Active(run.trace), original |-> original,
     unused |-> Permitted \ UsedFaults(run.trace)]
ReportOf(seed, run, original) ==
    [seed |-> seed, violations |-> run.violations, signature |-> Signature(run.trace),
     recorded |-> Len(run.trace), active |-> Len(Active(run.trace)),
     used |-> UsedFaults(run.trace), reproducer |-> Reproduce(run, original)]

ReportFailure ==
    /\ pc = "report" /\ command.name = "fuzz"
    /\ reports' = Append(reports, ReportOf(mine[Failures[Len(reports) + 1].at], Reported,
                                          Len(Active(outcome.trace))))
    /\ pc' = "sweeping"
    /\ UNCHANGED <<setting, script, runVars, outcome, shrunk, candidate, results, document,
                   fileVars, stdout, exit, refused, promised, sweepVars>>

\* The others are reported as they are; then the summary and the reproducers.
RestDropped == <<>>
Rest ==
    [i \in 1 .. Len(Failures) - ToShrink |->
        LET run == Failures[ToShrink + i]
        IN  ReportOf(mine[run.at], run.result, Len(Active(run.result.trace)))]

Summarise ==
    /\ pc = "sweeping" /\ Swept /\ Len(reports) = ToShrink
    /\ reports' = reports \o Rest
    /\ document' = ToReport(reports', command.shard, command.start, command.count)
    /\ Erase
    /\ stdout' = stdout \o [i \in 1 .. ToShrink |-> "reproducer"]
    /\ pc' = "document"
    /\ UNCHANGED <<setting, script, runVars, outcome, shrunk, candidate, results, fileVars, exit,
                   refused, promised, mine, launched, flying, ended, done, failing, told>>

\* write_document, and the exit code of the sweep.
WriteDocument ==
    /\ pc = "document"
    /\ \/ command.report = "file" /\ Refuse("write") /\ UNCHANGED stdout
       \/ /\ stdout' = IF command.report = "-" THEN Append(stdout, "document") ELSE stdout
          /\ Exit(IF Failures = <<>> THEN 0 ELSE 2)
          /\ UNCHANGED refused
    /\ UNCHANGED <<setting, script, runVars, outcome, shrunk, candidate, results, reports, document,
                   fileVars, promised, sweepVars>>

Next ==
    \/ Prepare \/ PrepareFails \/ NextCommand \/ Check
    \/ Execute \/ ExecuteFails \/ WriteTrace \/ JudgeRun \/ JudgeReplay \/ JudgeShrink
    \/ Shrink \/ ShrinkFails \/ Verify \/ ReportRun \/ RewriteTrace \/ ReportShrink \/ Fail
    \/ Sweeping \/ LaunchRun \/ FinishRun \/ FinishRunFails \/ ShrinkNext \/ ReportFailure
    \/ Summarise \/ WriteDocument

\* One process after another, each of which goes on until it exits.
Spec == Init /\ [][Next]_vars /\ WF_vars(Next)

-----------------------------------------------------------------------------

\* The exit code tells a caught bug from a broken harness (main.rs) of every
\* command line but one clap refuses: 2 only when a run of the command broke an
\* invariant, 0 only when none did and none but a sweep's own runs went wrong,
\* and a failure that was found is turned into an error only by a shrink command
\* that lost it or by a file that could not be written.  A mistyped line runs
\* nothing and exits 2 all the same, which no reader of the code can tell apart.
ExitTellsTheTruth ==
    pc = "exited" =>
        LET found == "violated" \in ToSet(results)
        IN  /\ exit = 2 => found \/ command.name = "mistyped"
            /\ command.name = "mistyped" => exit = 2 /\ results = <<>>
            /\ exit = 0 => /\ ~found
                           /\ "error" \in ToSet(results) => command.name = "fuzz"
            /\ exit = 1 /\ found => refused = "write" \/ command.name = "shrink"

\* What is reported in place of a failure is a failure, carries out no fault the
\* failure did not, and of a steady system still breaks the invariant the run was
\* shrunk for (RunOracle).  A reproducer names at most the decisions it counts.
FailureKept ==
    /\ \A i \in DOMAIN reports :
          Len(reports[i].reproducer.steps) <= reports[i].reproducer.original
    /\ shrunk # None =>
        /\ shrunk.violations # <<>>
        /\ ActiveKeys(shrunk.trace) \subseteq ActiveKeys(outcome.trace)
        /\ setting.steady => Target \in ToSet(shrunk.violations)

\* A trace file that was written to its end describes a run exactly: a replay
\* reaches every fork of it and no other.  The file of a command that exits
\* with a finding reproduces that finding, if the system is steady.  Runs are
\* those of Traces, of one proxy and one connection after another.
WrittenTraceReplays ==
    /\ whole => Readable(file) /\ Follow(Load(file)) = Load(file)
    /\ /\ pc = "exited" /\ exit = 2 /\ setting.steady
       /\ \/ command.name = "run" /\ command.trace = "file"
          \/ command.name = "shrink" /\ command.out = "file"
       => Target \in ToSet(known[Load(file)])

\* "Did not reproduce" is said only of a run that reached the forks whose keys
\* are in the file and no other, and was given at each what the file says of that
\* key last: of a file half written, of another scenario or edited by hand, with
\* its records in any order, as connections at the same time leave them, and with
\* keys that several proxies share, of which only the last record is followed.
CarriesOut(trace, run) ==
    /\ KeysIn(run) = KeysIn(trace)
    /\ \A i \in DOMAIN run : run[i].decision = DecisionAt(trace, run[i].key)
ReplayMeansFollowed ==
    pc = "exited" /\ command.name = "replay" /\ exit = 0 => CarriesOut(Load(file), outcome.trace)

Times(list, item) == Cardinality({i \in DOMAIN list : list[i] = item})

\* Every failure is in exactly one group, each group has the seeds of its own
\* failures, as often as they failed, and the groups found most come first.
GroupsAccount(groups, failures) ==
    /\ \A i \in DOMAIN failures :
          Cardinality({g \in DOMAIN groups : groups[g].signature = failures[i].signature}) = 1
    /\ \A g \in DOMAIN groups, seed \in 0 .. Top :
          Times(groups[g].seeds, seed)
              = Cardinality({i \in DOMAIN failures :
                    failures[i].signature = groups[g].signature /\ failures[i].seed = seed})
    /\ \A g, h \in DOMAIN groups : g < h => Len(groups[g].seeds) >= Len(groups[h].seeds)

\* Each requested run, those of a repeated seed included, belongs to one shard.
ShardsShare(start, count, shards) ==
    \A seed \in 0 .. Top : \E owner \in 0 .. shards - 1 : \A index \in 0 .. shards - 1 :
        Times(Mine(start, count, [index |-> index, count |-> shards]), seed)
            = IF index = owner THEN Times(Seeds(start, count), seed) ELSE 0

\* A sweep accounts for every run it was responsible for: passed, failed or
\* incomplete, and every failing run is in its document, under its own seed,
\* and in exactly one group.
DocumentAccounts ==
    document # None =>
        /\ document.passed + document.violated + document.incomplete = document.seeds_run
        /\ IsComplete(document) <=> "error" \notin ToSet(results)
        /\ document.violated = Cardinality({i \in DOMAIN results : results[i] = "violated"})
        /\ Len(document.failures) = Len(Failures)
        /\ \A k \in DOMAIN Failures : document.failures[k].seed = mine[Failures[k].at]
        /\ GroupsAccount(document.distinct_failures, document.failures)
        /\ command.shard # Nothing =>
              ShardsShare(command.start, command.count, command.shard.count)

\* What the callback is told counts the runs that ended and no others, and the
\* bar is never left short of the end when a sweep is over, nor left behind.
ProgressHonest ==
    /\ told # Nothing =>
          /\ told.completed = Len(ended)
          /\ told.failing = Cardinality(Ended("violated"))
          /\ told.completed + Cardinality(flying) <= told.total
    /\ pc = "sweeping" /\ Swept /\ ended # <<>> /\ reports = <<>> /\ setting.terminal =>
          line = [label |-> "running", at |-> Len(mine), of |-> Len(mine)]
    /\ pc \in {"document", "exited"} => line = Nothing

\* Neither the document nor the progress line miscounts, in whatever order the
\* runs of a sweep end.
SweepAccounts == DocumentAccounts /\ ProgressHonest

\* After a check that found everything good, a later command is not refused for
\* anything check looks at.  What is left is a workload that posts to a service
\* that does not listen, an invariant that asks a service or a database that is
\* not there, and a query in a build that has no SQL.
CheckForetells ==
    promised =>
        /\ refused \notin {"resolve", "vendors", "egress"}
        /\ refused = "build" =>
              \E i \in DOMAIN Scenery.invariants : ~BuildsUser(Scenery.invariants[i], setting.build)

\* The delivery order of a reproducer is exact for a workload of one batch: late
\* is what the schedule deferred and something overtook, and never arrived what
\* the schedule dropped below the highest position that did arrive.
OrderIsExact(length) ==
    \A last \in {Allow, "drop", "reorder", "close"} :
    \A choice \in [1 .. length - 1 -> {Allow, "drop", "reorder"}] :
        LET took     == Append(choice, last)
            through  == {i \in 1 .. length : took[i] = Allow}
            deferred == {i \in 1 .. length : took[i] = "reorder"}
            overtook == {i \in deferred : \E j \in through : j > i}
            flushed  == IF last = "close" THEN {} ELSE deferred \ overtook
            there    == through \cup overtook \cup flushed
            arrivals == ArrivedOn([i \in 1 .. length |-> Record(<<1, i>>, took[i])], 1)
        IN  /\ ToSet(arrivals) = there
            /\ {arrivals[i] : i \in Late(arrivals)}
                   = overtook \cup {i \in flushed : \E j \in flushed : j > i}
            /\ there # {} => Dropped(arrivals) = (1 .. Max(there)) \ there
            /\ length > 1 /\ there = 1 .. length /\ SaysNothing(arrivals) => deferred \subseteq {length}
DeliveryOrderExact == pc = "start" => \A length \in 1 .. 3 : OrderIsExact(length)

\* Every command ends.
CommandsEnd == <>(script = <<>>)
=============================================================================
