------------------------------- MODULE Sweep -------------------------------
(***************************************************************************)
(* A sweep: the seeds one process is responsible for, the runs of them in  *)
(* flight at once, the counters that each finished run moves, and the line *)
(* a terminal shows meanwhile.  All runs of a sweep are polled by one      *)
(* task, so what a run does after its last await is one step; the runs     *)
(* themselves end in any order.                                            *)
(***************************************************************************)
EXTENDS Ranking, Naturals, Sequences, FiniteSets, SequencesExt

CONSTANTS
    Top,          \* the largest seed a word holds (u64::MAX)
    Nothing       \* no shard, no progress, nothing on the line

ASSUME TopAssumption == Top \in Nat
ASSUME NothingAssumption == Nothing \notin [index : Nat, count : Nat]

VARIABLES
    mine,       \* the seeds of this process, in order
    launched,   \* how many of them were started
    flying,     \* the positions in mine whose run has not ended
    ended,      \* [at, result] of each run that ended, as they ended
    done, failing,          \* the two counters
    told,       \* the last Progress handed to the callback
    line        \* what the bar shows, or Nothing

sweepVars == <<mine, launched, flying, ended, done, failing, told, line>>

\* Seeds::iter.
Seeds(start, count) == [i \in 1 .. count |-> Min({start + i - 1, Top})]

\* Shard::new and Shard::contains.
ShardExists(shard) == shard.count # 0 /\ shard.index < shard.count
Covers(shard, seed) == shard = Nothing \/ seed % shard.count = shard.index
Mine(start, count, shard) ==
    LET seeds == Seeds(start, count)
    IN  Picked(seeds, {i \in 1 .. count : Covers(shard, seeds[i])})

NoSweep ==
    /\ mine = <<>> /\ launched = 0 /\ flying = {} /\ ended = <<>>
    /\ done = 0 /\ failing = 0 /\ told = Nothing /\ line = Nothing

ClearSweep ==
    /\ mine' = <<>> /\ launched' = 0 /\ flying' = {} /\ ended' = <<>>
    /\ done' = 0 /\ failing' = 0 /\ told' = Nothing /\ line' = Nothing

StartSweep(start, count, shard) ==
    /\ mine' = Mine(start, count, shard)
    /\ launched' = 0 /\ flying' = {} /\ ended' = <<>>
    /\ done' = 0 /\ failing' = 0 /\ told' = Nothing
    /\ UNCHANGED line

\* buffer_unordered(parallel.max(1)).
RoomAsked(parallel) == Cardinality(flying) < parallel
Room(parallel) == Cardinality(flying) < Max({parallel, 1})
Launch(parallel) ==
    /\ launched < Len(mine) /\ Room(parallel)
    /\ launched' = launched + 1
    /\ flying' = flying \cup {launched + 1}
    /\ UNCHANGED <<mine, ended, done, failing, told, line>>

\* Bar::update and Bar::phase draw unless it is too soon; the last always does.
Draw(terminal, shown, last) ==
    IF ~terminal THEN line' = line
    ELSE \/ line' = shown
         \/ ~last /\ line' = line

\* A run of the sweep ends: the counters move, then the callback is told.
EndRun(at, result, terminal) ==
    LET found    == failing + (IF result.kind = "violated" THEN 1 ELSE 0)
        progress == [completed |-> done + 1, total |-> Len(mine), failing |-> found]
    IN  /\ at \in flying
        /\ flying' = flying \ {at}
        /\ ended' = Append(ended, [at |-> at, result |-> result])
        /\ failing' = found
        /\ done' = done + 1
        /\ told' = progress
        /\ Draw(terminal, [label |-> "running", at |-> done + 1, of |-> Len(mine)],
                progress.completed >= progress.total)
        /\ UNCHANGED <<mine, launched>>

Swept == Len(ended) = Len(mine)

Ended(kind) == {i \in DOMAIN ended : ended[i].result.kind = kind}

\* failures.sort_by_key: by seed, and as they ended among equal seeds.
Sooner(i, j) ==
    \/ mine[ended[i].at] < mine[ended[j].at]
    \/ mine[ended[i].at] = mine[ended[j].at] /\ i < j
Failures ==
    LET at == Ranked(Ended("violated"), Sooner)
    IN  [k \in 1 .. Cardinality(Ended("violated")) |-> ended[at[k]]]

\* Bar::finish erases what is on the line.
Erase == line' = Nothing

-----------------------------------------------------------------------------
\* SweepReport::group: by signature, most found first, then by first seed.

Sorted(seeds) ==
    LET Before(i, j) == seeds[i] < seeds[j] \/ (seeds[i] = seeds[j] /\ i < j)
        at == Ranked(DOMAIN seeds, Before)
    IN  [k \in DOMAIN seeds |-> seeds[at[k]]]

GroupOf(reports, signature) ==
    LET members == Picked(reports, {i \in DOMAIN reports : reports[i].signature = signature})
    IN  [signature |-> signature, invariant |-> members[1].violations[1],
         seeds |-> Sorted([i \in DOMAIN members |-> members[i].seed])]

InFront(a, b) ==
    \/ Len(a.seeds) > Len(b.seeds)
    \/ Len(a.seeds) = Len(b.seeds) /\ a.seeds[1] < b.seeds[1]

\* A group is made where its signature is first met; the sort that follows is stable.
FirstOfKind(reports) ==
    {i \in DOMAIN reports : \A j \in 1 .. i - 1 : reports[j].signature # reports[i].signature}
Foremost(a, b) == InFront(a.group, b.group) \/ (~InFront(b.group, a.group) /\ a.first < b.first)
Group(reports) ==
    LET groups == {[first |-> i, group |-> GroupOf(reports, reports[i].signature)] :
                      i \in FirstOfKind(reports)}
        ranked == Ranked(groups, Foremost)
    IN  [k \in 1 .. Cardinality(groups) |-> ranked[k].group]

\* FuzzReport::to_report.
ToReport(reports, shard, start, count) ==
    [shard |-> shard, seed_start |-> start, seed_count |-> count,
     seeds_run |-> Len(mine), passed |-> Cardinality(Ended("passed")),
     violated |-> Len(reports), incomplete |-> Cardinality(Ended("error")),
     distinct_failures |-> Group(reports), failures |-> reports]

IsComplete(document) ==
    document.incomplete = 0 /\ document.passed + document.violated = document.seeds_run
=============================================================================
