------------------------------- MODULE Traces -------------------------------
(***************************************************************************)
(* The trace of a run as a document: what a seed or a replay records, what *)
(* neutralising decisions does to it, where a replay departs from it, how  *)
(* it is written and read, and what a report says of it.  The workload     *)
(* posts its batches one after another, each over a connection of its own, *)
(* so a run goes through the forks of one connection after another.        *)
(***************************************************************************)
EXTENDS Schedule, Ranking, Naturals, Sequences, FiniteSets, SequencesExt

CONSTANTS
    Batches,      \* how many deliveries each connection of the workload makes
    Permitted     \* the faults the scenario permits

ASSUME BatchesAssumption == Batches \in Seq(Nat)
ASSUME PermittedAssumption == Permitted \subseteq FaultKinds

Keys == UNION {{connection} \X (1 .. Batches[connection]) : connection \in DOMAIN Batches}

Record(key, decision) == [key |-> key, kind |-> "deliver", decision |-> decision]

\* The forks a run goes through: those of a connection up to one that closes it,
\* and one connection after another.
Reached(choice) ==
    {key \in Keys : \A i \in 1 .. key[2] - 1 : choice[<<key[1], i>>] # "close"}
Earlier(one, other) == one[1] < other[1] \/ (one[1] = other[1] /\ one[2] < other[2])

TraceOf(choice) ==
    LET keys == Ranked(Reached(choice), Earlier)
    IN  [i \in 1 .. Cardinality(Reached(choice)) |-> Record(keys[i], choice[keys[i]])]

\* A seed is a function from forks to answers.
SeedTraces == {TraceOf(choice) : choice \in [Keys -> Answers(Permitted, "deliver")]}

KeysIn(trace) == {trace[i].key : i \in DOMAIN trace}
DecisionAt(trace, key) ==
    LET at == {i \in DOMAIN trace : trace[i].key = key}
    IN  trace[CHOOSE i \in at : \A j \in at : j <= i].decision     \* the last is kept

\* Scheduler::replaying: the run a trace gives, neutral wherever the trace
\* holds nothing.
Follow(trace) ==
    TraceOf([key \in Keys |->
                IF key \in KeysIn(trace) THEN DecisionAt(trace, key) ELSE Allow])

\* What a replay of a trace reports of itself.
Divergence(trace, run) ==
    [unused |-> KeysIn(trace) \ KeysIn(run), unmatched |-> KeysIn(run) \ KeysIn(trace)]
Follows(trace, run) == Divergence(trace, run) = [unused |-> {}, unmatched |-> {}]

Active(trace) == Picked(trace, {i \in DOMAIN trace : trace[i].decision # Allow})
ActiveKeys(trace) == KeysIn(Active(trace))

Without(trace, keys) ==
    [i \in DOMAIN trace |-> IF trace[i].key \in keys
                            THEN [trace[i] EXCEPT !.decision = Allow] ELSE trace[i]]

-----------------------------------------------------------------------------
\* Signature and report.

\* Connections are numbered in the order they first appear; neither the
\* ordinal nor what a decision was drawn with is part of the signature.
Canonical(records, i) ==
    Cardinality({records[j].key[1] : j \in 1 .. i} \ {records[i].key[1]})
FirstSeen(records, i) ==
    CHOOSE j \in 1 .. i : /\ records[j].key[1] = records[i].key[1]
                          /\ \A k \in 1 .. j - 1 : records[k].key[1] # records[i].key[1]
Signature(trace) ==
    LET records == Active(trace)
    IN  [i \in DOMAIN records |->
            <<Canonical(records, FirstSeen(records, i)), records[i].kind, records[i].decision>>]

\* Decision::fault_kind: a decision back to a fault, which is not the one that
\* permitted it when several turn into the same decision.
FaultOf ==
    [delay |-> "delay", drop |-> "swallow_ack", reorder |-> "reorder",
     close |-> "connection_drop", corrupt |-> "corrupt_frame", hold |-> "hold_statement"]
UsedFaults(trace) == {FaultOf[record.decision] : record \in ToSet(Active(trace))}

\* The positions at which the deliveries of a run reached the service, as the
\* adapter observes them: they count from one on every connection.
Took(state, record) ==
    LET position == record.key[2]
    IN  CASE record.decision = "reorder" -> [state EXCEPT !.deferred = <<position>> \o @]
          [] record.decision = "drop" -> state
          [] record.decision = "close" -> [state EXCEPT !.deferred = <<>>]
          [] OTHER -> [deferred |-> <<>>,
                       arrived |-> Append(state.arrived, position) \o state.deferred]
ArrivedOn(trace, connection) ==
    LET mine == Picked(trace, {i \in DOMAIN trace : trace[i].key[1] = connection})
        end  == FoldLeft(Took, [deferred |-> <<>>, arrived |-> <<>>], mine)
    IN  end.arrived \o end.deferred

\* Reproducer::render_arrivals: late is what came behind something sent after
\* it, dropped is a gap below the highest position.
Late(arrivals) ==
    {i \in DOMAIN arrivals : \E j \in 1 .. i - 1 : arrivals[j] > arrivals[i]}
DroppedOfArrived(arrivals) ==
    {position \in 1 .. Len(arrivals) : position \notin ToSet(arrivals)}
Dropped(arrivals) ==
    {position \in 1 .. Max(ToSet(arrivals) \cup {Len(arrivals)}) : position \notin ToSet(arrivals)}
SaysNothing(arrivals) ==
    Len(arrivals) < 2 \/ (Late(arrivals) = {} /\ Dropped(arrivals) = {})

-----------------------------------------------------------------------------
\* Trace::save and Trace::load, a line at a time.  A line is a header, a
\* record, or torn in the middle.

FormatVersion == 1
Header == [format |-> FormatVersion]
Torn == [torn |-> TRUE]
IsHeader(line) == "format" \in DOMAIN line

Save(trace) == <<Header>> \o trace

Readable(lines) ==
    /\ lines # <<>>
    /\ \A i \in DOMAIN lines : lines[i] # Torn
    /\ IsHeader(lines[1]) /\ lines[1].format <= FormatVersion
    /\ \A i \in 2 .. Len(lines) : ~IsHeader(lines[i])
Load(lines) == Tail(lines)

\* std::fs::write truncates and then writes: what an unfinished one leaves.
Partial(lines) ==
    {SubSeq(lines, 1, i) : i \in 0 .. Len(lines)}
        \cup {Append(SubSeq(lines, 1, i), Torn) : i \in 0 .. Len(lines) - 1}
=============================================================================
