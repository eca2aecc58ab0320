----------------------------- MODULE Replaying -----------------------------
(***************************************************************************)
(* A run and a replay of what it recorded.  The replay is the same run     *)
(* with another decision source: a map from key to decision built from the *)
(* trace, some of whose decisions the shrinker may have neutralised.       *)
(***************************************************************************)
EXTENDS Forks

CONSTANT Seeds      \* the functions from Key to decisions that seeds denote

ASSUME SeedsAssumption == \A seed \in Seeds : DOMAIN seed \subseteq Key

VARIABLES
    phase,        \* "recording", then "replaying", then "reported"
    recording,    \* the trace the replay was given
    original,     \* history: what each connection carried out the first time
    removed       \* the keys Trace::without neutralised

allVars == <<vars, phase, recording, original, removed>>

Active(records) == {i \in DOMAIN records : records[i].decision # Neutral}

\* Trace::without.
WithoutNothing(records, keys) == records
Without(records, keys) ==
    [i \in DOMAIN records |->
        IF records[i].key \in keys THEN [records[i] EXCEPT !.decision = Neutral]
                                   ELSE records[i]]

\* Replay::new.  The map is collected in trace order, so a later record of a
\* key replaces an earlier one.
LastOf(records, key) ==
    CHOOSE i \in DOMAIN records :
        /\ records[i].key = key
        /\ \A j \in DOMAIN records : records[j].key = key => j <= i
DecisionsOf(records) ==
    [key \in {records[i].key : i \in DOMAIN records} |->
        records[LastOf(records, key)].decision]

\* Replay::unused and Divergence::is_empty.
UnusedForgotten == {}
Unused == DOMAIN source \ used
Faithful == unmatched = <<>> /\ Unused = {}

InitReplaying ==
    /\ InitRun
    /\ source \in Seeds
    /\ phase = "recording"
    /\ recording = <<>>
    /\ original = [task \in Tasks |-> <<>>]
    /\ removed = {}

Running ==
    /\ phase \in {"recording", "replaying"}
    /\ NextRun
    /\ UNCHANGED <<phase, recording, original, removed>>

\* Scheduler::replaying, for mis replay or for one call of the shrinker.
StartReplay ==
    /\ phase = "recording" /\ Over
    /\ \E keys \in SUBSET {trace[i].key : i \in Active(trace)} :
           LET given == Without(trace, keys)
           IN  /\ removed' = keys
               /\ recording' = given
               /\ source' = DecisionsOf(given)
    /\ original' = took
    /\ phase' = "replaying"
    /\ connections' = [proxy \in Proxies |-> 0]
    /\ counters' = [proxy \in Proxies |-> [at \in AllKinds \X Connections |-> 0]]
    /\ pc' = [task \in Tasks |-> "none"]
    /\ fork' = [task \in Tasks |-> NoFork]
    /\ trace' = <<>>
    /\ used' = {}
    /\ unmatched' = <<>>
    /\ took' = [task \in Tasks |-> <<>>]

\* Scheduler::divergence, once the replay's proxies have been joined.
Report ==
    /\ phase = "replaying" /\ Over
    /\ phase' = "reported"
    /\ UNCHANGED <<vars, recording, original, removed>>

NextReplaying == Running \/ StartReplay \/ Report

SpecReplaying == InitReplaying /\ [][NextReplaying]_allVars

-----------------------------------------------------------------------------

Forked(answers, task) == {answers[task][i] : i \in DOMAIN answers[task]}

\* A replay of an unaltered trace that is reported faithful went through the
\* forks of the recording, on the same connections, with the same answers
\* (Divergence::is_empty, "whether the run followed the trace exactly").
FaithfulMeansSame ==
    phase = "reported" /\ removed = {} /\ Faithful
        => \A task \in Tasks : Forked(took, task) = Forked(original, task)

\* The converse: a replay whose connections reach the same number of forks of
\* each kind is reported faithful, and is answered as the recording was.
SameMeansFaithful ==
    phase = "reported" /\ removed = {}
        /\ (\A task \in Tasks, kind \in AllKinds :
               Promise!Passed(took[task], kind) = Promise!Passed(original[task], kind))
        => /\ Faithful
           /\ \A task \in Tasks : Forked(took, task) = Forked(original, task)

\* The verdict on a replay of an unaltered trace is right both ways.
FaithfulIffSame == FaithfulMeansSame /\ SameMeansFaithful

\* Neutralising decisions never adds a fault: whatever a replay perturbs, the
\* recording perturbed on the same connection in the same way.
NoNewFault ==
    phase # "recording" =>
        \A task \in Tasks : \A answer \in Forked(took, task) :
            answer.decision # Neutral =>
                answer \in Forked(original, task) /\ answer.key \notin removed
=============================================================================
