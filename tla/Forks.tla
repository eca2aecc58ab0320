------------------------------- MODULE Forks -------------------------------
(***************************************************************************)
(* How the proxies of one run reach forks.  Each proxy owns a connection   *)
(* counter and a table of fork ordinals (ProxyContext); all of them share  *)
(* one scheduler, which is a decision source and a recorder.  Connections  *)
(* are served by tasks that run in parallel, so the three halves of a fork *)
(* - number it, answer it, record it - are three steps, and the steps of   *)
(* different connections interleave.                                       *)
(*                                                                         *)
(* A record carries the proxy it came from.  The code keeps the key and a  *)
(* text for people; the field is history that properties read and no step  *)
(* does.                                                                   *)
(***************************************************************************)
EXTENDS ForkIdentity

CONSTANT MaxForks   \* bound: forks of one kind on one connection

ASSUME MaxForksAssumption == MaxForks \in Nat

VARIABLES
    source,       \* fork -> decision (DecisionSource)
    connections,  \* proxy -> connections accepted so far
    counters,     \* proxy -> the next ordinal of each kind and connection
    pc,           \* connection -> where its task is
    fork,         \* connection -> the fork its task is at
    trace,        \* the recorder's log
    used,         \* Replay: keys it holds and was asked for
    unmatched,    \* Replay: keys it was asked for and does not hold, in order
    took          \* history: what each connection carried out

vars == <<source, connections, counters, pc, fork, trace, used, unmatched, took>>

Stages == {"none", "accepted", "serving", "numbered", "answered", "ended"}

AtFork(task) == pc[task] \in {"numbered", "answered"}

NoFork == [key |-> PointKey("connection", 0, 0), decision |-> Neutral]

InitRun ==
    /\ connections = [proxy \in Proxies |-> 0]
    /\ counters = [proxy \in Proxies |-> [at \in AllKinds \X Connections |-> 0]]
    /\ pc = [task \in Tasks |-> "none"]
    /\ fork = [task \in Tasks |-> NoFork]
    /\ trace = <<>>
    /\ used = {}
    /\ unmatched = <<>>
    /\ took = [task \in Tasks |-> <<>>]

\* Forks::next hands out the counter and leaves it one higher.
Ordinal(counter) == counter
CountOnce(counter) == counter
NextOrdinal(counter) == counter + 1

\* The accept loop numbers a connection.  It is one task, so the previous
\* connection's own fork is behind it.
Accept(proxy) ==
    /\ connections[proxy] + 1 \in Connections
    /\ \A connection \in Connections :
           /\ pc[<<proxy, connection>>] # "accepted"
           /\ AtFork(<<proxy, connection>>) =>
                  fork[<<proxy, connection>>].key.kind # "connection"
    /\ connections' = [connections EXCEPT ![proxy] = @ + 1]
    /\ pc' = [pc EXCEPT ![<<proxy, connections[proxy] + 1>>] = "accepted"]
    /\ UNCHANGED <<source, counters, fork, trace, used, unmatched, took>>

\* Forks::next.
Number(task, kind) ==
    LET at == <<kind, task[2]>>
    IN  /\ \/ pc[task] = "accepted" /\ kind = "connection"
           \/ pc[task] = "serving" /\ kind \in Kinds
        /\ counters[task[1]][at] < MaxForks
        /\ fork' = [fork EXCEPT ![task] =
                       [NoFork EXCEPT !.key =
                           PointKey(kind, task[2], Ordinal(counters[task[1]][at]))]]
        /\ counters' = [counters EXCEPT ![task[1]][at] = NextOrdinal(@)]
        /\ pc' = [pc EXCEPT ![task] = "numbered"]
        /\ UNCHANGED <<source, connections, trace, used, unmatched, took>>

\* DecisionSource::decide, of a seed or of a replay.
Decide(task) ==
    LET key == fork[task].key
    IN  /\ pc[task] = "numbered"
        /\ fork' = [fork EXCEPT ![task].decision = Lookup(source, key)]
        /\ IF key \in DOMAIN source
           THEN used' = used \cup {key} /\ UNCHANGED unmatched
           ELSE unmatched' = Append(unmatched, key) /\ UNCHANGED used
        /\ pc' = [pc EXCEPT ![task] = "answered"]
        /\ UNCHANGED <<source, connections, counters, trace, took>>

\* Recorder::record, after which the adapter carries the answer out.
Record(task) ==
    /\ pc[task] = "answered"
    /\ trace' = Append(trace, [proxy |-> task[1], key |-> fork[task].key,
                               decision |-> fork[task].decision])
    /\ took' = [took EXCEPT ![task] = Append(@, fork[task])]
    /\ pc' = [pc EXCEPT ![task] =
                 IF fork[task].decision = "close" THEN "ended" ELSE "serving"]
    /\ UNCHANGED <<source, connections, counters, fork, used, unmatched>>

\* The client goes away, or the run is cancelled.
Leave(task) ==
    /\ pc[task] = "serving"
    /\ pc' = [pc EXCEPT ![task] = "ended"]
    /\ UNCHANGED <<source, connections, counters, fork, trace, used, unmatched, took>>

NextRun ==
    \/ \E proxy \in Proxies : Accept(proxy)
    \/ \E task \in Tasks :
           \/ \E kind \in AllKinds : Number(task, kind)
           \/ Decide(task)
           \/ Record(task)
           \/ Leave(task)

-----------------------------------------------------------------------------

Key == [kind : AllKinds, connection : Connections, ordinal : 0..MaxForks-1]

\* Every variable holds what the code's types allow.
TypeOK ==
    /\ DOMAIN source \subseteq Key
    /\ connections \in [Proxies -> Nat]
    /\ counters \in [Proxies -> [AllKinds \X Connections -> 0..MaxForks]]
    /\ pc \in [Tasks -> Stages]
    /\ \A task \in Tasks : AtFork(task) => fork[task].key \in Key
    /\ used \subseteq DOMAIN source
    /\ \A i \in DOMAIN trace : trace[i].proxy \in Proxies /\ trace[i].key \in Key
    /\ \A i \in DOMAIN unmatched : unmatched[i] \in Key \ DOMAIN source

\* A run is over when every proxy has joined its connections.
Over == \A task \in Tasks : pc[task] \in {"none", "ended"}

Promise == INSTANCE KeyedSchedule WITH source <- source, took <- took

\* What a connection is answered depends on nothing but the source and its own
\* forks, whatever order the threads take.
KeepsPromise == Promise!Spec
=============================================================================
