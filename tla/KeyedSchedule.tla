--------------------------- MODULE KeyedSchedule ---------------------------
(***************************************************************************)
(* What the schedule promises a connection: its n-th fork of a kind is     *)
(* answered by a function of exactly those three things.  No clock, no     *)
(* stream of random numbers and no other connection is in the promise, so  *)
(* nothing the thread scheduler does can show through.                     *)
(***************************************************************************)
EXTENDS ForkIdentity

VARIABLES
    source,       \* fork -> decision: a seed, or the map built from a trace
    took          \* connection -> the answers carried out on it, in order

\* How many forks of a kind a connection has been through.
Passed(answers, kind) ==
    Cardinality({i \in DOMAIN answers : answers[i].key.kind = kind})

\* A connection whose last answer was to close reaches no further fork.
Open(answers) == \A i \in DOMAIN answers : answers[i].decision # "close"

Init == took = [task \in Tasks |-> <<>>]

\* One connection goes through one fork.  The first fork of each is whether
\* the connection is made at all.
Pass(task, kind) ==
    LET key == PointKey(kind, task[2], Passed(took[task], kind))
    IN  /\ Open(took[task])
        /\ (kind = "connection") <=> (took[task] = <<>>)
        /\ took' = [took EXCEPT ![task] =
                       Append(@, [key |-> key, decision |-> Lookup(source, key)])]
        /\ UNCHANGED source

\* Another run, against a source of its own.
NewRun == took' = [task \in Tasks |-> <<>>]

Next == NewRun \/ \E task \in Tasks, kind \in AllKinds : Pass(task, kind)

Spec == Init /\ [][Next]_<<source, took>>
=============================================================================
