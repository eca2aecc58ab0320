---------------------------- MODULE ForkIdentity ----------------------------
(***************************************************************************)
(* What a fork is looked up by.  The key names neither the proxy nor the   *)
(* position in the trace: kind, connection and how many forks of that kind *)
(* the connection went through before.                                     *)
(***************************************************************************)
EXTENDS Naturals, Sequences, FiniteSets

CONSTANTS
    Proxies,      \* the proxies of one run, one per dependency or ingress
    Kinds,        \* the kinds of fork reached on an accepted connection
    Neutral,      \* the answer of a source that holds none for a fork
    MaxConnections  \* bound: connections accepted by one proxy

ASSUME MaxConnectionsAssumption == MaxConnections \in Nat
ASSUME KindsAssumption == "connection" \notin Kinds

\* Every proxy numbers its connections from 1.
Connections == 1..MaxConnections

AllKinds == Kinds \cup {"connection"}

\* One task serves one connection of one proxy.
Tasks == Proxies \X Connections

PointKey(kind, connection, ordinal) ==
    [kind |-> kind, connection |-> connection, ordinal |-> ordinal]

\* A source answers with what it holds for the key, else the boring path.
Lookup(held, key) == IF key \in DOMAIN held THEN held[key] ELSE Neutral
=============================================================================
