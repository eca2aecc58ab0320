-------------------------- MODULE MCPostgresProxy --------------------------
(***************************************************************************)
(* A scenario that permits every fault which changes what the adapter does *)
(* with a group or an answer, and the messages both come in.               *)
(***************************************************************************)
EXTENDS PostgresProxy, PostgresWire

MCPermitted == {"connection_drop", "reorder", "hold_statement"}

\* What the checker of no_commit_after_error is told a group runs is what the
\* server runs for it (read_group, Session), although the group may name a
\* statement that another one prepared, closed or prepared again; and groups and
\* answers are taken whole.  Looked at once.
GroupsAreUnderstood ==
    Init => GroupsSayWhatRuns /\ NoneIsCutShort /\ StartupsAreUnderstood
=============================================================================
