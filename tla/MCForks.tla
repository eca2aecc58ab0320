------------------------------ MODULE MCForks ------------------------------
(***************************************************************************)
(* Small instances of Forks and Replaying: few proxies, connections and    *)
(* forks, and every seed that answers them out of the faults a scenario    *)
(* permits.                                                                *)
(***************************************************************************)
EXTENDS Replaying

Table == INSTANCE Schedule

CONSTANT Permitted   \* the faults the scenario lists

\* A seed answers each fork with a decision the table allows there.
MCSeeds ==
    {[key \in Key |->
         IF key.kind # "connection" THEN forks[<<key.kind, key.connection, key.ordinal>>]
         ELSE IF key.ordinal = 0 THEN accepts[key.connection]
         ELSE Neutral] :
        accepts \in [Connections -> Table!Answers(Permitted, "connection")],
        forks \in [Kinds \X Connections \X (0..MaxForks-1) ->
                       UNION {Table!Answers(Permitted, kind) : kind \in Kinds}]}
=============================================================================
