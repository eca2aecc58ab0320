------------------------------- MODULE Shrink -------------------------------
(***************************************************************************)
(* Delta debugging over the perturbing decisions of a failing trace.       *)
(*                                                                         *)
(* The candidate is a set of positions in the list of active keys, so it   *)
(* is in trace order by construction; two positions may hold one key (two  *)
(* proxies of a run number their connections alike), and a trace keeps or  *)
(* neutralises a key wherever it occurs.  One step is one question to the  *)
(* oracle, which replays a whole run.                                      *)
(***************************************************************************)
EXTENDS Integers, FiniteSets, Sequences

CONSTANTS
    Keys,         \* fork keys (PointKey)
    Active,       \* the keys of the active decisions, in trace order
    Limits        \* the budgets (Limits::max_attempts) considered

ASSUME ActiveAssumption == Active \in Seq(Keys)
ASSUME LimitsAssumption == Limits \subseteq Nat

VARIABLES
    failing,      \* the sets of keys whose replay shows the failure again
    limit,        \* Limits::max_attempts
    candidate,    \* the positions still active
    granularity,
    pc,           \* which loop of ddmin is asking: "chunks" or "complements"
    index,        \* the chunk the next question is about
    attempts,
    exhausted

vars == <<failing, limit, candidate, granularity, pc, index, attempts, exhausted>>

Positions == 1..Len(Active)

KeysOf(keep) == {Active[position] : position \in keep}

\* How far into the candidate a position is.
Rank(items, position) == Cardinality({other \in items : other <= position})

AtLeast(low, n) == IF n < low THEN low ELSE n
AtMost(high, n) == IF n > high THEN high ELSE n

DivCeil(n, by) == (n + by - 1) \div by

\* partition: equal chunks of consecutive positions, the last one shorter.
Count(items, count) == AtMost(AtLeast(1, Cardinality(items)), AtLeast(1, count))
Size(items, count) == DivCeil(Cardinality(items), Count(items, count))
Chunks(items, count) == DivCeil(Cardinality(items), Size(items, count))
Chunk(items, count, i) ==
    LET size == Size(items, count)
    IN  {position \in items :
            (i - 1) * size < Rank(items, position) /\ Rank(items, position) <= i * size}

Complement(items, count, i) == items \ Chunk(items, count, i)

-----------------------------------------------------------------------------

\* The head of ddmin's loop.
GoesOn(items, spent) == Cardinality(items) >= 2 /\ ~spent

Init ==
    /\ failing \in SUBSET SUBSET Keys
    /\ KeysOf(Positions) \in failing
    /\ limit \in Limits
    /\ candidate = Positions
    /\ granularity = 2
    /\ pc = IF GoesOn(Positions, FALSE) THEN "chunks" ELSE "done"
    /\ index = 1
    /\ attempts = 0
    /\ exhausted = FALSE

Spent == attempts >= limit

\* Search::fails_with: the question, and what it costs.
FailsOnceSpent(keep) == Spent \/ KeysOf(keep) \in failing
Fails(keep) == ~Spent /\ KeysOf(keep) \in failing

ChargeLate ==
    /\ attempts' = attempts + 1
    /\ exhausted' = Spent
Charge ==
    /\ attempts' = IF Spent THEN attempts ELSE attempts + 1
    /\ exhausted' = (exhausted \/ Spent)

\* Another round of the loop over these items, if there is one.
Round(items, count) ==
    /\ candidate' = items
    /\ granularity' = count
    /\ pc' = IF GoesOn(items, exhausted') THEN "chunks" ELSE "done"
    /\ index' = 1

\* Does one chunk reproduce the failure on its own?
TryChunk ==
    LET chunk == Chunk(candidate, granularity, index)
    IN  /\ pc = "chunks"
        /\ Charge
        /\ \/ Fails(chunk) /\ Round(chunk, 2)
           \/ /\ ~Fails(chunk) /\ index < Chunks(candidate, granularity)
              /\ index' = index + 1
              /\ UNCHANGED <<candidate, granularity, pc>>
           \/ /\ ~Fails(chunk) /\ index = Chunks(candidate, granularity)
              /\ pc' = "complements"
              /\ index' = 1
              /\ UNCHANGED <<candidate, granularity>>
        /\ UNCHANGED <<failing, limit>>

\* No chunk can be thrown away: look finer, or stop when each is one decision.
RefineNever ==
    /\ pc' = "done"
    /\ UNCHANGED <<candidate, granularity, index>>
RefineForever ==
    Round(candidate, AtMost(Cardinality(candidate), granularity * 2))
Refine ==
    \/ /\ granularity >= Cardinality(candidate)
       /\ pc' = "done"
       /\ UNCHANGED <<candidate, granularity, index>>
    \/ /\ granularity < Cardinality(candidate)
       /\ Round(candidate, AtMost(Cardinality(candidate), granularity * 2))

\* Can one chunk be thrown away?
TryComplement ==
    LET rest == Complement(candidate, granularity, index)
    IN  /\ pc = "complements"
        /\ Charge
        /\ \/ Fails(rest) /\ Round(rest, AtLeast(2, granularity - 1))
           \/ /\ ~Fails(rest) /\ index < Chunks(candidate, granularity)
              /\ index' = index + 1
              /\ UNCHANGED <<candidate, granularity, pc>>
           \/ /\ ~Fails(rest) /\ index = Chunks(candidate, granularity)
              /\ Refine
        /\ UNCHANGED <<failing, limit>>

\* A replay that could not be run ends the search, and the error is all the
\* caller gets.
OracleError ==
    /\ pc \in {"chunks", "complements"} /\ ~Spent
    /\ attempts' = attempts + 1
    /\ pc' = "error"
    /\ UNCHANGED <<failing, limit, candidate, granularity, index, exhausted>>

Next == TryChunk \/ TryComplement \/ OracleError

Spec == Init /\ [][Next]_vars

-----------------------------------------------------------------------------

TypeOK ==
    /\ limit \in Limits
    /\ candidate \subseteq Positions
    /\ granularity \in Nat \ {0, 1}
    /\ pc \in {"chunks", "complements", "done", "error"}
    /\ index \in Nat \ {0}
    /\ attempts \in Nat
    /\ exhausted \in BOOLEAN

\* Whatever the search holds reproduces the failure: it can be stopped by its
\* budget at any question and the trace in hand is still a reproducer.
StillFails == KeysOf(candidate) \in failing

\* The budget is a ceiling on replays, and the report calls itself exhausted
\* only when the whole of it was spent (Search::fails_with).
BudgetHonest == attempts <= limit /\ (exhausted => attempts = limit)

OneMinimalAt(items) ==
    \A position \in items : KeysOf(items \ {position}) \notin failing

\* A finished search leaves no decision that could be dropped alone, as long
\* as the failure needs a decision at all or more than one is left.
OneMinimal ==
    pc = "done" /\ ~exhausted /\ (Cardinality(candidate) >= 2 \/ {} \notin failing)
        => OneMinimalAt(candidate)

\* A decision is given up only on the evidence of a replay that was paid for.
ReductionEarned ==
    [][candidate' # candidate =>
          /\ candidate' \subseteq candidate
          /\ attempts' = attempts + 1
          /\ KeysOf(candidate') \in failing]_vars

\* The search costs at most quadratically many replays (Search::ddmin).  With
\* 3 for 4 this fails from 33 decisions on: the last refinement cuts chunks of
\* one and two decisions alike.
QuadraticCost == attempts <= Len(Active) * Len(Active) + 4 * Len(Active)
=============================================================================
