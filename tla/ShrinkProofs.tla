---------------------------- MODULE ShrinkProofs ----------------------------
(***************************************************************************)
(* The shrinker's safety properties, for every trace, oracle and budget.   *)
(***************************************************************************)
EXTENDS Shrink, FiniteSetTheorems, FunctionTheorems, TLAPS

\* Every subset of the positions is finite.
LEMMA PositionsFinite ==
    ASSUME NEW items \in SUBSET Positions
    PROVE  IsFiniteSet(items) /\ Cardinality(items) \in Nat
<1>1. Len(Active) \in Nat
  BY ActiveAssumption
<1>2. IsFiniteSet(Positions)
  BY <1>1, FS_Interval DEF Positions
<1>3. QED
  BY <1>2, FS_Subset, FS_CardinalityType

\* A position's rank lies between one and the size of the candidate.
LEMMA RankRange ==
    ASSUME NEW items \in SUBSET Positions, NEW p \in items
    PROVE  Rank(items, p) \in 1..Cardinality(items)
<1> DEFINE below == {other \in items : other <= p}
<1>1. p \in Nat
  BY ActiveAssumption DEF Positions
<1>2. below \in SUBSET items /\ p \in below
  BY <1>1
<1>3. Cardinality(below) \in Nat /\ Cardinality(below) <= Cardinality(items)
  BY <1>2, PositionsFinite, FS_Subset
<1>4. Cardinality(below) # 0
  BY <1>2, PositionsFinite, FS_EmptySet
<1>5. QED
  BY <1>3, <1>4, PositionsFinite DEF Rank

\* A later position of the candidate has a higher rank.
LEMMA RankIncreases ==
    ASSUME NEW items \in SUBSET Positions, NEW p \in items, NEW q \in items, p < q
    PROVE  Rank(items, p) < Rank(items, q)
<1> DEFINE upTo(x) == {other \in items : other <= x}
<1>1. p \in Nat /\ q \in Nat /\ \A x \in items : x \in Nat
  BY ActiveAssumption DEF Positions
<1>2. upTo(p) \in SUBSET upTo(q)
  <2>1. \A x \in items : x <= p => x <= q
    BY <1>1
  <2>2. QED
    BY <2>1
<1>3. q \in upTo(q) /\ q \notin upTo(p)
  BY <1>1
<1>4. /\ IsFiniteSet(upTo(q)) /\ Cardinality(upTo(q)) \in Nat
      /\ Cardinality(upTo(p)) \in Nat
  BY PositionsFinite
<1> HIDE DEF upTo
<1>5. Cardinality(upTo(p)) <= Cardinality(upTo(q))
  BY <1>2, <1>4, FS_Subset
<1>6. Cardinality(upTo(p)) # Cardinality(upTo(q))
  BY <1>2, <1>3, <1>4, FS_Subset
<1>7. Cardinality(upTo(p)) < Cardinality(upTo(q))
  BY <1>4, <1>5, <1>6
<1>8. QED
  BY <1>7 DEF Rank, upTo

LEMMA RankIdentifies ==
    ASSUME NEW items \in SUBSET Positions, NEW p \in items, NEW q \in items,
           Rank(items, p) = Rank(items, q)
    PROVE  p = q
<1>1. p \in Nat /\ q \in Nat
  BY ActiveAssumption DEF Positions
<1>2. Rank(items, p) \in Nat /\ Rank(items, q) \in Nat
  BY RankRange, PositionsFinite
<1>3. CASE p < q
  BY <1>2, <1>3, RankIncreases
<1>4. CASE q < p
  BY <1>2, <1>4, RankIncreases
<1>5. QED
  BY <1>1, <1>3, <1>4

LEMMA RoundedUp ==
    ASSUME NEW n \in Nat \ {0}
    PROVE  DivCeil(n, n) = 1 /\ DivCeil(n, 1) = n
<1>1. (n + n - 1) \div n = 1
  OBVIOUS
<1>2. (n + 1 - 1) \div 1 = n
  OBVIOUS
<1>3. QED
  BY <1>1, <1>2 DEF DivCeil

\* Split as finely as it can be, the candidate falls into single decisions.
LEMMA FinestChunks ==
    ASSUME NEW items \in SUBSET Positions, NEW count \in Nat \ {0},
           Cardinality(items) >= 1, count >= Cardinality(items)
    PROVE  /\ Chunks(items, count) = Cardinality(items)
           /\ \A p \in items : Chunk(items, count, Rank(items, p)) = {p}
<1> DEFINE n == Cardinality(items)
<1>1. n \in Nat \ {0}
  BY PositionsFinite
<1>2. Count(items, count) = n
  BY <1>1 DEF Count, AtLeast, AtMost
<1>3. Size(items, count) = 1
  BY <1>1, <1>2, RoundedUp DEF Size
<1>4. Chunks(items, count) = n
  BY <1>1, <1>3, RoundedUp DEF Chunks
<1>5. ASSUME NEW p \in items
      PROVE  Chunk(items, count, Rank(items, p)) = {p}
  <2>1. \A q \in items : Rank(items, q) \in Nat
    BY RankRange, PositionsFinite
  <2>2. Chunk(items, count, Rank(items, p))
           = {q \in items : Rank(items, p) - 1 < Rank(items, q)
                            /\ Rank(items, q) <= Rank(items, p)}
    BY <1>3, <2>1 DEF Chunk
  <2>3. \A q \in items : Rank(items, p) - 1 < Rank(items, q)
                         /\ Rank(items, q) <= Rank(items, p) => q = p
    BY <2>1, RankIdentifies
  <2>4. QED
    BY <2>1, <2>2, <2>3
<1>6. QED
  BY <1>4, <1>5

-----------------------------------------------------------------------------

\* A loop of ddmin is entered with two decisions or more.
LoopsHaveWork == pc \in {"chunks", "complements"} => Cardinality(candidate) >= 2

\* The chunks before index were each found to be needed.
TriedAreNeeded ==
    pc = "complements" /\ ~exhausted
        => \A i \in 1..index-1 :
               KeysOf(Complement(candidate, granularity, i)) \notin failing

IInv ==
    /\ TypeOK
    /\ StillFails
    /\ BudgetHonest
    /\ LoopsHaveWork
    /\ TriedAreNeeded
    /\ OneMinimal

\* With at most one decision left, 1-minimal is what failing without any says.
LEMMA SmallIsMinimal ==
    ASSUME NEW items \in SUBSET Positions, ~(Cardinality(items) >= 2),
           {} \notin failing
    PROVE  OneMinimalAt(items)
<1> SUFFICES ASSUME NEW p \in items
             PROVE  KeysOf(items \ {p}) \notin failing
  BY DEF OneMinimalAt
<1>1. IsFiniteSet(items) /\ Cardinality(items) \in Nat /\ Cardinality(items) # 0
  BY PositionsFinite, FS_EmptySet
<1>2. Cardinality(items) = 1
  BY <1>1
<1>3. items \ {p} = {}
  BY <1>1, <1>2, FS_Singleton
<1>4. QED
  BY <1>3 DEF KeysOf

LEMMA InitInv == Init => IInv
<1> SUFFICES ASSUME Init PROVE IInv
  OBVIOUS
<1>1. TypeOK
  <2>1. /\ candidate \subseteq Positions /\ limit \in Limits
        /\ granularity \in Nat \ {0, 1} /\ index \in Nat \ {0}
        /\ attempts \in Nat
    BY DEF Init
  <2>2. pc \in {"chunks", "complements", "done", "error"}
    BY DEF Init
  <2>3. exhausted \in BOOLEAN
    BY Zenon DEF Init
  <2>4. QED
    BY <2>1, <2>2, <2>3 DEF TypeOK
<1>2. StillFails
  BY DEF Init, StillFails
<1>3. BudgetHonest
  BY LimitsAssumption DEF Init, BudgetHonest
<1>4. LoopsHaveWork
  BY DEF Init, LoopsHaveWork, GoesOn
<1>5. TriedAreNeeded
  BY DEF Init, TriedAreNeeded
<1>6. OneMinimal
  BY SmallIsMinimal, PositionsFinite DEF Init, OneMinimal, GoesOn
<1>7. QED
  BY <1>1, <1>2, <1>3, <1>4, <1>5, <1>6 DEF IInv

-----------------------------------------------------------------------------

\* A question keeps the books of the budget.
LEMMA ChargeKept ==
    ASSUME TypeOK, BudgetHonest, Charge, limit' = limit
    PROVE  /\ attempts' \in Nat /\ exhausted' \in BOOLEAN
           /\ BudgetHonest'
           /\ ~exhausted' => ~Spent /\ ~exhausted
<1>1. attempts \in Nat /\ limit \in Nat
  BY LimitsAssumption DEF TypeOK
<1>2. CASE Spent
  <2>1. attempts' = attempts /\ exhausted'
    BY <1>2 DEF Charge
  <2>2. exhausted' \in BOOLEAN
    BY <1>2 DEF Charge
  <2>3. BudgetHonest'
    BY <1>1, <1>2, <2>1 DEF BudgetHonest, Spent
  <2>4. QED
    BY <1>1, <2>1, <2>2, <2>3
<1>3. CASE ~Spent
  <2>1. attempts' = attempts + 1 /\ exhausted' = exhausted
    <3>1. attempts' = attempts + 1
      BY <1>3 DEF Charge
    <3>2. exhausted \in BOOLEAN /\ exhausted' = (exhausted \/ Spent)
      BY DEF TypeOK, Charge
    <3>3. exhausted' = exhausted
      BY <1>3, <3>2
    <3>4. QED
      BY <3>1, <3>3
  <2>2. ~exhausted
    BY <1>1, <1>3 DEF BudgetHonest, Spent
  <2>3. exhausted' \in BOOLEAN
    BY <2>1, Zenon DEF TypeOK
  <2>4. BudgetHonest'
    BY <1>1, <1>3, <2>1, <2>2 DEF BudgetHonest, Spent
  <2>5. QED
    BY <1>1, <1>3, <2>1, <2>2, <2>3, <2>4
<1>4. QED
  BY <1>2, <1>3

\* A question that was refused for want of budget never says "it fails".
LEMMA FailsMeansFailing ==
    ASSUME NEW items, Fails(items)
    PROVE  KeysOf(items) \in failing /\ ~Spent
BY DEF Fails

\* Another round over items that fail: the tried chunks start afresh.
LEMMA RoundInv ==
    ASSUME TypeOK, BudgetHonest, Charge, UNCHANGED <<failing, limit>>,
           NEW items \in SUBSET Positions, KeysOf(items) \in failing,
           NEW count \in Nat \ {0, 1}, Round(items, count)
    PROVE  IInv'
<1>1. /\ attempts' \in Nat /\ exhausted' \in BOOLEAN
      /\ BudgetHonest'
  BY ChargeKept
<1>2. /\ candidate' = items /\ granularity' = count /\ index' = 1
      /\ pc' = IF GoesOn(items, exhausted') THEN "chunks" ELSE "done"
  BY DEF Round
<1>3. pc' \in {"chunks", "done"}
  BY <1>2
<1>4. pc' = "chunks" => Cardinality(items) >= 2
  BY <1>2 DEF GoesOn
<1>5. pc' = "done" /\ ~exhausted' => ~(Cardinality(items) >= 2)
  BY <1>2 DEF GoesOn
<1>6. TypeOK'
  BY <1>1, <1>2, <1>3 DEF TypeOK
<1>7. StillFails'
  BY <1>2 DEF StillFails, KeysOf
<1>8. LoopsHaveWork'
  BY <1>2, <1>3, <1>4 DEF LoopsHaveWork
<1>9. TriedAreNeeded'
  BY <1>3 DEF TriedAreNeeded
<1>10. OneMinimal'
  <2>1. {} \notin failing /\ ~(Cardinality(items) >= 2) => OneMinimalAt(items)
    BY SmallIsMinimal
  <2>2. OneMinimalAt(items) => OneMinimalAt(candidate)'
    BY <1>2 DEF OneMinimalAt, KeysOf
  <2>3. QED
    BY <1>2, <1>5, <2>1, <2>2 DEF OneMinimal
<1>11. QED
  BY <1>1, <1>6, <1>7, <1>8, <1>9, <1>10 DEF IInv

\* When every single decision was found to be needed, the candidate is minimal.
LEMMA AllNeeded ==
    ASSUME TypeOK, LoopsHaveWork, pc = "complements",
           granularity >= Cardinality(candidate),
           \A i \in 1..Chunks(candidate, granularity) :
               KeysOf(Complement(candidate, granularity, i)) \notin failing
    PROVE  OneMinimalAt(candidate)
<1>1. candidate \in SUBSET Positions /\ granularity \in Nat \ {0}
  BY DEF TypeOK
<1>2. Cardinality(candidate) >= 1
  BY <1>1, PositionsFinite DEF LoopsHaveWork
<1>3. SUFFICES ASSUME NEW p \in candidate
               PROVE  KeysOf(candidate \ {p}) \notin failing
  BY DEF OneMinimalAt
<1>4. /\ Chunks(candidate, granularity) = Cardinality(candidate)
      /\ Chunk(candidate, granularity, Rank(candidate, p)) = {p}
  BY <1>1, <1>2, FinestChunks
<1>5. Rank(candidate, p) \in 1..Chunks(candidate, granularity)
  BY <1>1, <1>4, RankRange
<1>6. Complement(candidate, granularity, Rank(candidate, p)) = candidate \ {p}
  BY <1>4 DEF Complement
<1>7. QED
  BY <1>5, <1>6

\* A question answered "no" leaves the candidate and everything about it.
LEMMA AnsweredNo ==
    ASSUME IInv, Charge, UNCHANGED <<failing, limit, candidate, granularity>>,
           pc \in {"chunks", "complements"},
           pc' \in {"chunks", "complements", "done"},
           index' \in Nat \ {0}, TriedAreNeeded', OneMinimal'
    PROVE  IInv'
<1>1. /\ attempts' \in Nat /\ exhausted' \in BOOLEAN
      /\ BudgetHonest'
  BY ChargeKept DEF IInv
<1>2. TypeOK'
  BY <1>1 DEF IInv, TypeOK
<1>3. StillFails'
  BY DEF IInv, StillFails, KeysOf
<1>4. LoopsHaveWork'
  BY DEF IInv, LoopsHaveWork
<1>5. QED
  BY <1>1, <1>2, <1>3, <1>4 DEF IInv

LEMMA ChunkInPositions ==
    ASSUME NEW items \in SUBSET Positions, NEW count, NEW i
    PROVE  /\ Chunk(items, count, i) \in SUBSET items
           /\ Complement(items, count, i) \in SUBSET items
BY DEF Chunk, Complement

LEMMA TryChunkInv == IInv /\ TryChunk => IInv'
<1> SUFFICES ASSUME IInv, TryChunk PROVE IInv'
  OBVIOUS
<1> DEFINE chunk == Chunk(candidate, granularity, index)
<1>1. TypeOK /\ BudgetHonest /\ LoopsHaveWork
  BY DEF IInv
<1>2. pc = "chunks" /\ Charge /\ UNCHANGED <<failing, limit>>
  BY DEF TryChunk
<1>3. chunk \in SUBSET Positions
  BY <1>1, ChunkInPositions DEF TypeOK
<1>4. CASE Fails(chunk) /\ Round(chunk, 2)
  <2>1. KeysOf(chunk) \in failing
    BY <1>4, FailsMeansFailing
  <2>2. QED
    BY <1>1, <1>2, <1>3, <1>4, <2>1, RoundInv
<1>5. CASE index' = index + 1 /\ UNCHANGED <<candidate, granularity, pc>>
  <2>1. index' \in Nat \ {0}
    BY <1>1, <1>5 DEF TypeOK
  <2>2. TriedAreNeeded' /\ OneMinimal'
    BY <1>2, <1>5 DEF TriedAreNeeded, OneMinimal
  <2>3. QED
    BY <1>2, <1>5, <2>1, <2>2, AnsweredNo
<1>6. CASE /\ pc' = "complements" /\ index' = 1
           /\ UNCHANGED <<candidate, granularity>>
  <2>1. TriedAreNeeded' /\ OneMinimal'
    BY <1>6 DEF TriedAreNeeded, OneMinimal
  <2>2. QED
    BY <1>2, <1>6, <2>1, AnsweredNo
<1>7. QED
  BY <1>4, <1>5, <1>6 DEF TryChunk

\* The chunk just asked about joins those found to be needed.
LEMMA OneMoreNeeded ==
    ASSUME IInv, pc = "complements", Charge, limit' = limit, ~exhausted',
           ~Fails(Complement(candidate, granularity, index))
    PROVE  \A i \in 1..index :
               KeysOf(Complement(candidate, granularity, i)) \notin failing
<1>1. ~Spent /\ ~exhausted
  BY ChargeKept DEF IInv
<1>2. KeysOf(Complement(candidate, granularity, index)) \notin failing
  BY <1>1 DEF Fails
<1>3. \A i \in 1..index-1 :
          KeysOf(Complement(candidate, granularity, i)) \notin failing
  BY <1>1 DEF IInv, TriedAreNeeded
<1>4. index \in Nat \ {0}
  BY DEF IInv, TypeOK
<1>5. \A i \in 1..index : i = index \/ i \in 1..index-1
  BY <1>4
<1>6. QED
  BY <1>2, <1>3, <1>5

LEMMA TryComplementInv == IInv /\ TryComplement => IInv'
<1> SUFFICES ASSUME IInv, TryComplement PROVE IInv'
  OBVIOUS
<1> DEFINE rest == Complement(candidate, granularity, index)
           finer == AtMost(Cardinality(candidate), granularity * 2)
<1>1. TypeOK /\ StillFails /\ BudgetHonest /\ LoopsHaveWork
  BY DEF IInv
<1>2. pc = "complements" /\ Charge /\ UNCHANGED <<failing, limit>>
  BY DEF TryComplement
<1>3. candidate \in SUBSET Positions /\ granularity \in Nat \ {0, 1}
      /\ index \in Nat \ {0}
  BY <1>1 DEF TypeOK
<1>4. Cardinality(candidate) \in Nat \ {0, 1}
  BY <1>1, <1>2, <1>3, PositionsFinite DEF LoopsHaveWork
<1>5. CASE Fails(rest) /\ Round(rest, AtLeast(2, granularity - 1))
  <2>1. rest \in SUBSET Positions
    BY <1>3, ChunkInPositions
  <2>2. KeysOf(rest) \in failing
    BY <1>5, FailsMeansFailing
  <2>3. AtLeast(2, granularity - 1) \in Nat \ {0, 1}
    BY <1>3 DEF AtLeast
  <2>4. QED
    BY <1>1, <1>2, <1>5, <2>1, <2>2, <2>3, RoundInv
<1>6. CASE /\ ~Fails(rest) /\ index' = index + 1
           /\ UNCHANGED <<candidate, granularity, pc>>
  <2>1. TriedAreNeeded'
    <3>1. SUFFICES ASSUME ~exhausted', NEW i \in 1..index
                   PROVE  KeysOf(Complement(candidate, granularity, i)) \notin failing
      BY <1>2, <1>3, <1>6 DEF TriedAreNeeded
    <3>2. QED
      BY <1>2, <1>6, <3>1, OneMoreNeeded
  <2>2. OneMinimal'
    BY <1>2, <1>6 DEF OneMinimal
  <2>3. index' \in Nat \ {0}
    BY <1>3, <1>6
  <2>4. QED
    BY <1>2, <1>6, <2>1, <2>2, <2>3, AnsweredNo
<1>7. CASE /\ ~Fails(rest) /\ index = Chunks(candidate, granularity)
           /\ granularity >= Cardinality(candidate)
           /\ pc' = "done"
           /\ UNCHANGED <<candidate, granularity, index>>
  <2>1. ~exhausted' => OneMinimalAt(candidate)
    BY <1>1, <1>2, <1>7, OneMoreNeeded, AllNeeded
  <2>2. OneMinimal'
    BY <1>2, <1>7, <2>1 DEF OneMinimal, OneMinimalAt, KeysOf
  <2>3. TriedAreNeeded'
    BY <1>7 DEF TriedAreNeeded
  <2>4. QED
    BY <1>2, <1>3, <1>7, <2>2, <2>3, AnsweredNo
<1>8. CASE granularity < Cardinality(candidate) /\ Round(candidate, finer)
  <2>1. finer \in Nat \ {0, 1}
    BY <1>3, <1>4 DEF AtMost
  <2>2. QED
    BY <1>1, <1>2, <1>3, <1>8, <2>1, RoundInv DEF StillFails
<1>9. QED
  BY <1>5, <1>6, <1>7, <1>8 DEF TryComplement, Refine

LEMMA OracleErrorInv == IInv /\ OracleError => IInv'
<1> SUFFICES ASSUME IInv, OracleError PROVE IInv'
  OBVIOUS
<1>1. /\ ~Spent /\ attempts' = attempts + 1 /\ pc' = "error"
      /\ UNCHANGED <<failing, limit, candidate, granularity, index, exhausted>>
  BY DEF OracleError
<1>2. attempts \in Nat /\ limit \in Nat
  BY LimitsAssumption DEF IInv, TypeOK
<1>3. TypeOK'
  BY <1>1, <1>2 DEF IInv, TypeOK
<1>4. StillFails'
  BY <1>1 DEF IInv, StillFails, KeysOf
<1>5. BudgetHonest'
  BY <1>1, <1>2 DEF IInv, BudgetHonest, Spent
<1>6. LoopsHaveWork' /\ TriedAreNeeded' /\ OneMinimal'
  BY <1>1 DEF LoopsHaveWork, TriedAreNeeded, OneMinimal
<1>7. QED
  BY <1>3, <1>4, <1>5, <1>6 DEF IInv

LEMMA StepInv == IInv /\ [Next]_vars => IInv'
<1>1. IInv /\ UNCHANGED vars => IInv'
  <2>1. TypeOK /\ UNCHANGED vars => TypeOK'
    BY DEF vars, TypeOK
  <2>2. StillFails /\ BudgetHonest /\ LoopsHaveWork /\ UNCHANGED vars
           => StillFails' /\ BudgetHonest' /\ LoopsHaveWork'
    BY DEF vars, StillFails, BudgetHonest, LoopsHaveWork
  <2>3. TriedAreNeeded /\ UNCHANGED vars => TriedAreNeeded'
    BY DEF vars, TriedAreNeeded
  <2>4. OneMinimal /\ UNCHANGED vars => OneMinimal'
    BY DEF vars, OneMinimal, OneMinimalAt
  <2>5. QED
    BY <2>1, <2>2, <2>3, <2>4 DEF IInv
<1>2. QED
  BY <1>1, TryChunkInv, TryComplementInv, OracleErrorInv DEF Next

LEMMA Invariant == Spec => []IInv
<1>1. QED
  BY InitInv, StepInv, PTL DEF Spec

\* The search stays within its types: in particular the granularity it halves
\* the candidate by never falls below two (Search::ddmin).
THEOREM TypeCorrect == Spec => []TypeOK
<1>1. IInv => TypeOK
  BY DEF IInv
<1>2. QED
  BY <1>1, Invariant, PTL

\* Whenever the search stops, and for whatever reason, the trace it holds is a
\* reproducer (Search::fails_with, ddmin's candidate).
THEOREM AlwaysReproduces == Spec => []StillFails
<1>1. IInv => StillFails
  BY DEF IInv
<1>2. QED
  BY <1>1, Invariant, PTL

\* No more replays than the budget, and "exhausted" only when all were used
\* (Search::fails_with).
THEOREM BudgetKept == Spec => []BudgetHonest
<1>1. IInv => BudgetHonest
  BY DEF IInv
<1>2. QED
  BY <1>1, Invariant, PTL

\* A search that ends within its budget leaves a 1-minimal set of decisions,
\* for every oracle, monotone or not (shrink, ddmin).
THEOREM EndsOneMinimal == Spec => []OneMinimal
<1>1. IInv => OneMinimal
  BY DEF IInv
<1>2. QED
  BY <1>1, Invariant, PTL

\* Every decision given up was given up on a replay that failed again and was
\* counted against the budget (ddmin).
THEOREM ReductionsEarned == Spec => ReductionEarned
<1> DEFINE Earned == candidate' # candidate =>
                        /\ candidate' \subseteq candidate
                        /\ attempts' = attempts + 1
                        /\ KeysOf(candidate') \in failing
<1>1. ASSUME IInv, TryChunk, candidate' # candidate PROVE Earned
  <2> DEFINE chunk == Chunk(candidate, granularity, index)
  <2>1. Fails(chunk) /\ Round(chunk, 2) /\ Charge
    BY <1>1 DEF TryChunk
  <2>2. chunk \in SUBSET candidate
    BY ChunkInPositions, <1>1 DEF IInv, TypeOK
  <2>3. QED
    BY <2>1, <2>2 DEF Fails, Round, Charge
<1>2. ASSUME IInv, TryComplement, candidate' # candidate PROVE Earned
  <2> DEFINE rest == Complement(candidate, granularity, index)
  <2>1. Fails(rest) /\ Round(rest, AtLeast(2, granularity - 1)) /\ Charge
    BY <1>2 DEF TryComplement, Refine, Round
  <2>2. rest \in SUBSET candidate
    BY ChunkInPositions, <1>2 DEF IInv, TypeOK
  <2>3. QED
    BY <2>1, <2>2 DEF Fails, Round, Charge
<1>3. IInv /\ [Next]_vars => [Earned]_vars
  BY <1>1, <1>2 DEF Next, OracleError, vars
<1>4. QED
  BY <1>3, Invariant, PTL DEF Spec, ReductionEarned

-----------------------------------------------------------------------------
\* What a search costs.

\* What may still be asked from the head of a round on: by the rounds at the
\* finest granularity, of which each may lose a decision, and by the rounds that
\* get there, the last of which may double in less than one doubling.
StillToAsk(n, count) == n * n + 3 * n - 2 * count + (IF count < n THEN n + 1 ELSE 0)
Most == Len(Active) * Len(Active) + 4 * Len(Active)

\* In a loop, the candidate can be cut into as many chunks as it is to be, and
\* the replays of this round and of those to come are not yet paid for.
WithinCost ==
    LET n == Cardinality(candidate)
        chunks == Chunks(candidate, granularity)
        before == index - 1 + (IF pc = "complements" THEN chunks ELSE 0)
    IN  pc \in {"chunks", "complements"} =>
            /\ granularity <= n /\ index <= chunks
            /\ attempts + StillToAsk(n, granularity) <= Most + before

CostInv == QuadraticCost /\ WithinCost

LEMMA RoundingUp ==
    ASSUME NEW n \in Nat, NEW by \in Nat \ {0}
    PROVE  /\ DivCeil(n, by) \in Nat
           /\ n <= DivCeil(n, by) * by /\ DivCeil(n, by) * by < n + by
<1> DEFINE sum == n + by - 1
           quotient == sum \div by
<1>1. sum \in Nat
  OBVIOUS
<1>2. quotient \in Nat /\ sum = quotient * by + (sum % by) /\ sum % by \in 0 .. by - 1
  BY <1>1
<1>3. DivCeil(n, by) = quotient
  BY DEF DivCeil
<1> HIDE DEF quotient
<1>4. quotient * by \in Nat
  BY <1>2
<1>5. QED
  BY <1>2, <1>3, <1>4

LEMMA Products ==
    ASSUME NEW a \in Nat, NEW b \in Nat, NEW c \in Nat, a <= b
    PROVE  a * c <= b * c /\ c * a <= c * b /\ a * a <= b * b
<1>1. PICK d \in Nat : b = a + d
  <2>1. b - a \in Nat /\ b = a + (b - a)
    OBVIOUS
  <2>2. QED
    BY <2>1
<1>2. b * c = a * c + d * c /\ c * b = c * a + c * d
      /\ b * b = a * a + 2 * (a * d) + d * d
  BY <1>1
<1>3. d * c \in Nat /\ c * d \in Nat /\ a * d \in Nat /\ d * d \in Nat
      /\ a * c \in Nat /\ c * a \in Nat /\ a * a \in Nat
  BY <1>1
<1>4. QED
  BY <1>2, <1>3

\* How many decisions a chunk of n has, and how many chunks there are.
SplitWell(n, count, size, chunks) ==
    /\ size \in Nat \ {0} /\ chunks \in Nat \ {0}
    /\ size + count <= n + 1 /\ chunks <= count /\ n <= chunks * size
    /\ (chunks - 1) * size < n
    /\ count = n => size = 1 /\ chunks = n
    /\ count < n => 2 * chunks <= n + 1

LEMMA Parts ==
    ASSUME NEW n \in Nat, NEW count \in Nat, 2 <= count, count <= n,
           NEW size, size = DivCeil(n, count), NEW chunks, chunks = DivCeil(n, size)
    PROVE  SplitWell(n, count, size, chunks)
<1>1. size \in Nat /\ n <= size * count /\ size * count < n + count
  BY RoundingUp
<1>2. size # 0
  BY <1>1
<1>3. chunks \in Nat /\ n <= chunks * size /\ chunks * size < n + size
  BY <1>1, <1>2, RoundingUp
<1>4. chunks # 0
  BY <1>2, <1>3
<1>5. (chunks - 1) * size = chunks * size - size
  BY <1>1, <1>3
<1>6. chunks * size \in Nat
  BY <1>1, <1>3
<1>7. (chunks - 1) * size < n
  BY <1>1, <1>3, <1>5, <1>6
<1>8. size + count <= n + 1
  <2>1. SUFFICES ASSUME size + count >= n + 2 PROVE FALSE
    BY <1>1
  <2>2. PICK s \in Nat : size = s + 1
    <3>1. size - 1 \in Nat /\ size = (size - 1) + 1
      BY <1>1, <1>2
    <3>2. QED
      BY <3>1
  <2>3. PICK c \in Nat : count = c + 1
    <3>1. count - 1 \in Nat /\ count = (count - 1) + 1
      OBVIOUS
    <3>2. QED
      BY <3>1
  <2>4. size * count = s * c + s + c + 1
    BY <2>2, <2>3
  <2>5. s * c \in Nat
    BY <2>2, <2>3
  <2>6. s * c + s + c + 1 < n + c + 1 /\ s + c >= n
    BY <1>1, <2>1, <2>2, <2>3, <2>4, <2>5
  <2>7. s * c < n - s
    BY <2>2, <2>3, <2>5, <2>6
  <2>8. n - s <= c
    BY <2>2, <2>3, <2>6
  <2>9. s * c < c
    BY <2>2, <2>3, <2>5, <2>7, <2>8
  <2>10. s = 0
    <3>1. s >= 1 => s * c >= 1 * c
      BY <2>2, <2>3, Products
    <3>2. QED
      BY <2>2, <2>3, <2>5, <2>9, <3>1
  <2>11. QED
    BY <2>2, <2>3, <2>6, <2>10
<1>9. chunks <= count
  <2>1. SUFFICES ASSUME count <= chunks - 1 PROVE FALSE
    BY <1>3
  <2>2. count * size <= (chunks - 1) * size
    BY <1>1, <1>3, <1>4, <2>1, Products
  <2>3. count * size = size * count /\ size * count \in Nat
    BY <1>1
  <2>4. QED
    BY <1>1, <1>5, <1>6, <1>7, <2>2, <2>3
<1>10. count = n => size = 1 /\ chunks = n
  BY <1>2, <1>1, <1>8, RoundedUp
<1>11. ASSUME count < n PROVE 2 * chunks <= n + 1
  <2>1. size # 1
    BY <1>1, <1>11
  <2>2. chunks * 2 <= chunks * size
    BY <1>1, <1>2, <1>3, <2>1, Products
  <2>3. (chunks - 1) * 2 <= (chunks - 1) * size
    BY <1>1, <1>2, <1>3, <1>4, <2>1, Products
  <2>4. QED
    BY <1>1, <1>3, <1>5, <1>6, <1>7, <2>3
<1>12. QED
  BY <1>1, <1>2, <1>3, <1>4, <1>7, <1>8, <1>9, <1>10, <1>11 DEF SplitWell

\* Each number up to the candidate's size is the rank of one of its positions.
LEMMA RankReaches ==
    ASSUME NEW items \in SUBSET Positions, NEW r \in 1 .. Cardinality(items)
    PROVE  \E p \in items : Rank(items, p) = r
<1> DEFINE n == Cardinality(items)
           rank == [p \in items |-> Rank(items, p)]
<1>1. IsFiniteSet(items) /\ n \in Nat
  BY PositionsFinite
<1>2. IsFiniteSet(1 .. n) /\ Cardinality(1 .. n) = n
  BY <1>1, FS_Interval
<1>3. rank \in [items -> 1 .. n]
  BY RankRange
<1>4. \A p, q \in items : rank[p] = rank[q] => p = q
  BY RankIdentifies
<1> HIDE DEF rank
<1>5. rank \in Injection(items, 1 .. n)
  BY <1>3, <1>4, Fun_IsInj
<1>6. rank \in Surjection(items, 1 .. n)
  BY <1>2, <1>5, FS_Injection
<1>7. \E p \in items : rank[p] = r
  <2>1. \A t \in 1 .. n : \E p \in items : rank[p] = t
    BY <1>6, Fun_SurjectionProperties
  <2>2. QED
    BY <2>1
<1>8. QED
  BY <1>7 DEF rank

\* A chunk has one decision at least and as many as the chunks' size at most.
LEMMA ChunkSize ==
    ASSUME NEW items \in SUBSET Positions, NEW count \in Nat,
           2 <= count, count <= Cardinality(items), NEW i \in 1 .. Chunks(items, count)
    PROVE  /\ IsFiniteSet(Chunk(items, count, i))
           /\ Cardinality(Chunk(items, count, i)) \in 1 .. Size(items, count)
           /\ Cardinality(Complement(items, count, i))
                = Cardinality(items) - Cardinality(Chunk(items, count, i))
<1> DEFINE n == Cardinality(items)
           size == Size(items, count)
           chunk == Chunk(items, count, i)
           low == (i - 1) * size
<1>1. IsFiniteSet(items) /\ n \in Nat
  BY PositionsFinite
<1>2. Count(items, count) = count
  BY <1>1 DEF Count, AtLeast, AtMost
<1>3. /\ size \in Nat \ {0} /\ Chunks(items, count) \in Nat \ {0}
      /\ (Chunks(items, count) - 1) * size < n
  BY <1>1, <1>2, Parts DEF Size, Chunks, SplitWell
<1>4. i \in Nat \ {0} /\ i - 1 \in Nat /\ i <= Chunks(items, count)
  BY <1>3
<1>5. low \in Nat /\ low < n
  <2>1. low <= (Chunks(items, count) - 1) * size /\ low \in Nat
        /\ (Chunks(items, count) - 1) * size \in Nat
    BY <1>3, <1>4, Products
  <2>2. QED
    BY <1>1, <1>3, <2>1
<1>6. i * size = low + size
  BY <1>3, <1>4
<1>7. chunk \in SUBSET items /\ IsFiniteSet(chunk) /\ Cardinality(chunk) \in Nat
  BY ChunkInPositions, PositionsFinite
<1>8. \A p \in items : Rank(items, p) \in Nat
  BY RankRange, <1>1
<1>9. \A p \in items : p \in chunk <=> low < Rank(items, p) /\ Rank(items, p) <= low + size
  BY <1>6 DEF Chunk
<1> HIDE DEF chunk, low, size, n
<1>10. Cardinality(chunk) # 0
  <2>1. PICK p \in items : Rank(items, p) = low + 1
    BY <1>1, <1>5, RankReaches DEF n
  <2>2. p \in chunk
    BY <1>3, <1>5, <1>9, <2>1
  <2>3. QED
    BY <1>7, <2>2, FS_EmptySet
<1>11. Cardinality(chunk) <= size
  <2> DEFINE rank == [p \in chunk |-> Rank(items, p) - low]
  <2>1. IsFiniteSet(1 .. size) /\ Cardinality(1 .. size) = size
    BY <1>3, FS_Interval
  <2>2. rank \in [chunk -> 1 .. size]
    BY <1>3, <1>5, <1>7, <1>8, <1>9
  <2>3. \A p, q \in chunk : rank[p] = rank[q] => p = q
    <3>1. SUFFICES ASSUME NEW p \in chunk, NEW q \in chunk, rank[p] = rank[q] PROVE p = q
      OBVIOUS
    <3>2. Rank(items, p) = Rank(items, q)
      BY <1>5, <1>7, <1>8, <3>1
    <3>3. QED
      BY <1>7, <3>2, RankIdentifies
  <2> HIDE DEF rank
  <2>4. rank \in Injection(chunk, 1 .. size)
    BY <2>2, <2>3, Fun_IsInj
  <2>5. QED
    BY <2>1, <2>4, FS_Injection
<1>12. Cardinality(chunk) \in 1 .. size
  BY <1>3, <1>7, <1>10, <1>11
<1>13. Cardinality(items \ chunk) = n - Cardinality(chunk)
  <2>1. items \cap chunk = chunk
    BY <1>7
  <2>2. QED
    BY <1>1, <2>1, FS_Difference DEF n
<1>14. QED
  BY <1>7, <1>12, <1>13 DEF chunk, size, n, Complement

\* The next question is paid for, and so is any round that may follow.
LEMMA RoundPaid ==
    ASSUME NEW n \in Nat, NEW count \in Nat, 2 <= count, count <= n,
           NEW size, size = DivCeil(n, count), NEW chunks, chunks = DivCeil(n, size)
    PROVE  /\ StillToAsk(n, count) \in Nat /\ 2 * chunks <= StillToAsk(n, count)
           /\ count < n => StillToAsk(n, AtMost(n, count * 2)) + 2 * chunks <= StillToAsk(n, count)
           /\ \A m \in 2 .. size :
                  StillToAsk(m, 2) + chunks <= StillToAsk(n, count)
           /\ \A m \in 2 .. n - 1 :
                  /\ n - size <= m
                  => /\ AtLeast(2, count - 1) <= m
                     /\ StillToAsk(m, AtLeast(2, count - 1)) + 2 * chunks <= StillToAsk(n, count)
<1>1. /\ size \in Nat \ {0} /\ chunks \in Nat \ {0}
      /\ size + count <= n + 1 /\ chunks <= count
      /\ count = n => size = 1 /\ chunks = n
      /\ count < n => 2 * chunks <= n + 1
  <2>1. SplitWell(n, count, size, chunks)
    BY Parts
  <2>2. QED
    BY <2>1 DEF SplitWell
<1>2. n * n \in Nat /\ 2 * n <= n * n
  BY Products
<1>3. StillToAsk(n, count) \in Nat /\ 2 * count <= StillToAsk(n, count)
  BY <1>2 DEF StillToAsk
<1>4. 2 * chunks <= StillToAsk(n, count)
  BY <1>1, <1>3
<1>5. ASSUME count < n
      PROVE  StillToAsk(n, AtMost(n, count * 2)) + 2 * chunks <= StillToAsk(n, count)
  <2>1. CASE count * 2 >= n
    BY <1>1, <1>2, <1>5, <2>1 DEF StillToAsk, AtMost
  <2>2. CASE count * 2 < n
    BY <1>1, <1>2, <1>5, <2>2 DEF StillToAsk, AtMost
  <2>3. QED
    BY <2>1, <2>2
<1>6. ASSUME NEW m \in 2 .. size
      PROVE  StillToAsk(m, 2) + chunks <= StillToAsk(n, count)
  <2>1. count < n
    BY <1>1, <1>6
  <2>2. PICK d \in Nat : n = m + d /\ count <= d + 1
    <3>1. n - m \in Nat /\ n = m + (n - m) /\ count <= (n - m) + 1
      BY <1>1
    <3>2. QED
      BY <3>1
  <2>3. n * n = m * m + 2 * (m * d) + d * d
    BY <2>2
  <2>4. m * m \in Nat /\ d * d \in Nat /\ m * d \in Nat /\ 2 * d <= m * d
    BY <2>2, Products
  <2>5. StillToAsk(m, 2) <= m * m + 4 * m - 3
    BY <2>4 DEF StillToAsk
  <2>6. StillToAsk(n, count) = n * n + 4 * n + 1 - 2 * count
    BY <1>2, <2>1 DEF StillToAsk
  <2>7. StillToAsk(m, 2) \in Int
    BY <2>4 DEF StillToAsk
  <2>8. QED
    BY <1>1, <2>2, <2>3, <2>4, <2>5, <2>6, <2>7
<1>7. ASSUME NEW m \in 2 .. n - 1, n - size <= m
      PROVE  /\ AtLeast(2, count - 1) <= m
             /\ StillToAsk(m, AtLeast(2, count - 1)) + 2 * chunks <= StillToAsk(n, count)
  <2> DEFINE fewer == AtLeast(2, count - 1)
  <2>1. fewer \in Nat /\ fewer <= m /\ count - 1 <= fewer
    BY <1>1, <1>7 DEF AtLeast
  <2> HIDE DEF fewer
  <2>2. (n - 1) * (n - 1) = n * n - 2 * n + 1
    BY <1>2
  <2>3. m * m \in Nat /\ m * m <= (n - 1) * (n - 1)
    BY <1>2, Products
  <2>4. CASE count = n
    <3>1. m = n - 1 /\ chunks = n
      BY <1>1, <1>7, <2>4
    <3>2. fewer = m
      BY <2>1, <2>4, <3>1
    <3>3. QED
      BY <1>2, <2>1, <2>2, <2>4, <3>1, <3>2 DEF StillToAsk, fewer
  <2>5. CASE count < n
    <3>1. StillToAsk(n, count) = n * n + 4 * n + 1 - 2 * count
      BY <1>2, <2>5 DEF StillToAsk
    <3>2. StillToAsk(m, fewer) \in Int /\ StillToAsk(m, fewer) <= m * m + 4 * m + 1 - 2 * fewer
      BY <2>1, <2>3 DEF StillToAsk
    <3>3. QED
      BY <1>1, <1>2, <2>1, <2>2, <2>3, <2>5, <3>1, <3>2 DEF fewer
  <2>6. QED
    BY <2>4, <2>5
<1>8. QED
  BY <1>3, <1>4, <1>5, <1>6, <1>7

\* What the arithmetic is about while a loop asks.
LEMMA RoundIs ==
    ASSUME TypeOK, LoopsHaveWork, WithinCost, pc \in {"chunks", "complements"}
    PROVE  /\ Cardinality(candidate) \in Nat /\ 2 <= granularity
           /\ granularity \in Nat /\ granularity <= Cardinality(candidate)
           /\ Size(candidate, granularity) = DivCeil(Cardinality(candidate), granularity)
           /\ Chunks(candidate, granularity) \in Nat
           /\ index \in 1 .. Chunks(candidate, granularity)
           /\ attempts \in Nat /\ Most \in Nat
           /\ StillToAsk(Cardinality(candidate), granularity) \in Nat
<1>1. /\ granularity \in Nat /\ 2 <= granularity /\ index \in Nat \ {0} /\ attempts \in Nat
      /\ candidate \in SUBSET Positions
  BY DEF TypeOK
<1>2. /\ Cardinality(candidate) \in Nat /\ granularity <= Cardinality(candidate)
      /\ index <= Chunks(candidate, granularity)
  BY <1>1, PositionsFinite DEF WithinCost
<1>3. Count(candidate, granularity) = granularity
  BY <1>1, <1>2 DEF Count, AtLeast, AtMost
<1>4. Size(candidate, granularity) = DivCeil(Cardinality(candidate), granularity)
  BY <1>3 DEF Size
<1>5. Chunks(candidate, granularity) \in Nat
  BY <1>1, <1>2, <1>4, Parts DEF Chunks, SplitWell
<1>6. StillToAsk(Cardinality(candidate), granularity) \in Nat
  BY <1>1, <1>2, RoundPaid
<1>7. Most \in Nat
  <2>1. Len(Active) \in Nat /\ Len(Active) * Len(Active) \in Nat
    BY ActiveAssumption
  <2>2. QED
    BY <2>1 DEF Most
<1>8. QED
  BY <1>1, <1>2, <1>4, <1>5, <1>6, <1>7

\* A question costs one replay at most.
LEMMA OneReplay ==
    ASSUME TypeOK, Charge
    PROVE  attempts' \in Nat /\ attempts' <= attempts + 1
BY DEF TypeOK, Charge

\* A new round is within what was left for it.
LEMMA RoundWithin ==
    ASSUME NEW items \in SUBSET Positions, NEW count \in Nat, attempts' \in Nat,
           Round(items, count), Most \in Nat, attempts' <= Most,
           Cardinality(items) >= 2 =>
               /\ count >= 2 /\ count <= Cardinality(items)
               /\ attempts' + StillToAsk(Cardinality(items), count) <= Most
    PROVE  CostInv'
<1>1. /\ candidate' = items /\ granularity' = count /\ index' = 1
      /\ pc' = "done" \/ (pc' = "chunks" /\ Cardinality(items) >= 2)
  BY DEF Round, GoesOn
<1>2. QuadraticCost'
  BY DEF QuadraticCost, Most
<1>3. ASSUME pc' = "chunks" PROVE WithinCost'
  <2>1. Cardinality(items) \in Nat /\ Cardinality(items) >= 2
    BY <1>1, <1>3, PositionsFinite
  <2>2. Count(items, count) = count
    BY <2>1 DEF Count, AtLeast, AtMost
  <2>3. Chunks(items, count) \in Nat \ {0}
    BY <2>1, <2>2, Parts DEF Chunks, Size, SplitWell
  <2>4. QED
    BY <1>1, <1>3, <2>1, <2>3 DEF WithinCost
<1>4. ASSUME pc' = "done" PROVE WithinCost'
  BY <1>4 DEF WithinCost
<1>5. QED
  BY <1>1, <1>2, <1>3, <1>4 DEF CostInv

LEMMA CostStarts == Init => CostInv
<1> SUFFICES ASSUME Init PROVE CostInv
  OBVIOUS
<1> DEFINE n == Len(Active)
<1>1. n \in Nat /\ n * n \in Nat
  BY ActiveAssumption
<1>2. Cardinality(Positions) = n
  BY <1>1, FS_Interval DEF Positions
<1>3. QuadraticCost
  BY <1>1 DEF Init, QuadraticCost
<1>4. CASE n >= 2
  <2>1. candidate = Positions /\ granularity = 2 /\ index = 1 /\ attempts = 0 /\ pc = "chunks"
    BY <1>1, <1>2, <1>4 DEF Init, GoesOn
  <2>2. Count(Positions, 2) = 2
    BY <1>1, <1>2, <1>4 DEF Count, AtLeast, AtMost
  <2>3. Chunks(Positions, 2) \in Nat \ {0}
    BY <1>1, <1>2, <1>4, <2>2, Parts DEF Chunks, Size, SplitWell
  <2>4. StillToAsk(n, 2) <= Most
    <3>1. Most = n * n + 4 * n
      BY DEF Most
    <3> HIDE DEF n
    <3>2. CASE 2 < n
      BY <1>1, <3>1, <3>2 DEF StillToAsk
    <3>3. CASE n = 2
      BY <1>1, <3>1, <3>3 DEF StillToAsk
    <3>4. QED
      BY <1>1, <1>4, <3>2, <3>3
  <2>5. StillToAsk(n, 2) \in Int
    BY <1>1 DEF StillToAsk
  <2>6. QED
    BY <1>1, <1>2, <1>3, <1>4, <2>1, <2>3, <2>4, <2>5 DEF CostInv, WithinCost, Most
<1>5. CASE n < 2
  BY <1>1, <1>2, <1>3, <1>5 DEF Init, GoesOn, CostInv, WithinCost
<1>6. QED
  BY <1>1, <1>2, <1>4, <1>5

LEMMA CostAtChunk == IInv /\ CostInv /\ TryChunk => CostInv'
<1> SUFFICES ASSUME IInv, CostInv, TryChunk PROVE CostInv'
  OBVIOUS
<1> DEFINE n == Cardinality(candidate)
           chunks == Chunks(candidate, granularity)
           chunk == Chunk(candidate, granularity, index)
<1>1. TypeOK /\ LoopsHaveWork /\ WithinCost /\ pc = "chunks" /\ Charge
  BY DEF IInv, CostInv, TryChunk
<1>2. /\ n \in Nat /\ 2 <= granularity /\ granularity \in Nat /\ granularity <= n
      /\ Size(candidate, granularity) = DivCeil(n, granularity)
      /\ chunks = DivCeil(n, Size(candidate, granularity))
      /\ chunks \in Nat /\ index \in 1 .. chunks
      /\ attempts \in Nat /\ Most \in Nat /\ StillToAsk(n, granularity) \in Nat
  BY <1>1, RoundIs DEF Chunks
<1>3. attempts' \in Nat /\ attempts' <= attempts + 1
  BY <1>1, OneReplay
<1>4. attempts + StillToAsk(n, granularity) <= Most + index - 1
  BY <1>1, <1>2 DEF WithinCost
<1>5. 2 * chunks <= StillToAsk(n, granularity)
  BY <1>2, RoundPaid
<1>6. attempts' + StillToAsk(n, granularity) <= Most + index /\ attempts' <= Most
  BY <1>2, <1>3, <1>4, <1>5
<1>7. candidate \in SUBSET Positions /\ chunk \in SUBSET Positions
  BY <1>1, ChunkInPositions DEF TypeOK
<1>8. Cardinality(chunk) \in 1 .. Size(candidate, granularity)
  BY <1>2, <1>7, ChunkSize
<1>9. Size(candidate, granularity) \in Nat
  BY <1>2, RoundingUp
<1>10. QuadraticCost'
  BY <1>6 DEF QuadraticCost, Most
<1> HIDE DEF n, chunks, chunk
<1>11. CASE Round(chunk, 2)
  <2>1. ASSUME Cardinality(chunk) >= 2
        PROVE  attempts' + StillToAsk(Cardinality(chunk), 2) <= Most
    <3>1. Cardinality(chunk) \in 2 .. Size(candidate, granularity)
      BY <1>8, <1>9, <2>1
    <3>2. StillToAsk(Cardinality(chunk), 2) + chunks <= StillToAsk(n, granularity)
      BY <1>2, <3>1, RoundPaid
    <3>3. StillToAsk(Cardinality(chunk), 2) \in Int
      BY <1>9, <3>1 DEF StillToAsk
    <3>4. QED
      BY <1>2, <1>3, <1>6, <3>2, <3>3
  <2>2. QED
    BY <1>2, <1>3, <1>6, <1>7, <1>11, <2>1, RoundWithin
<1>12. CASE /\ index < chunks /\ index' = index + 1
            /\ UNCHANGED <<candidate, granularity, pc>>
  <2>1. WithinCost'
    BY <1>1, <1>2, <1>3, <1>6, <1>12 DEF WithinCost, n, chunks
  <2>2. QED
    BY <1>10, <2>1 DEF CostInv
<1>13. CASE /\ index = chunks /\ pc' = "complements" /\ index' = 1
            /\ UNCHANGED <<candidate, granularity>>
  <2>1. WithinCost'
    BY <1>2, <1>3, <1>6, <1>13 DEF WithinCost, n, chunks
  <2>2. QED
    BY <1>10, <2>1 DEF CostInv
<1>14. QED
  BY <1>11, <1>12, <1>13 DEF TryChunk, chunk, chunks

LEMMA CostAtComplement == IInv /\ CostInv /\ TryComplement => CostInv'
<1> SUFFICES ASSUME IInv, CostInv, TryComplement PROVE CostInv'
  OBVIOUS
<1> DEFINE n == Cardinality(candidate)
           chunks == Chunks(candidate, granularity)
           rest == Complement(candidate, granularity, index)
<1>1. TypeOK /\ LoopsHaveWork /\ WithinCost /\ pc = "complements" /\ Charge
  BY DEF IInv, CostInv, TryComplement
<1>2. /\ n \in Nat /\ 2 <= granularity /\ granularity \in Nat /\ granularity <= n
      /\ Size(candidate, granularity) = DivCeil(n, granularity)
      /\ chunks = DivCeil(n, Size(candidate, granularity))
      /\ chunks \in Nat /\ index \in 1 .. chunks
      /\ attempts \in Nat /\ Most \in Nat /\ StillToAsk(n, granularity) \in Nat
  BY <1>1, RoundIs DEF Chunks
<1>3. attempts' \in Nat /\ attempts' <= attempts + 1
  BY <1>1, OneReplay
<1>4. attempts + StillToAsk(n, granularity) <= Most + index - 1 + chunks
  BY <1>1, <1>2 DEF WithinCost
<1>5. 2 * chunks <= StillToAsk(n, granularity)
  BY <1>2, RoundPaid
<1>6. attempts' + StillToAsk(n, granularity) <= Most + index + chunks /\ attempts' <= Most
  BY <1>2, <1>3, <1>4, <1>5
<1>7. candidate \in SUBSET Positions /\ rest \in SUBSET Positions
  BY <1>1, ChunkInPositions DEF TypeOK
<1>8. Size(candidate, granularity) \in Nat
  BY <1>2, RoundingUp
<1>9. Cardinality(rest) \in n - Size(candidate, granularity) .. n - 1
  BY <1>2, <1>7, <1>8, ChunkSize
<1>10. QuadraticCost'
  BY <1>6 DEF QuadraticCost, Most
<1> HIDE DEF n, chunks, rest
<1>11. CASE Round(rest, AtLeast(2, granularity - 1))
  <2>1. AtLeast(2, granularity - 1) \in Nat /\ AtLeast(2, granularity - 1) >= 2
    BY <1>2 DEF AtLeast
  <2>2. ASSUME Cardinality(rest) >= 2
        PROVE  /\ AtLeast(2, granularity - 1) <= Cardinality(rest)
               /\ attempts' + StillToAsk(Cardinality(rest), AtLeast(2, granularity - 1)) <= Most
    <3>1. Cardinality(rest) \in 2 .. n - 1 /\ n - Size(candidate, granularity) <= Cardinality(rest)
      BY <1>2, <1>8, <1>9, <2>2
    <3>2. /\ AtLeast(2, granularity - 1) <= Cardinality(rest)
          /\ StillToAsk(Cardinality(rest), AtLeast(2, granularity - 1)) + 2 * chunks
               <= StillToAsk(n, granularity)
      BY <1>2, <3>1, RoundPaid
    <3>3. StillToAsk(Cardinality(rest), AtLeast(2, granularity - 1)) \in Int
      BY <1>2, <2>1, <3>1 DEF StillToAsk
    <3>4. QED
      BY <1>2, <1>3, <1>6, <3>2, <3>3
  <2>3. QED
    BY <1>2, <1>3, <1>6, <1>7, <1>11, <2>1, <2>2, RoundWithin
<1>12. CASE /\ index < chunks /\ index' = index + 1
            /\ UNCHANGED <<candidate, granularity, pc>>
  <2>1. WithinCost'
    BY <1>1, <1>2, <1>3, <1>6, <1>12 DEF WithinCost, n, chunks
  <2>2. QED
    BY <1>10, <2>1 DEF CostInv
<1>13. CASE pc' = "done"
  BY <1>10, <1>13 DEF CostInv, WithinCost
<1>14. CASE /\ granularity < n /\ index = chunks
            /\ Round(candidate, AtMost(n, granularity * 2))
  <2>1. AtMost(n, granularity * 2) \in Nat /\ AtMost(n, granularity * 2) \in 2 .. n
    BY <1>2 DEF AtMost
  <2>2. StillToAsk(n, AtMost(n, granularity * 2)) + 2 * chunks <= StillToAsk(n, granularity)
    BY <1>2, <1>14, RoundPaid
  <2>3. StillToAsk(n, AtMost(n, granularity * 2)) \in Int
    BY <1>2, <2>1 DEF StillToAsk
  <2>4. attempts' + StillToAsk(n, AtMost(n, granularity * 2)) <= Most
    BY <1>2, <1>3, <1>6, <1>14, <2>2, <2>3
  <2>5. QED
    BY <1>2, <1>3, <1>6, <1>7, <1>14, <2>1, <2>4, RoundWithin DEF n
<1>15. QED
  BY <1>11, <1>12, <1>13, <1>14 DEF TryComplement, Refine, n, rest, chunks

LEMMA CostAtError == IInv /\ CostInv /\ OracleError => CostInv'
<1> SUFFICES ASSUME IInv, CostInv, OracleError PROVE CostInv'
  OBVIOUS
<1> DEFINE n == Cardinality(candidate)
           chunks == Chunks(candidate, granularity)
<1>1. TypeOK /\ LoopsHaveWork /\ WithinCost /\ pc \in {"chunks", "complements"}
      /\ attempts' = attempts + 1 /\ pc' = "error"
  BY DEF IInv, CostInv, OracleError
<1>2. /\ n \in Nat /\ 2 <= granularity /\ granularity \in Nat /\ granularity <= n
      /\ chunks = DivCeil(n, DivCeil(n, granularity))
      /\ chunks \in Nat /\ index \in 1 .. chunks
      /\ attempts \in Nat /\ Most \in Nat /\ StillToAsk(n, granularity) \in Nat
  BY <1>1, RoundIs DEF Chunks
<1>3. 2 * chunks <= StillToAsk(n, granularity)
  BY <1>2, RoundPaid
<1>4. attempts + StillToAsk(n, granularity) <= Most + index - 1 + chunks
  BY <1>1, <1>2 DEF WithinCost
<1>5. attempts' <= Most
  BY <1>1, <1>2, <1>3, <1>4
<1>6. QED
  BY <1>1, <1>5 DEF CostInv, WithinCost, QuadraticCost, Most

\* A search over n decisions runs at most n * n + 4 * n replays, whatever the
\* oracle answers and however large the budget is (Search::ddmin).
THEOREM CostIsQuadratic == Spec => []QuadraticCost
<1>1. IInv /\ CostInv /\ [Next]_vars => CostInv'
  <2>1. CostInv /\ UNCHANGED vars => CostInv'
    BY DEF vars, CostInv, QuadraticCost, WithinCost
  <2>2. QED
    BY <2>1, CostAtChunk, CostAtComplement, CostAtError DEF Next
<1>2. CostInv => QuadraticCost
  BY DEF CostInv
<1>3. QED
  BY CostStarts, <1>1, <1>2, Invariant, PTL DEF Spec
=============================================================================
