--------------------------- MODULE CampaignProofs ---------------------------
(***************************************************************************)
(* What the commands leave behind and tell, for every script of commands,  *)
(* scenario, seed, shard, number of concurrent runs and budget.            *)
(*                                                                         *)
(* The lists the model makes of sets are shown to hold their elements once *)
(* and in order, and a replay of a recording to follow it; the invariant   *)
(* then says what a command holds at each of its stages.  A second one     *)
(* follows the counters, the reports and the document of a sweep.  Last    *)
(* come the arrivals of a batch, a fold over a list of any length.         *)
(***************************************************************************)
EXTENDS Campaign, FiniteSetTheorems, FunctionTheorems, SequenceTheorems, WellFoundedInduction,
        TLAPS

-----------------------------------------------------------------------------
\* Ranked lists.  An order is a set of pairs.

Orders(order, set) ==
    /\ \A x \in set : <<x, x>> \notin order
    /\ \A x, y \in set : x # y => <<x, y>> \in order \/ <<y, x>> \in order
    /\ \A x, y, z \in set : <<x, y>> \in order /\ <<y, z>> \in order => <<x, z>> \in order
Below(order, set, x) == {y \in set : <<y, x>> \in order}
Listing(order, set) ==
    [k \in 1 .. Cardinality(set) |->
        CHOOSE x \in set : Cardinality(Below(order, set, x)) = k - 1]

LEMMA IntervalSize ==
    ASSUME NEW n \in Nat
    PROVE  IsFiniteSet(1 .. n) /\ Cardinality(1 .. n) = n
<1>1. n \in Int /\ 1 \in Int
  OBVIOUS
<1>2. IsFiniteSet(1 .. n) /\ Cardinality(1 .. n) = IF 1 > n THEN 0 ELSE n - 1 + 1
  BY <1>1, FS_Interval
<1>3. QED
  BY <1>2

LEMMA ProperPart ==
    ASSUME NEW set, IsFiniteSet(set), NEW part \in SUBSET set, part # set
    PROVE  /\ IsFiniteSet(part)
           /\ Cardinality(part) \in Nat /\ Cardinality(set) \in Nat
           /\ Cardinality(part) < Cardinality(set)
<1>1. /\ IsFiniteSet(part) /\ Cardinality(part) <= Cardinality(set)
      /\ Cardinality(part) # Cardinality(set)
  BY FS_Subset
<1>2. Cardinality(part) \in Nat /\ Cardinality(set) \in Nat
  BY <1>1, FS_CardinalityType
<1>3. QED
  BY <1>1, <1>2

\* Of two elements the one in front has fewer below it.
LEMMA BelowGrows ==
    ASSUME NEW set, IsFiniteSet(set), NEW order, Orders(order, set),
           NEW x \in set, NEW y \in set, <<x, y>> \in order
    PROVE  Cardinality(Below(order, set, x)) < Cardinality(Below(order, set, y))
<1>1. PICK a, b : a = Below(order, set, x) /\ b = Below(order, set, y)
  OBVIOUS
<1>2. a \subseteq set /\ b \subseteq set
  BY <1>1 DEF Below
<1>3. a \subseteq b
  BY <1>1 DEF Below, Orders
<1>4. x \in b /\ x \notin a
  BY <1>1 DEF Below, Orders
<1>5. IsFiniteSet(b) /\ a # b
  BY <1>2, <1>4, FS_Subset
<1>6. Cardinality(a) < Cardinality(b)
  BY <1>3, <1>5, ProperPart
<1>7. QED
  BY <1>1, <1>6

LEMMA BelowIsSmaller ==
    ASSUME NEW set, IsFiniteSet(set), NEW order, Orders(order, set), NEW x \in set
    PROVE  Cardinality(Below(order, set, x)) \in 0 .. Cardinality(set) - 1
<1>1. PICK a : a = Below(order, set, x)
  OBVIOUS
<1>2. a \subseteq set /\ a # set
  BY <1>1 DEF Below, Orders
<1>3. /\ Cardinality(a) \in Nat /\ Cardinality(set) \in Nat
      /\ Cardinality(a) < Cardinality(set)
  BY <1>2, ProperPart
<1>4. QED
  BY <1>1, <1>3

\* The list holds each element once, in order, and there is no other such list.
LEMMA ListingIs ==
    ASSUME NEW set, IsFiniteSet(set), NEW order, Orders(order, set),
           NEW n \in Nat, n = Cardinality(set), NEW list, list = Listing(order, set)
    PROVE  /\ list \in [1 .. n -> set]
           /\ \A x \in set : \E k \in 1 .. n : list[k] = x
           /\ \A i, j \in 1 .. n : i < j => <<list[i], list[j]>> \in order
<1> DEFINE size == [x \in set |-> Cardinality(Below(order, set, x)) + 1]
<1>1. \A x \in set : size[x] = Cardinality(Below(order, set, x)) + 1
  OBVIOUS
<1>2. \A x \in set : Cardinality(Below(order, set, x)) \in 0 .. n - 1
  BY BelowIsSmaller
<1>3. size \in [set -> 1 .. n]
  BY <1>2
<1>4. \A x, y \in set : <<x, y>> \in order => size[x] < size[y]
  <2>1. SUFFICES ASSUME NEW x \in set, NEW y \in set, <<x, y>> \in order
                 PROVE  size[x] < size[y]
    OBVIOUS
  <2>2. Cardinality(Below(order, set, x)) < Cardinality(Below(order, set, y))
    BY <2>1, BelowGrows
  <2>3. QED
    BY <1>1, <1>2, <2>2
<1>5. PICK f \in [set -> 1 .. n] : f = size
  BY <1>3
<1>6. \A x \in set : f[x] = Cardinality(Below(order, set, x)) + 1
  BY <1>1, <1>5
<1>7. \A x, y \in set : <<x, y>> \in order => f[x] < f[y]
  BY <1>4, <1>5
<1> HIDE DEF size
<1>8. \A x, y \in set : f[x] = f[y] => x = y
  <2>1. SUFFICES ASSUME NEW x \in set, NEW y \in set, f[x] = f[y], x # y
                 PROVE  FALSE
    OBVIOUS
  <2>2. <<x, y>> \in order \/ <<y, x>> \in order
    BY <2>1 DEF Orders
  <2>3. f[x] \in 1 .. n /\ f[y] \in 1 .. n
    BY <1>5
  <2>4. QED
    BY <1>7, <2>1, <2>2, <2>3
<1>9. f \in Injection(set, 1 .. n)
  BY <1>8 DEF Injection, IsInjective
<1>10. f \in Surjection(set, 1 .. n)
  BY <1>9, IntervalSize, FS_Injection
<1>11. \A k \in 1 .. n : \E x \in set : f[x] = k
  BY <1>10 DEF Surjection
<1>12. ASSUME NEW k \in 1 .. n
       PROVE  list[k] \in set /\ f[list[k]] = k
  <2>1. \E x \in set : Cardinality(Below(order, set, x)) = k - 1
    <3>1. PICK x \in set : f[x] = k
      BY <1>11
    <3>2. /\ Cardinality(Below(order, set, x)) \in 0 .. n - 1
          /\ Cardinality(Below(order, set, x)) + 1 = k
      BY <1>2, <1>6, <3>1
    <3>3. QED
      BY <3>2
  <2>2. list[k] = CHOOSE x \in set : Cardinality(Below(order, set, x)) = k - 1
    BY DEF Listing
  <2>3. list[k] \in set /\ Cardinality(Below(order, set, list[k])) = k - 1
    BY <2>1, <2>2
  <2>4. QED
    BY <1>6, <2>3
<1>13. list \in [1 .. n -> set]
  <2>1. DOMAIN list = 1 .. n /\ list = [k \in 1 .. n |-> list[k]]
    BY DEF Listing
  <2>2. QED
    BY <1>12, <2>1
<1>14. \A x \in set : list[f[x]] = x
  BY <1>5, <1>8, <1>12
<1>15. ASSUME NEW i \in 1 .. n, NEW j \in 1 .. n, i < j
       PROVE  <<list[i], list[j]>> \in order
  <2>1. list[i] \in set /\ list[j] \in set /\ f[list[i]] = i /\ f[list[j]] = j
    BY <1>12
  <2>2. list[i] # list[j] /\ ~(<<list[j], list[i]>> \in order)
    BY <1>7, <1>15, <2>1
  <2>3. QED
    BY <2>1, <2>2 DEF Orders
<1>16. QED
  BY <1>5, <1>13, <1>14, <1>15

\* The orders of the model.
Pairs == Nat \X Nat
KeyOrder == {pair \in Pairs \X Pairs : Earlier(pair[1], pair[2])}
PlaceOrder == {pair \in Nat \X Nat : pair[1] < pair[2]}

LEMMA KeyOrderOrders ==
    ASSUME NEW set \in SUBSET Pairs
    PROVE  Orders(KeyOrder, set)
<1>1. \A x, y \in Pairs : <<x, y>> \in KeyOrder <=> Earlier(x, y)
  BY DEF KeyOrder
<1>2. \A x \in Pairs : x = <<x[1], x[2]>> /\ x[1] \in Nat /\ x[2] \in Nat
  BY DEF Pairs
<1>3. \A x \in Pairs : ~Earlier(x, x)
  BY <1>2 DEF Earlier
<1>4. \A x, y \in Pairs : x # y => Earlier(x, y) \/ Earlier(y, x)
  BY <1>2 DEF Earlier
<1>5. \A x, y, z \in Pairs : Earlier(x, y) /\ Earlier(y, z) => Earlier(x, z)
  BY <1>2 DEF Earlier
<1>6. QED
  BY <1>1, <1>3, <1>4, <1>5 DEF Orders

LEMMA PlaceOrderOrders ==
    ASSUME NEW set \in SUBSET Nat
    PROVE  Orders(PlaceOrder, set)
<1>1. \A x, y \in Nat : <<x, y>> \in PlaceOrder <=> x < y
  BY DEF PlaceOrder
<1>2. QED
  BY <1>1 DEF Orders

\* The keys of a set in order.
LEMMA KeysListed ==
    ASSUME NEW set \in SUBSET Pairs, IsFiniteSet(set), NEW n \in Nat, n = Cardinality(set),
           NEW list, list = Ranked(set, Earlier)
    PROVE  /\ list \in [1 .. n -> set]
           /\ set \subseteq Range(list)
           /\ \A i, j \in 1 .. n : i < j => Earlier(list[i], list[j])
<1>1. \A x \in set : Below(KeyOrder, set, x) = {y \in set : Earlier(y, x)}
  BY DEF Below, KeyOrder
<1>2. \A k \in 1 .. n : (CHOOSE x \in set : Cardinality(Below(KeyOrder, set, x)) = k - 1)
                       = (CHOOSE x \in set : Cardinality({y \in set : Earlier(y, x)}) = k - 1)
  BY <1>1
<1>3. list = Listing(KeyOrder, set)
  BY <1>2 DEF Ranked, Listing
<1>4. Orders(KeyOrder, set)
  BY KeyOrderOrders
<1>5. /\ list \in [1 .. n -> set]
      /\ \A x \in set : \E k \in 1 .. n : list[k] = x
      /\ \A i, j \in 1 .. n : i < j => <<list[i], list[j]>> \in KeyOrder
  BY <1>3, <1>4, ListingIs
<1>6. set \subseteq Range(list)
  BY <1>5 DEF Range
<1>7. QED
  BY <1>5, <1>6 DEF KeyOrder

\* The elements of a list at some places.
Chosen(list, places) == {list[i] : i \in places}

LEMMA PickedIs ==
    ASSUME NEW set \in SUBSET Nat, IsFiniteSet(set), NEW n \in Nat, n = Cardinality(set),
           NEW list, NEW some, some = Picked(list, set)
    PROVE  DOMAIN some = 1 .. n /\ Len(some) = n /\ Range(some) = Chosen(list, set)
<1>1. PICK at : at = Ranked(set, LAMBDA i, j : i < j)
  OBVIOUS
<1>2. \A x \in set : Below(PlaceOrder, set, x) = {y \in set : y < x}
  BY DEF Below, PlaceOrder
<1>3. \A k \in 1 .. n : (CHOOSE x \in set : Cardinality(Below(PlaceOrder, set, x)) = k - 1)
                       = (CHOOSE x \in set : Cardinality({y \in set : y < x}) = k - 1)
  BY <1>2
<1>4. at = Listing(PlaceOrder, set)
  BY <1>1, <1>3 DEF Ranked, Listing
<1>5. at \in [1 .. n -> set] /\ \A x \in set : \E k \in 1 .. n : at[k] = x
  BY <1>4, PlaceOrderOrders, ListingIs
<1>6. some = [k \in 1 .. n |-> list[at[k]]]
  BY <1>1 DEF Picked
<1>7. \A k \in 1 .. n : some[k] = list[at[k]]
  BY <1>6
<1>8. \A k \in 1 .. n : \E i \in set : some[k] = list[i]
  <2>1. \A k \in 1 .. n : at[k] \in set
    BY <1>5
  <2>2. QED
    BY <1>7, <2>1
<1>9. \A i \in set : \E k \in 1 .. n : some[k] = list[i]
  BY <1>5, <1>7
<1>10. DOMAIN some = 1 .. n /\ Len(some) = n
  BY <1>6
<1>11. Range(some) = {some[k] : k \in 1 .. n}
  BY <1>10 DEF Range
<1>12. Range(some) \subseteq Chosen(list, set)
  BY <1>8, <1>11 DEF Chosen
<1>13. Chosen(list, set) \subseteq Range(some)
  BY <1>9, <1>11 DEF Chosen
<1>14. QED
  BY <1>10, <1>12, <1>13

-----------------------------------------------------------------------------
\* Traces.

\* The records of a trace stand in the order of their keys.
InKeyOrder(trace) ==
    /\ Len(trace) \in Nat /\ trace = [i \in 1 .. Len(trace) |-> trace[i]]
    /\ \A i \in DOMAIN trace :
           trace[i] = Record(trace[i].key, trace[i].decision) /\ trace[i].key \in Pairs
    /\ \A i, j \in DOMAIN trace : i < j => Earlier(trace[i].key, trace[j].key)

LEMMA KeysFinite == Keys \in SUBSET Pairs /\ IsFiniteSet(Keys)
<1>1. PICK n \in Nat : n = Len(Batches) /\ DOMAIN Batches = 1 .. n
  BY BatchesAssumption, LenProperties
<1>2. \A c \in 1 .. n : Batches[c] \in Nat
  BY <1>1, BatchesAssumption
<1> DEFINE Of(c) == {c} \X (1 .. Batches[c])
           f == [c \in 1 .. n |-> Of(c)]
<1>3. Keys = UNION {Of(c) : c \in 1 .. n}
  BY <1>1 DEF Keys
<1>4. \A c \in 1 .. n : Of(c) \subseteq Pairs
  BY <1>2 DEF Pairs
<1>5. ASSUME NEW c \in 1 .. n
      PROVE  IsFiniteSet(Of(c))
  <2>1. IsFiniteSet({c}) /\ IsFiniteSet(1 .. Batches[c])
    BY <1>2, IntervalSize, FS_Singleton
  <2>2. QED
    BY <2>1, FS_Product
<1>6. IsFiniteSet({Of(c) : c \in 1 .. n})
  <2>1. PICK g : g = f
    OBVIOUS
  <2>2. g \in Surjection(1 .. n, {Of(c) : c \in 1 .. n})
    BY <2>1 DEF Surjection
  <2>3. IsFiniteSet(1 .. n)
    BY IntervalSize
  <2> HIDE DEF Of, f
  <2>4. QED
    BY <2>2, <2>3, FS_Surjection
<1>7. \A set \in {Of(c) : c \in 1 .. n} : IsFiniteSet(set)
  BY <1>5
<1> HIDE DEF Of, f
<1>8. IsFiniteSet(UNION {Of(c) : c \in 1 .. n})
  BY <1>6, <1>7, FS_UNION
<1>9. QED
  BY <1>3, <1>4, <1>8

LEMMA ReachedFinite ==
    ASSUME NEW choice
    PROVE  /\ Reached(choice) \in SUBSET Pairs /\ Reached(choice) \in SUBSET Keys
           /\ IsFiniteSet(Reached(choice)) /\ Cardinality(Reached(choice)) \in Nat
<1>1. Reached(choice) \in SUBSET Keys
  BY DEF Reached
<1>2. QED
  BY <1>1, KeysFinite, FS_Subset, FS_CardinalityType

LEMMA TraceIs ==
    ASSUME NEW choice, NEW trace, trace = TraceOf(choice), NEW n, n = Cardinality(Reached(choice))
    PROVE  /\ n \in Nat /\ DOMAIN trace = 1 .. n /\ Len(trace) = n
           /\ trace = [i \in 1 .. n |-> trace[i]]
           /\ \A k \in 1 .. n : /\ trace[k] = Record(trace[k].key, choice[trace[k].key])
                                /\ trace[k].key \in Reached(choice)
           /\ \A k \in 1 .. n : trace[k].decision = choice[trace[k].key]
           /\ \A key \in Reached(choice) : \E k \in 1 .. n : trace[k].key = key
           /\ \A i, j \in 1 .. n : i < j => Earlier(trace[i].key, trace[j].key)
<1>1. /\ Reached(choice) \in SUBSET Pairs /\ IsFiniteSet(Reached(choice)) /\ n \in Nat
  BY ReachedFinite
<1>2. PICK keys : keys = Ranked(Reached(choice), Earlier)
  OBVIOUS
<1>3. /\ keys \in [1 .. n -> Reached(choice)]
      /\ \A x \in Reached(choice) : \E k \in 1 .. n : keys[k] = x
      /\ \A i, j \in 1 .. n : i < j => Earlier(keys[i], keys[j])
  <2>1. PICK set \in SUBSET Pairs, m \in Nat : set = Reached(choice) /\ m = n
    BY <1>1
  <2>2. IsFiniteSet(set) /\ m = Cardinality(set) /\ keys = Ranked(set, Earlier)
    BY <1>1, <1>2, <2>1
  <2>3. keys \in [1 .. m -> set]
    BY <2>2, KeysListed
  <2>4. \A x \in set : \E k \in 1 .. m : keys[k] = x
    <3>1. set \subseteq Range(keys)
      BY <2>2, KeysListed
    <3>2. QED
      BY <2>3, <3>1 DEF Range
  <2>5. \A i, j \in 1 .. m : i < j => Earlier(keys[i], keys[j])
    BY <2>2, KeysListed
  <2>6. QED
    BY <2>1, <2>3, <2>4, <2>5
<1>4. trace = [i \in 1 .. n |-> Record(keys[i], choice[keys[i]])]
  BY <1>2 DEF TraceOf
<1>5. \A k \in 1 .. n : /\ trace[k] = Record(keys[k], choice[keys[k]])
                        /\ trace[k].key = keys[k] /\ trace[k].decision = choice[keys[k]]
  BY <1>4 DEF Record
<1>6. DOMAIN trace = 1 .. n /\ Len(trace) = n /\ trace = [i \in 1 .. n |-> trace[i]]
  BY <1>1, <1>4
<1>7. \A k \in 1 .. n : /\ trace[k] = Record(trace[k].key, choice[trace[k].key])
                        /\ trace[k].key \in Reached(choice)
  BY <1>3, <1>5
<1>8. \A key \in Reached(choice) : \E k \in 1 .. n : trace[k].key = key
  BY <1>3, <1>5
<1>9. \A i, j \in 1 .. n : i < j => Earlier(trace[i].key, trace[j].key)
  BY <1>3, <1>5
<1>10. \A k \in 1 .. n : trace[k].decision = choice[trace[k].key]
  BY <1>5
<1>11. QED
  BY <1>1, <1>6, <1>7, <1>8, <1>9, <1>10

LEMMA TraceInKeyOrder ==
    ASSUME NEW choice, NEW trace, trace = TraceOf(choice)
    PROVE  /\ InKeyOrder(trace) /\ KeysIn(trace) = Reached(choice)
           /\ \A i \in DOMAIN trace : trace[i].decision = choice[trace[i].key]
<1>1. PICK n : n = Cardinality(Reached(choice))
  OBVIOUS
<1>2. /\ n \in Nat /\ DOMAIN trace = 1 .. n /\ Len(trace) = n
      /\ trace = [i \in 1 .. n |-> trace[i]]
  BY <1>1, TraceIs
<1>3. \A k \in 1 .. n : /\ trace[k] = Record(trace[k].key, choice[trace[k].key])
                        /\ trace[k].key \in Reached(choice)
  BY <1>1, TraceIs
<1>4. \A key \in Reached(choice) : \E k \in 1 .. n : trace[k].key = key
  BY <1>1, TraceIs
<1>5. \A i, j \in 1 .. n : i < j => Earlier(trace[i].key, trace[j].key)
  BY <1>1, TraceIs
<1>6. \A k \in 1 .. n : trace[k].decision = choice[trace[k].key]
  BY <1>1, TraceIs
<1>7. \A k \in 1 .. n : trace[k].key \in Pairs
  BY <1>3, ReachedFinite
<1>8. InKeyOrder(trace)
  <2>1. \A i \in DOMAIN trace :
            trace[i] = Record(trace[i].key, trace[i].decision) /\ trace[i].key \in Pairs
    <3>1. SUFFICES ASSUME NEW i \in 1 .. n
                   PROVE  /\ trace[i] = Record(trace[i].key, trace[i].decision)
                          /\ trace[i].key \in Pairs
      BY <1>2
    <3>2. choice[trace[i].key] = trace[i].decision
      BY <1>6
    <3>3. trace[i] = Record(trace[i].key, choice[trace[i].key])
      BY <1>3
    <3>4. QED
      BY <1>7, <3>2, <3>3, Zenon
  <2>2. QED
    BY <1>2, <1>5, <2>1 DEF InKeyOrder
<1>9. KeysIn(trace) = Reached(choice)
  BY <1>2, <1>3, <1>4 DEF KeysIn
<1>10. QED
  BY <1>2, <1>6, <1>8, <1>9

LEMMA EarlierIsStrict ==
    ASSUME NEW one \in Pairs, NEW other \in Pairs, Earlier(one, other)
    PROVE  one # other
BY DEF Earlier, Pairs

\* A key stands once in a trace.
LEMMA DecisionIs ==
    ASSUME NEW trace, InKeyOrder(trace), NEW i \in DOMAIN trace
    PROVE  DecisionAt(trace, trace[i].key) = trace[i].decision
<1>1. \A j \in DOMAIN trace : trace[j].key = trace[i].key => j = i
  <2>1. SUFFICES ASSUME NEW j \in DOMAIN trace, trace[j].key = trace[i].key, j # i
                 PROVE  FALSE
    OBVIOUS
  <2>2. i \in Nat /\ j \in Nat
    BY DEF InKeyOrder
  <2>3. i < j \/ j < i
    BY <2>1, <2>2
  <2>4. Earlier(trace[i].key, trace[j].key) \/ Earlier(trace[j].key, trace[i].key)
    BY <2>3 DEF InKeyOrder
  <2>5. trace[i].key \in Pairs
    BY DEF InKeyOrder
  <2>6. QED
    BY <2>1, <2>4, <2>5, EarlierIsStrict
<1>2. PICK at : at = {j \in DOMAIN trace : trace[j].key = trace[i].key}
  OBVIOUS
<1>3. at = {i} /\ i \in Nat
  BY <1>1, <1>2 DEF InKeyOrder
<1>4. (CHOOSE j \in at : \A k \in at : k <= j) = i
  BY <1>3
<1>5. QED
  BY <1>2, <1>4 DEF DecisionAt

LEMMA LeastExists ==
    ASSUME NEW set \in SUBSET Nat, set # {}
    PROVE  \E m \in set : \A n \in set : m <= n
<1>1. PICK m \in set : \A n \in set : ~ (<<n, m>> \in OpToRel(<, Nat))
  BY WFMin, NatLessThanWellFounded, Zenon
<1>2. \A n \in set : m <= n
  <2>1. \A n \in set : ~(n < m)
    BY <1>1, Zenon DEF OpToRel
  <2>2. QED
    BY <2>1
<1>3. QED
  BY <1>2

LEMMA KeysBefore ==
    ASSUME NEW key \in Keys, NEW i \in 1 .. key[2] - 1
    PROVE  <<key[1], i>> \in Keys
<1>1. PICK c \in DOMAIN Batches : key \in {c} \X (1 .. Batches[c])
  BY DEF Keys
<1>2. key[1] = c /\ key[2] \in 1 .. Batches[c] /\ Batches[c] \in Nat
  BY <1>1, BatchesAssumption
<1>3. i \in 1 .. Batches[c]
  BY <1>2
<1>4. <<c, i>> \in {c} \X (1 .. Batches[c])
  BY <1>3
<1>5. QED
  BY <1>2, <1>4 DEF Keys

\* The forks of a run depend on what was answered at them, and on nothing else.
LEMMA ReachedAgree ==
    ASSUME NEW choice, NEW other,
           \A key \in Reached(choice) : other[key] = choice[key]
    PROVE  Reached(choice) \subseteq Reached(other)
<1>1. SUFFICES ASSUME NEW key \in Reached(choice)
               PROVE  key \in Reached(other)
  OBVIOUS
<1>2. key \in Keys /\ \A i \in 1 .. key[2] - 1 : choice[<<key[1], i>>] # "close"
  BY DEF Reached
<1>3. key[1] \in Nat /\ key[2] \in Nat
  BY <1>2, KeysFinite DEF Pairs
<1>4. ASSUME NEW i \in 1 .. key[2] - 1
      PROVE  other[<<key[1], i>>] # "close"
  <2>1. PICK c, k : c = key[1] /\ k = <<key[1], i>>
    OBVIOUS
  <2>2. k \in Keys /\ k[1] = c /\ k[2] = i
    BY <1>2, <2>1, KeysBefore
  <2>3. \A j \in 1 .. i - 1 : j \in 1 .. key[2] - 1
    BY <1>3
  <2>4. \A j \in 1 .. k[2] - 1 : choice[<<k[1], j>>] # "close"
    BY <1>2, <2>1, <2>2, <2>3
  <2>5. k \in Reached(choice)
    BY <2>2, <2>4 DEF Reached
  <2>6. other[k] = choice[k]
    BY <2>5
  <2>7. QED
    BY <1>2, <2>1, <2>6
<1>5. QED
  BY <1>2, <1>4 DEF Reached

LEMMA ReachedOnly ==
    ASSUME NEW choice, NEW other,
           \A key \in Reached(choice) : other[key] = choice[key]
    PROVE  Reached(other) \subseteq Reached(choice)
<1>1. SUFFICES ASSUME NEW key \in Reached(other), key \notin Reached(choice)
               PROVE  FALSE
  OBVIOUS
<1>2. key \in Keys /\ \A i \in 1 .. key[2] - 1 : other[<<key[1], i>>] # "close"
  BY DEF Reached
<1>3. key[1] \in Nat /\ key[2] \in Nat
  BY <1>2, KeysFinite DEF Pairs
<1>4. PICK set : set = {i \in 1 .. key[2] - 1 : choice[<<key[1], i>>] = "close"}
  OBVIOUS
<1>5. set # {} /\ set \in SUBSET Nat
  BY <1>1, <1>2, <1>3, <1>4 DEF Reached
<1>6. PICK m \in set : \A i \in set : m <= i
  BY <1>5, LeastExists
<1>7. m \in 1 .. key[2] - 1 /\ m \in Nat /\ choice[<<key[1], m>>] = "close"
  BY <1>4, <1>5, <1>6
<1>8. PICK k : k = <<key[1], m>>
  OBVIOUS
<1>9. k \in Keys /\ k[1] = key[1] /\ k[2] = m
  BY <1>2, <1>7, <1>8, KeysBefore
<1>10. \A i \in 1 .. m - 1 : choice[<<key[1], i>>] # "close"
  <2>1. SUFFICES ASSUME NEW i \in 1 .. m - 1, choice[<<key[1], i>>] = "close"
                 PROVE  FALSE
    OBVIOUS
  <2>2. i \in set
    BY <1>3, <1>4, <1>7, <2>1
  <2>3. QED
    BY <1>6, <1>7, <2>2
<1>11. k \in Reached(choice)
  BY <1>9, <1>10 DEF Reached
<1>12. QED
  BY <1>2, <1>7, <1>8, <1>11

LEMMA TracesAgree ==
    ASSUME NEW choice, NEW other,
           \A key \in Reached(choice) : other[key] = choice[key]
    PROVE  TraceOf(other) = TraceOf(choice)
<1>1. Reached(other) = Reached(choice)
  BY ReachedAgree, ReachedOnly
<1>2. PICK n \in Nat : n = Cardinality(Reached(choice))
  BY ReachedFinite
<1>3. PICK set \in SUBSET Pairs : set = Reached(choice) /\ IsFiniteSet(set)
  BY ReachedFinite
<1>4. PICK keys : keys = Ranked(set, Earlier)
  OBVIOUS
<1>5. keys \in [1 .. n -> set]
  BY <1>2, <1>3, <1>4, KeysListed
<1>6. \A i \in 1 .. n : other[keys[i]] = choice[keys[i]]
  BY <1>3, <1>5
<1>7. TraceOf(choice) = [i \in 1 .. n |-> Record(keys[i], choice[keys[i]])]
  BY <1>2, <1>3, <1>4 DEF TraceOf
<1>8. TraceOf(other) = [i \in 1 .. n |-> Record(keys[i], other[keys[i]])]
  BY <1>1, <1>2, <1>3, <1>4 DEF TraceOf
<1>9. QED
  BY <1>6, <1>7, <1>8

\* What Replay answers: the trace's own decisions, and the neutral one elsewhere.
Answer(trace, key) == IF key \in KeysIn(trace) THEN DecisionAt(trace, key) ELSE Allow
Replayed(trace) == [key \in Keys |-> Answer(trace, key)]

LEMMA FollowIs ==
    ASSUME NEW trace
    PROVE  Follow(trace) = TraceOf(Replayed(trace))
BY DEF Follow, Replayed, Answer

\* Following what a run recorded gives it back.
Recorded(trace) == Follow(trace) = trace

LEMMA TraceIsRecorded ==
    ASSUME NEW choice
    PROVE  Recorded(TraceOf(choice))
<1>1. PICK trace : trace = TraceOf(choice)
  OBVIOUS
<1>2. InKeyOrder(trace) /\ KeysIn(trace) = Reached(choice)
  BY <1>1, TraceInKeyOrder
<1>3. \A i \in DOMAIN trace : trace[i].decision = choice[trace[i].key]
  BY <1>1, TraceInKeyOrder
<1>4. ASSUME NEW key \in Reached(choice)
      PROVE  Replayed(trace)[key] = choice[key]
  <2>1. PICK i \in DOMAIN trace : trace[i].key = key
    BY <1>2 DEF KeysIn
  <2>2. DecisionAt(trace, key) = choice[key]
    BY <1>2, <1>3, <2>1, DecisionIs
  <2>3. key \in Keys
    BY DEF Reached
  <2>4. QED
    BY <1>2, <2>2, <2>3 DEF Replayed, Answer
<1>5. TraceOf(Replayed(trace)) = TraceOf(choice)
  BY <1>4, TracesAgree
<1>6. QED
  BY <1>1, <1>5, FollowIs DEF Recorded

LEMMA FollowIsRecorded ==
    ASSUME NEW trace
    PROVE  Recorded(Follow(trace))
BY FollowIs, TraceIsRecorded

LEMMA RecordedInKeyOrder ==
    ASSUME NEW trace, Recorded(trace)
    PROVE  InKeyOrder(trace)
<1>1. trace = TraceOf(Replayed(trace))
  BY FollowIs DEF Recorded
<1>2. QED
  BY <1>1, TraceInKeyOrder

-----------------------------------------------------------------------------
\* Active decisions.

KeysAt(trace, places) == {trace[i].key : i \in places}

LEMMA ActiveIs ==
    ASSUME NEW trace, InKeyOrder(trace), NEW places,
           places = {i \in DOMAIN trace : trace[i].decision # Allow}
    PROVE  /\ IsFiniteSet(places) /\ Cardinality(places) \in Nat
           /\ Len(Active(trace)) = Cardinality(places)
           /\ ActiveKeys(trace) = KeysAt(trace, places)
<1>1. PICK n \in Nat : n = Len(trace) /\ DOMAIN trace = 1 .. n
  BY DEF InKeyOrder
<1>2. places \in SUBSET (1 .. n) /\ places \in SUBSET Nat
  BY <1>1
<1>3. IsFiniteSet(places) /\ Cardinality(places) \in Nat
  BY <1>2, IntervalSize, FS_Subset, FS_CardinalityType
<1>4. PICK m \in Nat : m = Cardinality(places)
  BY <1>3
<1>5. PICK some : some = Active(trace)
  OBVIOUS
<1>6. some = Picked(trace, places)
  BY <1>5 DEF Active
<1>7. DOMAIN some = 1 .. m /\ Len(some) = m
  BY <1>2, <1>3, <1>4, <1>6, PickedIs
<1>8. Range(some) = Chosen(trace, places)
  BY <1>2, <1>3, <1>4, <1>6, PickedIs
<1>9. ActiveKeys(trace) = {record.key : record \in Range(some)}
  BY <1>5 DEF ActiveKeys, KeysIn, Range
<1>10. QED
  BY <1>3, <1>4, <1>5, <1>7, <1>8, <1>9 DEF Chosen, KeysAt

\* There are as many active decisions as there are forks that have one.
LEMMA ActiveCount ==
    ASSUME NEW trace, InKeyOrder(trace)
    PROVE  /\ IsFiniteSet(ActiveKeys(trace)) /\ Len(Active(trace)) \in Nat
           /\ Len(Active(trace)) = Cardinality(ActiveKeys(trace))
<1>1. PICK places : places = {i \in DOMAIN trace : trace[i].decision # Allow}
  OBVIOUS
<1>2. /\ IsFiniteSet(places) /\ Cardinality(places) \in Nat
      /\ Len(Active(trace)) = Cardinality(places)
      /\ ActiveKeys(trace) = KeysAt(trace, places)
  BY <1>1, ActiveIs
<1>3. PICK keys : keys = ActiveKeys(trace)
  OBVIOUS
<1>4. PICK f : f = [i \in places |-> trace[i].key]
  OBVIOUS
<1>5. \A i, j \in DOMAIN trace : i # j => trace[i].key # trace[j].key
  <2>1. SUFFICES ASSUME NEW i \in DOMAIN trace, NEW j \in DOMAIN trace, i # j
                 PROVE  trace[i].key # trace[j].key
    OBVIOUS
  <2>2. i < j \/ j < i
    BY <2>1 DEF InKeyOrder
  <2>3. Earlier(trace[i].key, trace[j].key) \/ Earlier(trace[j].key, trace[i].key)
    BY <2>2 DEF InKeyOrder
  <2>4. trace[i].key \in Pairs /\ trace[j].key \in Pairs
    BY DEF InKeyOrder
  <2>5. QED
    BY <2>3, <2>4, EarlierIsStrict
<1>6. f \in [places -> keys] /\ \A i \in places : f[i] = trace[i].key
  BY <1>2, <1>3, <1>4 DEF KeysAt
<1>7. f \in Injection(places, keys)
  BY <1>1, <1>5, <1>6 DEF Injection, IsInjective
<1>8. f \in Surjection(places, keys)
  BY <1>2, <1>3, <1>6 DEF Surjection, KeysAt
<1>9. IsFiniteSet(keys) /\ Cardinality(keys) = Cardinality(places)
  BY <1>2, <1>7, <1>8, FS_Surjection
<1>10. QED
  BY <1>2, <1>3, <1>9

LEMMA ActiveGrows ==
    ASSUME NEW trace, NEW other, InKeyOrder(trace), InKeyOrder(other),
           ActiveKeys(other) \subseteq ActiveKeys(trace)
    PROVE  Len(Active(other)) <= Len(Active(trace))
BY ActiveCount, FS_Subset

\* A run that follows a trace perturbs only what the trace does.
LEMMA FollowPerturbs ==
    ASSUME NEW trace, NEW run, run = Follow(trace)
    PROVE  \A key \in ActiveKeys(run) : key \in KeysIn(trace) /\ DecisionAt(trace, key) # Allow
<1>1. run = TraceOf(Replayed(trace))
  BY FollowIs
<1>2. InKeyOrder(run) /\ KeysIn(run) = Reached(Replayed(trace))
  BY <1>1, TraceInKeyOrder
<1>3. \A i \in DOMAIN run : run[i].decision = Replayed(trace)[run[i].key]
  BY <1>1, TraceInKeyOrder
<1>4. SUFFICES ASSUME NEW key \in ActiveKeys(run)
               PROVE  key \in KeysIn(trace) /\ DecisionAt(trace, key) # Allow
  OBVIOUS
<1>5. PICK i \in DOMAIN run : run[i].decision # Allow /\ run[i].key = key
  <2>1. PICK places : places = {i \in DOMAIN run : run[i].decision # Allow}
    OBVIOUS
  <2>2. InKeyOrder(run)
    BY <1>2
  <2>3. ActiveKeys(run) = KeysAt(run, places)
    BY <2>1, <2>2, ActiveIs
  <2>4. QED
    BY <1>4, <2>1, <2>3 DEF KeysAt
<1>6. key \in Keys
  BY <1>2, <1>5 DEF KeysIn, Reached
<1>7. Replayed(trace)[key] # Allow
  BY <1>3, <1>5
<1>8. QED
  BY <1>6, <1>7 DEF Replayed, Answer

LEMMA WithoutIs ==
    ASSUME NEW trace, InKeyOrder(trace), NEW removed, NEW edited,
           edited = Without(trace, removed)
    PROVE  /\ InKeyOrder(edited) /\ KeysIn(edited) = KeysIn(trace)
           /\ DOMAIN edited = DOMAIN trace
           /\ \A i \in DOMAIN trace :
                  /\ edited[i].key = trace[i].key
                  /\ edited[i].decision = IF trace[i].key \in removed THEN Allow
                                          ELSE trace[i].decision
<1>1. PICK n \in Nat : n = Len(trace) /\ DOMAIN trace = 1 .. n
  BY DEF InKeyOrder
<1>2. edited = [i \in 1 .. n |-> IF trace[i].key \in removed
                                 THEN [trace[i] EXCEPT !.decision = Allow] ELSE trace[i]]
  BY <1>1 DEF Without
<1>3. DOMAIN edited = 1 .. n /\ Len(edited) = n
  BY <1>2
<1>4. ASSUME NEW i \in 1 .. n
      PROVE  /\ edited[i] = Record(edited[i].key, edited[i].decision)
             /\ edited[i].key = trace[i].key
             /\ edited[i].decision = IF trace[i].key \in removed THEN Allow ELSE trace[i].decision
  <2>1. PICK key, decision : key = trace[i].key /\ decision = trace[i].decision
    OBVIOUS
  <2>2. PICK record : record = trace[i]
    OBVIOUS
  <2>3. record = Record(key, decision)
    BY <1>1, <2>1, <2>2 DEF InKeyOrder
  <2>4. record = [key |-> key, kind |-> "deliver", decision |-> decision]
    BY <2>3 DEF Record
  <2>5. [record EXCEPT !.decision = Allow] = [key |-> key, kind |-> "deliver", decision |-> Allow]
    BY <2>4
  <2>6. edited[i] = IF key \in removed THEN [record EXCEPT !.decision = Allow] ELSE record
    BY <1>2, <2>1, <2>2
  <2>7. CASE key \in removed
    <3>1. edited[i] = [key |-> key, kind |-> "deliver", decision |-> Allow]
      BY <2>5, <2>6, <2>7
    <3>2. edited[i].key = key /\ edited[i].decision = Allow
      BY <3>1
    <3>3. QED
      BY <2>1, <2>7, <3>1, <3>2 DEF Record
  <2>8. CASE key \notin removed
    <3>1. edited[i] = [key |-> key, kind |-> "deliver", decision |-> decision]
      BY <2>4, <2>6, <2>8
    <3>2. edited[i].key = key /\ edited[i].decision = decision
      BY <3>1
    <3>3. QED
      BY <2>1, <2>8, <3>1, <3>2 DEF Record
  <2>9. QED
    BY <2>7, <2>8
<1>5. KeysIn(edited) = KeysIn(trace)
  BY <1>1, <1>3, <1>4 DEF KeysIn
<1>6. \A i \in 1 .. n : edited[i].key \in Pairs
  BY <1>1, <1>4 DEF InKeyOrder
<1>7. \A i, j \in 1 .. n : i < j => Earlier(edited[i].key, edited[j].key)
  BY <1>1, <1>4 DEF InKeyOrder
<1>8. InKeyOrder(edited)
  <2>1. \A i \in 1 .. n : edited[i] = Record(edited[i].key, edited[i].decision)
    BY <1>4
  <2>2. edited = [i \in 1 .. n |-> edited[i]]
    BY <1>2
  <2>3. QED
    BY <1>3, <1>6, <1>7, <2>1, <2>2 DEF InKeyOrder
<1>9. QED
  BY <1>1, <1>3, <1>4, <1>5, <1>8

\* What the shrinker comes back with carries out no decision the failure did not.
LEMMA EditedPerturbs ==
    ASSUME NEW trace, InKeyOrder(trace), NEW removed
    PROVE  ActiveKeys(Follow(Without(trace, removed))) \subseteq ActiveKeys(trace)
<1>1. PICK edited : edited = Without(trace, removed)
  OBVIOUS
<1>2. /\ InKeyOrder(edited) /\ KeysIn(edited) = KeysIn(trace) /\ DOMAIN edited = DOMAIN trace
      /\ \A i \in DOMAIN trace :
             /\ edited[i].key = trace[i].key
             /\ edited[i].decision = IF trace[i].key \in removed THEN Allow ELSE trace[i].decision
  BY <1>1, WithoutIs
<1>3. SUFFICES ASSUME NEW key \in ActiveKeys(Follow(edited))
               PROVE  key \in ActiveKeys(trace)
  BY <1>1
<1>4. key \in KeysIn(edited) /\ DecisionAt(edited, key) # Allow
  BY <1>3, FollowPerturbs
<1>5. PICK i \in DOMAIN trace : edited[i].key = key
  BY <1>2, <1>4 DEF KeysIn
<1>6. edited[i].decision # Allow
  BY <1>2, <1>4, <1>5, DecisionIs
<1>7. trace[i].key = key /\ trace[i].decision # Allow
  BY <1>2, <1>5, <1>6
<1>8. PICK places : places = {j \in DOMAIN trace : trace[j].decision # Allow}
  OBVIOUS
<1>9. ActiveKeys(trace) = KeysAt(trace, places)
  BY <1>8, ActiveIs
<1>10. QED
  BY <1>7, <1>8, <1>9 DEF KeysAt

LEMMA NothingRemoved ==
    ASSUME NEW trace, InKeyOrder(trace)
    PROVE  Without(trace, {}) = trace
<1>1. PICK n \in Nat : n = Len(trace) /\ DOMAIN trace = 1 .. n
  BY DEF InKeyOrder
<1>2. Without(trace, {}) = [i \in 1 .. n |-> trace[i]]
  BY <1>1 DEF Without
<1>3. trace = [i \in 1 .. n |-> trace[i]]
  BY <1>1 DEF InKeyOrder
<1>4. QED
  BY <1>2, <1>3

-----------------------------------------------------------------------------
\* A replay that goes through the forks of its trace, and no others, carries it out.

LEMMA FollowsToTheEnd ==
    ASSUME NEW trace, NEW run, run = Follow(trace), KeysIn(run) = KeysIn(trace)
    PROVE  CarriesOut(trace, run)
<1>1. run = TraceOf(Replayed(trace))
  BY FollowIs
<1>2. KeysIn(run) = Reached(Replayed(trace))
      /\ \A i \in DOMAIN run : run[i].decision = Replayed(trace)[run[i].key]
  BY <1>1, TraceInKeyOrder
<1>3. ASSUME NEW i \in DOMAIN run
      PROVE  run[i].decision = DecisionAt(trace, run[i].key)
  <2>1. PICK key : key = run[i].key
    OBVIOUS
  <2>2. key \in KeysIn(run)
    BY <2>1 DEF KeysIn
  <2>3. key \in Keys /\ key \in KeysIn(trace)
    BY <1>2, <2>2 DEF Reached
  <2>4. QED
    BY <1>2, <2>1, <2>3 DEF Replayed, Answer
<1>4. QED
  BY <1>3 DEF CarriesOut

-----------------------------------------------------------------------------
\* Trace files.

LEMMA RecordIs ==
    ASSUME NEW key, NEW decision, NEW record, record = Record(key, decision)
    PROVE  record # Torn /\ ~IsHeader(record)
<1>1. DOMAIN record = {"key", "kind", "decision"}
  BY DEF Record
<1>2. DOMAIN Torn = {"torn"}
  BY DEF Torn
<1>3. "torn" \notin {"key", "kind", "decision"}
  OBVIOUS
<1>4. record # Torn
  BY <1>1, <1>2, <1>3
<1>5. QED
  BY <1>1, <1>4 DEF IsHeader

LEMMA HeaderIs == Header # Torn /\ IsHeader(Header) /\ Header.format = 1
<1>1. DOMAIN Header = {"format"} /\ Header.format = 1
  BY DEF Header, FormatVersion
<1>2. DOMAIN Torn = {"torn"}
  BY DEF Torn
<1>3. "torn" \notin {"format"}
  OBVIOUS
<1>4. QED
  BY <1>1, <1>2, <1>3 DEF IsHeader

\* The lines that are written of a trace: its header, then its records.
HeadedBy(trace, n, lines) ==
    /\ lines \in Seq({Header} \cup Range(trace)) /\ Len(lines) = n + 1
    /\ lines[1] = Header /\ \A i \in 1 .. n : lines[i + 1] = trace[i]

LEMMA SaveIs ==
    ASSUME NEW trace, InKeyOrder(trace), NEW n \in Nat, n = Len(trace),
           NEW lines, lines = Save(trace)
    PROVE  HeadedBy(trace, n, lines)
<1> DEFINE S == {Header} \cup Range(trace)
<1>1. trace = [i \in 1 .. n |-> trace[i]] /\ DOMAIN trace = 1 .. n
  BY DEF InKeyOrder
<1>2. \A i \in 1 .. n : trace[i] \in S
  BY <1>1 DEF Range
<1>3. PICK T : T = S
  OBVIOUS
<1>4. trace \in Seq(T)
  <2>1. \A i \in 1 .. n : trace[i] \in T
    BY <1>2, <1>3
  <2> HIDE DEF S
  <2>2. trace \in [1 .. n -> T]
    BY <1>1, <2>1
  <2>3. QED
    BY <2>2
<1>5. PICK first : first = Header
  OBVIOUS
<1>6. first \in T
  BY <1>3, <1>5
<1>7. lines = <<first>> \o trace
  BY <1>5 DEF Save
<1> HIDE DEF S
<1>8. /\ lines \in Seq(T) /\ Len(lines) = 1 + n
      /\ lines[1] = first /\ \A i \in 1 .. n : lines[i + 1] = trace[i]
  BY <1>4, <1>6, <1>7
<1>9. QED
  BY <1>3, <1>5, <1>8 DEF S, HeadedBy

LEMMA SaveReads ==
    ASSUME NEW trace, InKeyOrder(trace)
    PROVE  Readable(Save(trace)) /\ Load(Save(trace)) = trace
<1>1. PICK n \in Nat : n = Len(trace) /\ DOMAIN trace = 1 .. n
  BY DEF InKeyOrder
<1>2. PICK lines : lines = Save(trace)
  OBVIOUS
<1>3. PICK T : T = {Header} \cup Range(trace)
  OBVIOUS
<1>4. /\ lines \in Seq(T) /\ Len(lines) = n + 1
      /\ lines[1] = Header /\ \A i \in 1 .. n : lines[i + 1] = trace[i]
  <2>1. n \in Nat /\ n = Len(trace)
    BY <1>1
  <2>2. lines = Save(trace)
    BY <1>2
  <2>3. HeadedBy(trace, n, lines)
    BY <2>1, <2>2, SaveIs, Zenon
  <2>4. QED
    BY <1>3, <2>3 DEF HeadedBy
<1>5. \A i \in 1 .. n : trace[i] # Torn /\ ~IsHeader(trace[i])
  BY <1>1, RecordIs DEF InKeyOrder
<1>6. \A i \in 2 .. n + 1 : lines[i] # Torn /\ ~IsHeader(lines[i])
  <2>1. SUFFICES ASSUME NEW i \in 2 .. n + 1 PROVE lines[i] # Torn /\ ~IsHeader(lines[i])
    OBVIOUS
  <2>2. PICK j \in 1 .. n : i = j + 1
    <3>1. i - 1 \in 1 .. n /\ i = (i - 1) + 1
      OBVIOUS
    <3>2. QED
      BY <3>1
  <2>3. lines[i] = trace[j]
    BY <1>4, <2>2
  <2>4. QED
    BY <1>5, <2>3
<1>7. Readable(lines)
  <2>1. lines # <<>> /\ DOMAIN lines = 1 .. n + 1
    BY <1>4
  <2>2. \A i \in 1 .. n + 1 : i = 1 \/ i \in 2 .. n + 1
    OBVIOUS
  <2>3. \A i \in DOMAIN lines : lines[i] # Torn
    BY <1>4, <1>6, <2>1, <2>2, HeaderIs
  <2>4. IsHeader(lines[1]) /\ lines[1].format <= FormatVersion
    BY <1>4, HeaderIs DEF FormatVersion
  <2>5. QED
    BY <1>4, <1>6, <2>1, <2>3, <2>4 DEF Readable
<1>8. Load(lines) = trace
  <2>1. PICK rest : rest = Tail(lines)
    OBVIOUS
  <2>2. lines # <<>>
    BY <1>4
  <2>3. rest \in Seq(T) /\ Len(rest) = n /\ \A i \in 1 .. n : rest[i] = lines[i + 1]
    BY <1>4, <2>1, <2>2
  <2>4. rest = [i \in 1 .. n |-> rest[i]]
    BY <2>3
  <2>5. trace = [i \in 1 .. n |-> trace[i]]
    BY <1>1 DEF InKeyOrder
  <2>6. \A i \in 1 .. n : rest[i] = trace[i]
    BY <1>4, <2>3
  <2>7. rest = trace
    BY <2>4, <2>5, <2>6
  <2>8. QED
    BY <2>1, <2>7 DEF Load
<1>9. QED
  BY <1>2, <1>7, <1>8

-----------------------------------------------------------------------------
\* The invariant.

Once == {"run", "replay", "shrink"}
Ran == {"write", "judge", "shrinking", "verify", "report", "rewrite", "failed"}
Found == {"shrinking", "verify", "report", "rewrite", "failed"}
Outcomes == {"passed", "violated", "error"}

\* A list, whatever it holds.
Listed(list) == list \in Seq(Range(list))

\* The commands still to come, and the stage of main the current one is at.
StageInv ==
    /\ Listed(script) /\ \A i \in DOMAIN script : IsCommand(script[i])
    /\ pc \in {"start", "exited"} \cup Once \cup Ran \cup {"check", "fuzz", "sweeping", "document"}
    /\ pc # "start" => script # <<>>
    /\ pc \in {"check", "fuzz"} \cup Once => command.name = pc
    /\ pc \in {"write", "rewrite"} => command.name = "run" /\ command.trace # None
    /\ pc = "judge" => command.name \in Once
    /\ pc \in {"shrinking", "verify", "report"} => command.name \in {"run", "shrink", "fuzz"}
    /\ pc = "failed" => command.name \in {"run", "shrink"}
    /\ pc \in {"sweeping", "document"} => command.name = "fuzz"

\* What check promised, and what may be refused after it.
PromiseInv ==
    /\ promised \/ pc = "check" =>
           Resolves(Scenery) /\ VendorsResolve(Scenery, setting.corpus)
    /\ promised => AllMarkedGood(Scenery, setting.build)
    /\ pc # "exited" => refused = None
    /\ CheckForetells

\* How the runs of a command ended; those of a sweep, one by one.
Tallies(kinds, items) ==
    /\ DOMAIN kinds = DOMAIN items
    /\ \A i \in DOMAIN items : items[i].result.kind = kinds[i]
ResultsInv ==
    /\ results \in Seq(Outcomes)
    /\ pc \in {"start", "check", "fuzz"} \cup Once => results = <<>>
    /\ pc \in Ran => command.name = "fuzz" \/ results = <<Kind(outcome.violations)>>
    /\ pc \in Found => ~Passed(outcome)
    /\ pc \in {"shrinking", "verify", "report", "sweeping", "document"} /\ command.name = "fuzz" =>
           Tallies(results, ended)

\* The seeds of a sweep and the places of its runs among them.
SweepInv ==
    /\ mine \in Seq(Nat) /\ launched \in 0 .. Len(mine) /\ flying \in SUBSET (1 .. launched)
    /\ Listed(ended) /\ \A i \in DOMAIN ended : ended[i].at \in DOMAIN mine

\* A trace is a recording, and what it broke is known for good, of a steady system.
IsRun(trace, violations, steady, table) ==
    /\ Recorded(trace) /\ violations \in Verdicts
    /\ steady => trace \in DOMAIN table /\ table[trace] = violations

KnownInv ==
    /\ \A trace \in DOMAIN known : known[trace] \in Verdicts
    /\ ~setting.steady => known = <<>>
    /\ \A seed \in DOMAIN drawn : Recorded(drawn[seed])

\* A run of a sweep that ended: what it broke, unless it failed on its own account.
Ends(item, steady, table) ==
    item.result.kind # "error" =>
        /\ IsRun(item.result.trace, item.result.violations, steady, table)
        /\ item.result.kind = Kind(item.result.violations)
EndedInv == \A i \in DOMAIN ended : Ends(ended[i], setting.steady, known)

\* The run that was asked for, and the file it was a replay of.
OutcomeInv ==
    /\ pc \in {"replay", "shrink"} => Loadable
    /\ pc \in Ran => IsRun(outcome.trace, outcome.violations, setting.steady, known)
    /\ pc \in {"judge", "shrinking", "verify", "report"} /\ command.name \in {"replay", "shrink"} =>
           Loadable /\ outcome.trace = Follow(Load(file))

\* The run that is reported in its place.
KeptOf(run, original, steady, table) ==
    /\ IsRun(run.trace, run.violations, steady, table) /\ run.violations # <<>>
    /\ ActiveKeys(run.trace) \subseteq ActiveKeys(original.trace)
    /\ steady => original.violations[1] \in ToSet(run.violations)
IsKept == KeptOf(shrunk, outcome, setting.steady, known)
IsCandidate ==
    /\ \E removed \in SUBSET ActiveKeys(outcome.trace) :
           candidate = Without(outcome.trace, removed)
    /\ setting.steady => /\ Follow(candidate) \in DOMAIN known
                         /\ Target \in ToSet(known[Follow(candidate)])
Unshrunk == {"start", "write", "judge", "shrinking", "verify"} \cup Once
ShrinkInv ==
    /\ pc \in Unshrunk => shrunk = None
    /\ shrunk # None => IsKept
    /\ pc \in {"report", "failed"} /\ command.name = "shrink" => IsKept
    /\ pc = "verify" => IsCandidate

\* A reproducer names at most the decisions it counts.
Counts(report) == Len(report.reproducer.steps) <= report.reproducer.original
ReportsInv == Listed(reports) /\ \A i \in DOMAIN reports : Counts(reports[i])

\* The file that was written, at each stage.
FileInv ==
    /\ whole => Readable(file) /\ Recorded(Load(file))
    /\ pc \in {"judge", "shrinking", "verify", "report"} /\ command.name = "run"
              /\ command.trace = "file" =>
           Load(file) = outcome.trace
    /\ pc = "rewrite" => shrunk # None
    /\ pc = "failed" /\ command.name = "run" /\ command.trace = "file" =>
           Load(file) = Reported.trace
    /\ pc = "failed" /\ command.name = "shrink" /\ command.out = "file" =>
           Load(file) = shrunk.trace

CampaignInv ==
    /\ StageInv /\ PromiseInv /\ ResultsInv /\ SweepInv /\ KnownInv /\ EndedInv /\ OutcomeInv
    /\ ShrinkInv /\ ReportsInv /\ FileInv
    /\ ExitTellsTheTruth /\ WrittenTraceReplays

-----------------------------------------------------------------------------
\* Lists.

LEMMA ListedIs ==
    ASSUME NEW list, Listed(list)
    PROVE  Len(list) \in Nat /\ DOMAIN list = 1 .. Len(list)
BY DEF Listed

LEMMA AppendListed ==
    ASSUME NEW list, Listed(list), NEW item, NEW longer, longer = Append(list, item)
    PROVE  /\ Listed(longer) /\ Range(longer) = Range(list) \cup {item}
           /\ Len(longer) = Len(list) + 1 /\ longer[Len(list) + 1] = item
           /\ \A i \in DOMAIN list : i \in DOMAIN longer /\ longer[i] = list[i]
<1>1. PICK S : S = Range(list) \cup {item}
  OBVIOUS
<1>2. list \in Seq(S) /\ item \in S
  <2>1. PICK R : R = Range(list)
    OBVIOUS
  <2>2. list \in Seq(R) /\ R \subseteq S
    BY <1>1, <2>1 DEF Listed
  <2>3. QED
    BY <1>1, <2>2
<1>3. PICK n \in Nat : n = Len(list) /\ DOMAIN list = 1 .. n
  BY <1>2
<1>4. /\ longer \in Seq(S) /\ Len(longer) = n + 1 /\ DOMAIN longer = 1 .. n + 1
      /\ longer[n + 1] = item /\ \A i \in 1 .. n : longer[i] = list[i]
  BY <1>2, <1>3
<1>5. Range(longer) = S
  <2>1. \A x \in Range(longer) : x \in S
    BY <1>4 DEF Range
  <2>2. \A x \in Range(list) : x \in Range(longer)
    BY <1>3, <1>4 DEF Range
  <2>3. item \in Range(longer)
    BY <1>4 DEF Range
  <2>4. QED
    BY <1>1, <2>1, <2>2, <2>3
<1>6. Listed(longer)
  BY <1>4, <1>5 DEF Listed
<1>7. QED
  BY <1>1, <1>3, <1>4, <1>5, <1>6

\* A list of n items is one.
LEMMA FunctionListed ==
    ASSUME NEW n \in Nat, NEW list, list = [i \in 1 .. n |-> list[i]]
    PROVE  Listed(list) /\ Len(list) = n
<1>1. PICK R : R = Range(list)
  OBVIOUS
<1>2. DOMAIN list = 1 .. n
  BY Zenon
<1>3. \A i \in 1 .. n : list[i] \in R
  BY <1>1, <1>2 DEF Range
<1>4. list \in [1 .. n -> R]
  BY <1>3
<1>5. list \in Seq(R) /\ Len(list) = n
  BY <1>4
<1>6. QED
  BY <1>1, <1>5 DEF Listed

LEMMA SequenceListed ==
    ASSUME NEW S, NEW list, list \in Seq(S)
    PROVE  Listed(list)
<1>1. PICK n \in Nat : n = Len(list)
  OBVIOUS
<1>2. list = [i \in 1 .. n |-> list[i]]
  BY <1>1
<1>3. QED
  BY <1>2, FunctionListed

LEMMA TailListed ==
    ASSUME NEW list, Listed(list), list # <<>>, NEW rest, rest = Tail(list)
    PROVE  Listed(rest) /\ Range(rest) \subseteq Range(list)
<1>1. PICK S : S = Range(list)
  OBVIOUS
<1>2. list \in Seq(S)
  BY <1>1 DEF Listed
<1>3. rest \in Seq(S)
  BY <1>2
<1>4. \A x \in Range(rest) : x \in S
  BY <1>3 DEF Range
<1>5. Listed(rest)
  BY <1>3, SequenceListed
<1>6. QED
  BY <1>1, <1>4, <1>5

LEMMA ConcatListed ==
    ASSUME NEW list, Listed(list), NEW more, Listed(more), NEW longer, longer = list \o more
    PROVE  Listed(longer) /\ Range(longer) = Range(list) \cup Range(more)
<1>1. PICK S : S = Range(list) \cup Range(more)
  OBVIOUS
<1>2. list \in Seq(S) /\ more \in Seq(S)
  <2>1. PICK R, T : R = Range(list) /\ T = Range(more)
    OBVIOUS
  <2>2. list \in Seq(R) /\ more \in Seq(T) /\ R \subseteq S /\ T \subseteq S
    BY <1>1, <2>1 DEF Listed
  <2>3. QED
    BY <2>2
<1>3. PICK n \in Nat, m \in Nat :
          n = Len(list) /\ DOMAIN list = 1 .. n /\ m = Len(more) /\ DOMAIN more = 1 .. m
  BY <1>2
<1>4. /\ longer \in Seq(S) /\ Len(longer) = n + m /\ DOMAIN longer = 1 .. n + m
      /\ \A i \in 1 .. n : longer[i] = list[i]
      /\ \A i \in 1 .. m : longer[n + i] = more[i]
  <2>1. longer \in Seq(S) /\ Len(longer) = n + m
    BY <1>2, <1>3
  <2>2. \A i \in 1 .. n : longer[i] = list[i]
    BY <1>2, <1>3
  <2>3. \A i \in 1 .. m : longer[n + i] = more[i]
    BY <1>2, <1>3
  <2>4. QED
    BY <2>1, <2>2, <2>3
<1>5. Range(longer) = S
  <2>1. \A x \in Range(longer) : x \in S
    BY <1>4 DEF Range
  <2>2. \A x \in Range(list) : x \in Range(longer)
    <3>1. \A i \in 1 .. n : i \in DOMAIN longer
      BY <1>4
    <3>2. QED
      BY <1>3, <1>4, <3>1 DEF Range
  <2>3. \A x \in Range(more) : x \in Range(longer)
    <3>1. \A i \in 1 .. m : n + i \in DOMAIN longer
      BY <1>4
    <3>2. \A x \in Range(more) : \E i \in 1 .. m : x = more[i]
      BY <1>3 DEF Range
    <3>3. \A x \in Range(more) : \E k \in DOMAIN longer : longer[k] = x
      <4>1. TAKE x \in Range(more)
      <4>2. PICK i \in 1 .. m : x = more[i]
        BY <3>2
      <4>3. n + i \in DOMAIN longer /\ longer[n + i] = x
        BY <1>4, <3>1, <4>2
      <4>4. QED
        BY <4>3
    <3>4. QED
      BY <3>3 DEF Range
  <2>4. QED
    BY <1>1, <2>1, <2>2, <2>3
<1>6. Listed(longer)
  BY <1>4, <1>5 DEF Listed
<1>7. QED
  BY <1>1, <1>5, <1>6

-----------------------------------------------------------------------------
\* Commands, settings and stages.

LEMMA CommandNames ==
    ASSUME NEW wanted, IsCommand(wanted)
    PROVE  wanted.name \in {"check", "run", "fuzz", "replay", "shrink", "mistyped"}
BY DEF IsCommand, OptionsOf

LEMMA SettingStays == Next => setting' = setting
BY DEF Next, Prepare, PrepareFails, Usage, NextCommand, Check, Execute, ExecuteFails, WriteTrace,
       JudgeRun, JudgeReplay, JudgeShrink, Shrink, ShrinkFails, Verify, ReportRun, RewriteTrace,
       ReportShrink, Fail, Sweeping, LaunchRun, FinishRun, FinishRunFails, ShrinkNext,
       ReportFailure, Summarise, WriteDocument

LEMMA ScriptStays == Next => script' = script \/ NextCommand
BY DEF Next, Prepare, PrepareFails, Usage, NextCommand, Check, Execute, ExecuteFails, WriteTrace,
       JudgeRun, JudgeReplay, JudgeShrink, Shrink, ShrinkFails, Verify, ReportRun, RewriteTrace,
       ReportShrink, Fail, Sweeping, LaunchRun, FinishRun, FinishRunFails, ShrinkNext,
       ReportFailure, Summarise, WriteDocument

\* The stage after each step.
LEMMA StageStays ==
    ASSUME StageInv, Next, ~NextCommand
    PROVE  StageInv'
<1>1. script' = script /\ command' = command
  BY ScriptStays DEF command
<1>2. Listed(script') /\ \A i \in DOMAIN script' : IsCommand(script'[i])
  BY <1>1 DEF StageInv
<1> DEFINE After ==
    /\ pc' \in {"start", "exited"} \cup Once \cup Ran \cup {"check", "fuzz", "sweeping", "document"}
    /\ pc' # "start" => script # <<>>
    /\ pc' \in {"check", "fuzz"} \cup Once => command.name = pc'
    /\ pc' \in {"write", "rewrite"} => command.name = "run" /\ command.trace # None
    /\ pc' = "judge" => command.name \in Once
    /\ pc' \in {"shrinking", "verify", "report"} => command.name \in {"run", "shrink", "fuzz"}
    /\ pc' = "failed" => command.name \in {"run", "shrink"}
    /\ pc' \in {"sweeping", "document"} => command.name = "fuzz"
<1>3. After
  <2>1. CASE Prepare
    BY <2>1, CommandNames, ListedIs DEF Prepare, StageInv, Once, Ran, Refuse, Exit, command
  <2>2. CASE PrepareFails \/ Check \/ ExecuteFails \/ Fail
    BY <2>2 DEF PrepareFails, Usage, Check, ExecuteFails, Fail, StageInv, Once, Ran, Refuse, Exit
  <2>3. CASE Execute
    BY <2>3 DEF Execute, StageInv, Once, Ran
  <2>4. CASE WriteTrace \/ RewriteTrace \/ ReportShrink
    BY <2>4 DEF WriteTrace, RewriteTrace, ReportShrink, Write, StageInv, Once, Ran, Refuse,
       Exit
  <2>5. CASE JudgeRun \/ JudgeReplay \/ JudgeShrink
    BY <2>5 DEF JudgeRun, JudgeReplay, JudgeShrink, StageInv, Once, Ran, Refuse, Exit
  <2>6. CASE Shrink
    BY <2>6 DEF Shrink, StageInv, Once, Ran
  <2>7. CASE ShrinkFails \/ Verify
    BY <2>7 DEF ShrinkFails, Verify, GiveUpShrinking, StageInv, Once, Ran, Refuse, Exit
  <2>8. CASE ReportRun \/ ReportFailure
    BY <2>8 DEF ReportRun, ReportFailure, StageInv, Once, Ran
  <2>9. CASE Sweeping \/ LaunchRun \/ FinishRun \/ FinishRunFails \/ ShrinkNext
    BY <2>9 DEF Sweeping, LaunchRun, FinishRun, FinishRunFails, ShrinkNext, StageInv, Once, Ran
  <2>10. CASE Summarise \/ WriteDocument
    BY <2>10 DEF Summarise, WriteDocument, StageInv, Once, Ran, Refuse, Exit
  <2>11. QED
    BY <2>1, <2>2, <2>3, <2>4, <2>5, <2>6, <2>7, <2>8, <2>9, <2>10 DEF Next
<1>4. QED
  BY <1>1, <1>2, <1>3 DEF StageInv

LEMMA StageStep ==
    ASSUME StageInv, Next
    PROVE  StageInv'
<1>1. CASE ~NextCommand
  BY <1>1, StageStays
<1>2. CASE NextCommand
  <2>1. script # <<>> /\ Listed(script) /\ script' = Tail(script) /\ pc' = "start"
    BY <1>2 DEF NextCommand, StageInv
  <2>2. Listed(script') /\ Range(script') \subseteq Range(script)
    BY <2>1, TailListed
  <2>3. \A item \in Range(script) : IsCommand(item)
    BY DEF Range, StageInv
  <2>4. \A i \in DOMAIN script' : script'[i] \in Range(script)
    BY <2>2 DEF Range
  <2>5. \A i \in DOMAIN script' : IsCommand(script'[i])
    BY <2>3, <2>4
  <2>6. QED
    BY <2>1, <2>2, <2>5 DEF StageInv, Once, Ran
<1>3. QED
  BY <1>1, <1>2

-----------------------------------------------------------------------------
\* What check promises.

LEMMA RefusalIs ==
    ASSUME NEW s, NEW build, NEW corpus, NEW resolvesVendors, NEW stage,
           stage = RefusedAt(s, build, corpus, resolvesVendors)
    PROVE  /\ stage = "resolve" => ~Resolves(s)
           /\ stage = "vendors" => resolvesVendors /\ ~VendorsResolve(s, corpus)
           /\ stage = "build" => ~Builds(s, build)
           /\ stage = "egress" => ~BindsEgress(s, build)
           /\ stage # "resolve" => Resolves(s)
           /\ stage # "resolve" /\ stage # "vendors" /\ resolvesVendors =>
                  VendorsResolve(s, corpus)
BY NoneAssumption DEF RefusedAt, Stages

LEMMA BuildFails ==
    ASSUME NEW s, NEW build, AllMarkedGood(s, build), ~Builds(s, build)
    PROVE  \E i \in DOMAIN s.invariants : ~BuildsUser(s.invariants[i], build)
<1>1. PICK i \in DOMAIN s.invariants :
          IF s.invariants[i].builtin # None THEN ~BuildsBuiltin(s.invariants[i].builtin, build)
          ELSE ~BuildsUser(s.invariants[i], build)
  BY DEF Builds
<1>2. Mark(s.invariants[i], build) = "good"
  BY DEF AllMarkedGood
<1>3. s.invariants[i].builtin # None => Available(s.invariants[i].builtin, build)
  BY <1>2 DEF Mark
<1>4. QED
  BY <1>1, <1>3 DEF BuildsBuiltin

LEMMA PromiseStays == Next => promised' = promised \/ Check
BY DEF Next, Prepare, PrepareFails, Usage, NextCommand, Check, Execute, ExecuteFails, WriteTrace,
       JudgeRun, JudgeReplay, JudgeShrink, Shrink, ShrinkFails, Verify, ReportRun, RewriteTrace,
       ReportShrink, Fail, Sweeping, LaunchRun, FinishRun, FinishRunFails, ShrinkNext,
       ReportFailure, Summarise, WriteDocument

\* A step says where it refused what it refuses, and the shell forgets it.
LEMMA RefusedHow ==
    ASSUME Next
    PROVE  \/ refused' = refused /\ (pc' = "exited" => pc # "exited")
           \/ pc' # "exited" /\ refused' = None
           \/ Prepare /\ pc' = "exited"
           \/ ExecuteFails /\ pc' = "exited"
           \/ pc' = "exited" /\ refused' \notin Stages
<1>1. CASE Prepare
  BY <1>1 DEF Prepare, Refuse, Exit
<1>2. CASE ExecuteFails
  BY <1>2 DEF ExecuteFails, Refuse, Exit
<1>3. CASE PrepareFails \/ NextCommand \/ Check \/ Execute \/ Fail
  BY <1>3 DEF PrepareFails, Usage, NextCommand, Check, Execute, Fail, Refuse, Exit, Stages
<1>4. CASE WriteTrace \/ RewriteTrace \/ ReportShrink
  BY <1>4 DEF WriteTrace, RewriteTrace, ReportShrink, Write, Refuse, Exit, Stages
<1>5. CASE JudgeRun \/ JudgeReplay \/ JudgeShrink
  BY <1>5 DEF JudgeRun, JudgeReplay, JudgeShrink, Refuse, Exit, Stages
<1>6. CASE Shrink \/ ShrinkFails \/ Verify
  BY <1>6 DEF Shrink, ShrinkFails, Verify, GiveUpShrinking, Refuse, Exit, Stages
<1>7. CASE ReportRun \/ ReportFailure \/ Sweeping \/ LaunchRun \/ FinishRun \/ FinishRunFails
  BY <1>7 DEF ReportRun, ReportFailure, Sweeping, LaunchRun, FinishRun, FinishRunFails
<1>8. CASE ShrinkNext \/ Summarise \/ WriteDocument
  BY <1>8 DEF ShrinkNext, Summarise, WriteDocument, Refuse, Exit, Stages
<1>9. QED
  BY <1>1, <1>2, <1>3, <1>4, <1>5, <1>6, <1>7, <1>8 DEF Next

\* What is promised of a scenario is true of it.
Promised ==
    /\ promised \/ pc = "check" => Resolves(Scenery) /\ VendorsResolve(Scenery, setting.corpus)
    /\ promised => AllMarkedGood(Scenery, setting.build)

LEMMA PromiseIsTrue ==
    ASSUME StageInv, PromiseInv, Next
    PROVE  Promised'
<1>1. setting' = setting /\ Promised
  BY SettingStays DEF PromiseInv, Promised
<1>2. CASE Check
  BY <1>1, <1>2 DEF Check, Exit, Promised, Scenery
<1>3. CASE Prepare
  <2>1. promised' = promised
    BY <1>3 DEF Prepare
  <2>2. ASSUME pc' = "check"
        PROVE  Resolves(Scenery) /\ VendorsResolve(Scenery, setting.corpus)
    <3>1. PICK stage : stage = RefusedHere(~LoadsTrace)
      OBVIOUS
    <3>2. stage \notin {"resolve", "vendors"} /\ pc' = command.name
      BY <1>3, <2>2, <3>1 DEF Prepare, Refuse, Exit
    <3>3. ~LoadsTrace
      BY <2>2, <3>2 DEF LoadsTrace
    <3>4. stage = RefusedAt(Scenery, setting.build, setting.corpus, ~LoadsTrace)
      BY <3>1 DEF RefusedHere
    <3>5. QED
      BY <3>2, <3>3, <3>4, RefusalIs
  <2>3. QED
    BY <1>1, <2>1, <2>2 DEF Promised, Scenery
<1>4. CASE ~Check /\ ~Prepare
  <2>1. promised' = promised
    BY <1>4, PromiseStays
  <2>2. pc' = "check" => pc = "check"
    <3>1. CASE PrepareFails \/ NextCommand \/ ExecuteFails \/ Execute \/ Fail
      BY <3>1 DEF PrepareFails, Usage, NextCommand, ExecuteFails, Execute, Fail, Refuse, Exit
    <3>2. CASE WriteTrace \/ RewriteTrace \/ ReportShrink
      BY <3>2 DEF WriteTrace, RewriteTrace, ReportShrink, Write, Refuse, Exit
    <3>3. CASE JudgeRun \/ JudgeReplay \/ JudgeShrink \/ Shrink \/ ShrinkFails \/ Verify
      BY <3>3 DEF JudgeRun, JudgeReplay, JudgeShrink, Shrink, ShrinkFails, Verify,
                  GiveUpShrinking, Refuse, Exit
    <3>4. CASE ReportRun \/ ReportFailure \/ Sweeping \/ LaunchRun \/ FinishRun
               \/ FinishRunFails
               \/ ShrinkNext \/ Summarise \/ WriteDocument
      BY <3>4 DEF ReportRun, ReportFailure, Sweeping, LaunchRun, FinishRun, FinishRunFails,
                  ShrinkNext, Summarise, WriteDocument, Refuse, Exit
    <3>5. QED
      BY <1>4, <3>1, <3>2, <3>3, <3>4 DEF Next
  <2>3. QED
    BY <1>1, <2>1, <2>2 DEF Promised, Scenery
<1>5. QED
  BY <1>2, <1>3, <1>4

LEMMA ForetoldStep ==
    ASSUME StageInv, PromiseInv, Next
    PROVE  CheckForetells'
<1>1. Promised' /\ setting' = setting
  BY PromiseIsTrue, SettingStays
<1>2. SUFFICES ASSUME promised'
               PROVE  /\ refused' \notin {"resolve", "vendors", "egress"}
                      /\ refused' = "build" =>
                            \E i \in DOMAIN Scenery.invariants :
                                ~BuildsUser(Scenery.invariants[i], setting.build)
  BY <1>1 DEF CheckForetells, Scenery
<1>3. /\ Resolves(Scenery) /\ VendorsResolve(Scenery, setting.corpus)
      /\ AllMarkedGood(Scenery, setting.build)
  BY <1>1, <1>2 DEF Promised, Scenery
<1>4. BindsEgress(Scenery, setting.build)
  BY <1>3 DEF AllMarkedGood
<1>5. ASSUME NEW resolvesVendors, refused' = RefusedHere(resolvesVendors)
      PROVE  /\ refused' \notin {"resolve", "vendors", "egress"}
             /\ refused' = "build" => ~Builds(Scenery, setting.build)
  BY <1>3, <1>4, <1>5, RefusalIs DEF RefusedHere
<1>6. CASE refused' = refused
  <2>1. CASE promised
    BY <1>1, <1>6, <2>1 DEF PromiseInv, CheckForetells, Scenery
  <2>2. CASE ~promised
    <3>1. Check
      BY <1>2, <2>2, PromiseStays
    <3>2. refused = None
      BY <3>1 DEF Check, PromiseInv
    <3>3. QED
      BY <1>6, <3>2, NoneAssumption DEF Stages
  <2>3. QED
    BY <2>1, <2>2
<1>7. CASE refused' = None \/ refused' \notin Stages
  BY <1>7, NoneAssumption DEF Stages
<1>8. CASE Prepare /\ pc' = "exited" /\ refused' # refused
  <2>1. refused' = RefusedHere(~LoadsTrace)
    BY <1>8 DEF Prepare, Refuse
  <2>2. QED
    BY <1>3, <1>5, <2>1, BuildFails
<1>9. CASE ExecuteFails
  <2>1. refused' = "harness" \/ refused' = RefusedHere(FALSE)
    BY <1>9 DEF ExecuteFails, Refuse
  <2>2. CASE refused' = "harness"
    BY <2>2
  <2>3. CASE refused' = RefusedHere(FALSE)
    BY <1>3, <1>5, <2>3, BuildFails
  <2>4. QED
    BY <2>1, <2>2, <2>3
<1>10. QED
  BY <1>6, <1>7, <1>8, <1>9, RefusedHow

LEMMA PromiseStep ==
    ASSUME StageInv, PromiseInv, Next
    PROVE  PromiseInv'
<1>1. Promised' /\ CheckForetells'
  BY PromiseIsTrue, ForetoldStep
<1>2. pc' # "exited" => refused' = None
  <2>1. pc # "exited" => refused = None
    BY DEF PromiseInv
  <2>2. pc = "exited" => pc' # "exited" /\ refused' = None
    <3>1. SUFFICES ASSUME pc = "exited" PROVE NextCommand
      BY DEF NextCommand
    <3>2. QED
      BY <3>1 DEF Next, Prepare, PrepareFails, Usage, Check, Execute, ExecuteFails, WriteTrace,
         JudgeRun, JudgeReplay, JudgeShrink, Shrink, ShrinkFails, Verify, ReportRun, RewriteTrace,
         ReportShrink, Fail, Sweeping, LaunchRun, FinishRun, FinishRunFails, ShrinkNext,
         ReportFailure, Summarise, WriteDocument
  <2>3. QED
    BY <2>1, <2>2, RefusedHow
<1>3. QED
  BY <1>1, <1>2 DEF PromiseInv, Promised

-----------------------------------------------------------------------------
\* What is known of a trace.

LEMMA LearnKeeps ==
    ASSUME KnownInv, NEW trace, NEW violations \in VerdictsOf(trace), Learn(trace, violations),
           setting' = setting
    PROVE  /\ violations \in Verdicts
           /\ \A t \in DOMAIN known : t \in DOMAIN known' /\ known'[t] = known[t]
           /\ \A t \in DOMAIN known' : known'[t] \in Verdicts
           /\ ~setting.steady => known' = <<>>
           /\ setting.steady => trace \in DOMAIN known' /\ known'[trace] = violations
<1>1. violations \in Verdicts /\ (trace \in DOMAIN known => violations = known[trace])
  BY DEF VerdictsOf, KnownInv
<1>2. CASE setting.steady
  <2>1. known' = Noted(known, trace, violations)
    BY <1>2 DEF Learn
  <2>2. PICK table, noted : table = known /\ noted = known'
    OBVIOUS
  <2>3. noted = Noted(table, trace, violations)
    BY <2>1, <2>2
  <2>4. /\ DOMAIN noted = DOMAIN table \cup {trace} /\ noted[trace] = violations
        /\ \A k \in DOMAIN table : k # trace => noted[k] = table[k]
    BY <2>3 DEF Noted
  <2>5. \A t \in DOMAIN table : table[t] \in Verdicts
    BY <2>2 DEF KnownInv
  <2>6. /\ \A t \in DOMAIN table : t \in DOMAIN noted /\ noted[t] = table[t]
        /\ \A t \in DOMAIN noted : noted[t] \in Verdicts
    BY <1>1, <2>2, <2>4, <2>5
  <2>7. QED
    BY <1>1, <1>2, <2>2, <2>4, <2>6
<1>3. CASE ~setting.steady
  <2>1. known' = known
    BY <1>3 DEF Learn
  <2>2. QED
    BY <1>1, <1>3, <2>1 DEF KnownInv
<1>4. QED
  BY <1>2, <1>3

LEMMA RunsStay == Next => UNCHANGED <<known, drawn>> \/ Execute \/ Shrink \/ Verify \/ FinishRun
BY DEF Next, Prepare, PrepareFails, Usage, NextCommand, Check, Execute, ExecuteFails, WriteTrace,
       JudgeRun, JudgeReplay, JudgeShrink, Shrink, ShrinkFails, Verify, ReportRun, RewriteTrace,
       ReportShrink, Fail, Sweeping, LaunchRun, FinishRun, FinishRunFails, ShrinkNext,
       ReportFailure, Summarise, WriteDocument, runVars

LEMMA Learned ==
    ASSUME Next
    PROVE  \/ known' = known
           \/ \E trace : \E violations \in VerdictsOf(trace) : Learn(trace, violations)
<1>1. CASE Execute
  BY <1>1 DEF Execute
<1>2. CASE Shrink
  BY <1>2 DEF Shrink
<1>3. CASE Verify
  BY <1>3 DEF Verify
<1>4. CASE FinishRun
  BY <1>4 DEF FinishRun
<1>5. QED
  BY <1>1, <1>2, <1>3, <1>4, RunsStay

LEMMA KnownGrows ==
    ASSUME KnownInv, Next
    PROVE  /\ \A t \in DOMAIN known : t \in DOMAIN known' /\ known'[t] = known[t]
           /\ \A t \in DOMAIN known' : known'[t] \in Verdicts
           /\ ~setting.steady => known' = <<>>
<1>1. CASE known' = known
  BY <1>1 DEF KnownInv
<1>2. CASE known' # known
  <2>1. PICK trace, violations : violations \in VerdictsOf(trace) /\ Learn(trace, violations)
    BY <1>2, Learned
  <2>2. setting' = setting
    BY SettingStays
  <2>3. QED
    BY <2>1, <2>2, LearnKeeps
<1>3. QED
  BY <1>1, <1>2

LEMMA RunStays ==
    ASSUME KnownInv, Next, NEW trace, NEW violations,
           IsRun(trace, violations, setting.steady, known)
    PROVE  IsRun(trace, violations, setting'.steady, known')
<1>1. setting' = setting
  BY SettingStays
<1>2. \A t \in DOMAIN known : t \in DOMAIN known' /\ known'[t] = known[t]
  BY KnownGrows
<1>3. QED
  BY <1>1, <1>2 DEF IsRun

LEMMA TracesRecorded ==
    ASSUME KnownInv, NEW seed, NEW trace \in TracesOf(seed)
    PROVE  Recorded(trace)
<1>1. CASE seed \in DOMAIN drawn
  BY <1>1 DEF TracesOf, KnownInv
<1>2. CASE seed \notin DOMAIN drawn
  <2>1. PICK choice : trace = TraceOf(choice)
    BY <1>2 DEF TracesOf, SeedTraces
  <2>2. QED
    BY <2>1, TraceIsRecorded
<1>3. QED
  BY <1>1, <1>2

LEMMA DrawnStays ==
    ASSUME KnownInv, NEW seed, NEW trace \in TracesOf(seed), drawn' = Noted(drawn, seed, trace)
    PROVE  \A s \in DOMAIN drawn' : Recorded(drawn'[s])
<1>1. Recorded(trace)
  BY TracesRecorded
<1>2. PICK table, noted : table = drawn /\ noted = drawn'
  OBVIOUS
<1>3. noted = Noted(table, seed, trace)
  BY <1>2
<1>4. /\ noted[seed] = trace
      /\ \A k \in DOMAIN noted : k = seed \/ (k \in DOMAIN table /\ noted[k] = table[k])
  BY <1>3 DEF Noted
<1>5. \A k \in DOMAIN table : Recorded(table[k])
  BY <1>2 DEF KnownInv
<1>6. \A k \in DOMAIN noted : Recorded(noted[k])
  BY <1>1, <1>4, <1>5
<1>7. QED
  BY <1>2, <1>6

LEMMA KnownStep ==
    ASSUME KnownInv, Next
    PROVE  KnownInv'
<1>1. setting' = setting /\ (~setting.steady => known' = <<>>)
      /\ \A t \in DOMAIN known' : known'[t] \in Verdicts
  BY SettingStays, KnownGrows
<1>2. \A s \in DOMAIN drawn' : Recorded(drawn'[s])
  <2>1. CASE drawn' = drawn
    BY <2>1 DEF KnownInv
  <2>2. CASE Execute /\ drawn' # drawn
    <3>1. PICK trace \in TracesOf(command.seed) : drawn' = Noted(drawn, command.seed, trace)
      BY <2>2 DEF Execute
    <3>2. QED
      BY <3>1, DrawnStays
  <2>3. CASE FinishRun
    <3>1. PICK at \in flying : \E trace \in TracesOf(mine[at]) :
             drawn' = Noted(drawn, mine[at], trace)
      BY <2>3 DEF FinishRun
    <3>2. QED
      BY <3>1, DrawnStays
  <2>4. CASE Shrink \/ Verify
    BY <2>1, <2>4 DEF Shrink, Verify
  <2>5. QED
    BY <2>1, <2>2, <2>3, <2>4, RunsStay
<1>3. QED
  BY <1>1, <1>2 DEF KnownInv

-----------------------------------------------------------------------------
\* A sweep.

LEMMA AppendAt ==
    ASSUME NEW list, Listed(list), NEW item, NEW longer, longer = Append(list, item)
    PROVE  \A i \in DOMAIN longer : \/ i \in DOMAIN list /\ longer[i] = list[i]
                                    \/ i = Len(list) + 1 /\ longer[i] = item
<1>1. PICK n \in Nat : n = Len(list) /\ DOMAIN list = 1 .. n
  BY ListedIs
<1>2. Len(longer) = n + 1 /\ Listed(longer) /\ longer[n + 1] = item
      /\ \A i \in 1 .. n : longer[i] = list[i]
  <2>1. Len(longer) = Len(list) + 1 /\ Listed(longer) /\ longer[Len(list) + 1] = item
    BY AppendListed
  <2>2. \A i \in DOMAIN list : i \in DOMAIN longer /\ longer[i] = list[i]
    BY AppendListed
  <2>3. QED
    BY <1>1, <2>1, <2>2
<1>3. DOMAIN longer = 1 .. n + 1
  BY <1>2, ListedIs
<1>4. \A i \in 1 .. n + 1 : i \in 1 .. n \/ i = n + 1
  OBVIOUS
<1>5. QED
  BY <1>1, <1>2, <1>3, <1>4

\* The failures of a sweep, in the order in which they are reported.
FailureOrder(set) == {pair \in set \X set : Sooner(pair[1], pair[2])}

LEMMA FailureOrderOrders ==
    ASSUME SweepInv, NEW set \in SUBSET DOMAIN ended
    PROVE  Orders(FailureOrder(set), set)
<1>1. PICK where : where = [i \in DOMAIN ended |-> mine[ended[i].at]]
  OBVIOUS
<1>2. \A i \in DOMAIN ended : i \in Nat
  BY ListedIs DEF SweepInv
<1>3. \A i \in DOMAIN ended : where[i] \in Nat
  BY <1>1 DEF SweepInv
<1>4. \A i, j \in DOMAIN ended :
          Sooner(i, j) <=> (where[i] < where[j] \/ (where[i] = where[j] /\ i < j))
  BY <1>1 DEF Sooner
<1>5. \A i, j \in set : <<i, j>> \in FailureOrder(set) <=> Sooner(i, j)
  BY DEF FailureOrder
<1>6. \A i \in DOMAIN ended : ~Sooner(i, i)
  BY <1>2, <1>3, <1>4
<1>7. \A i, j \in DOMAIN ended : i # j => Sooner(i, j) \/ Sooner(j, i)
  BY <1>2, <1>3, <1>4
<1>8. \A i, j, k \in DOMAIN ended : Sooner(i, j) /\ Sooner(j, k) => Sooner(i, k)
  BY <1>2, <1>3, <1>4
<1>9. QED
  BY <1>5, <1>6, <1>7, <1>8 DEF Orders

\* A run that ended with a violation.
Violating(run) == \E i \in DOMAIN ended : run = ended[i] /\ ended[i].result.kind = "violated"

LEMMA FailuresAre ==
    ASSUME SweepInv
    PROVE  /\ Listed(Failures) /\ Len(Failures) = Cardinality(Ended("violated"))
           /\ \A k \in DOMAIN Failures : Violating(Failures[k])
           /\ Failures = <<>> <=> Ended("violated") = {}
<1>1. PICK set : set = Ended("violated")
  OBVIOUS
<1>2. set \in SUBSET DOMAIN ended /\ \A i \in set : ended[i].result.kind = "violated"
  BY <1>1 DEF Ended
<1>3. PICK m \in Nat : DOMAIN ended = 1 .. m
  BY ListedIs DEF SweepInv
<1>4. IsFiniteSet(set) /\ Cardinality(set) \in Nat
  BY <1>2, <1>3, IntervalSize, FS_Subset, FS_CardinalityType
<1>5. PICK n \in Nat : n = Cardinality(set)
  BY <1>4
<1>6. PICK at : at = Ranked(set, Sooner)
  OBVIOUS
<1>7. \A x \in set : Below(FailureOrder(set), set, x) = {y \in set : Sooner(y, x)}
  BY <1>2 DEF Below, FailureOrder, Sooner
<1>8. \A k \in 1 .. n : (CHOOSE x \in set : Cardinality(Below(FailureOrder(set), set, x)) = k - 1)
                       = (CHOOSE x \in set : Cardinality({y \in set : Sooner(y, x)}) = k - 1)
  BY <1>7
<1>9. at = Listing(FailureOrder(set), set)
  BY <1>5, <1>6, <1>8 DEF Ranked, Listing
<1>10. Orders(FailureOrder(set), set)
  BY <1>2, FailureOrderOrders
<1>11. at \in [1 .. n -> set]
  BY <1>4, <1>5, <1>9, <1>10, ListingIs
<1>12. PICK list : list = Failures
  OBVIOUS
<1>13. list = [k \in 1 .. n |-> ended[at[k]]]
  BY <1>1, <1>5, <1>6, <1>12 DEF Failures
<1>14. \A k \in 1 .. n : Violating(list[k])
  BY <1>2, <1>11, <1>13 DEF Violating
<1>15. DOMAIN list = 1 .. n /\ list = [k \in 1 .. n |-> list[k]]
  BY <1>13
<1>16. Listed(list) /\ Len(list) = n
  BY <1>15, FunctionListed
<1>17. list = <<>> <=> set = {}
  <2>1. n = 0 <=> set = {}
    BY <1>4, <1>5, FS_EmptySet
  <2>2. list = <<>> <=> n = 0
    BY <1>16 DEF Listed
  <2>3. QED
    BY <2>1, <2>2
<1>18. QED
  BY <1>1, <1>5, <1>12, <1>14, <1>15, <1>16, <1>17

LEMMA MineIs ==
    ASSUME NEW start \in 0 .. Top, NEW count \in 0 .. Top, NEW shard
    PROVE  Mine(start, count, shard) \in Seq(Nat)
<1>1. PICK seeds : seeds = Seeds(start, count)
  OBVIOUS
<1>2. start \in Nat /\ count \in Nat /\ Top \in Nat
  BY TopAssumption
<1>3. PICK places : places = {i \in 1 .. count : Covers(shard, seeds[i])}
  OBVIOUS
<1>4. PICK some : some = Picked(seeds, places)
  OBVIOUS
<1>5. Mine(start, count, shard) = some
  BY <1>1, <1>3, <1>4 DEF Mine
<1>6. places \in SUBSET (1 .. count) /\ places \in SUBSET Nat
  BY <1>3
<1>7. IsFiniteSet(places) /\ Cardinality(places) \in Nat
  BY <1>2, <1>6, IntervalSize, FS_Subset, FS_CardinalityType
<1>8. PICK n \in Nat : n = Cardinality(places)
  BY <1>7
<1>9. DOMAIN some = 1 .. n /\ Range(some) = Chosen(seeds, places)
  BY <1>4, <1>6, <1>7, <1>8, PickedIs
<1>10. \A i \in 1 .. count : seeds[i] \in Nat
  <2>1. SUFFICES ASSUME NEW i \in 1 .. count PROVE seeds[i] \in Nat
    OBVIOUS
  <2>2. seeds[i] = Min({start + i - 1, Top})
    BY <1>1 DEF Seeds
  <2>3. PICK a \in Nat : a = start + i - 1
    BY <1>2
  <2>4. PICK least \in {a, Top} : \A x \in {a, Top} : least <= x
    BY <1>2
  <2>5. Min({a, Top}) \in {a, Top}
    BY <2>4 DEF Min
  <2>6. QED
    BY <1>2, <2>2, <2>3, <2>5
<1>11. \A x \in Range(some) : x \in Nat
  BY <1>6, <1>9, <1>10 DEF Chosen
<1>12. \A k \in 1 .. n : some[k] \in Nat
  BY <1>9, <1>11 DEF Range
<1>13. some = [k \in 1 .. n |-> some[k]]
  BY <1>4, <1>8 DEF Picked
<1>14. QED
  BY <1>5, <1>12, <1>13

LEMMA SweepStays ==
    Next => \/ UNCHANGED <<mine, launched, flying, ended>>
            \/ NextCommand \/ Sweeping \/ LaunchRun \/ FinishRun \/ FinishRunFails
BY DEF Next, Prepare, PrepareFails, Usage, NextCommand, Check, Execute, ExecuteFails, WriteTrace,
       JudgeRun, JudgeReplay, JudgeShrink, Shrink, ShrinkFails, Verify, ReportRun, RewriteTrace,
       ReportShrink, Fail, ShrinkNext, ReportFailure, Summarise, WriteDocument, sweepVars

LEMMA EndedSweep ==
    ASSUME SweepInv, NEW at, NEW result, NEW terminal, EndRun(at, result, terminal)
    PROVE  SweepInv'
<1>1. /\ at \in flying /\ mine' = mine /\ launched' = launched /\ flying' \in SUBSET flying
      /\ ended' = Append(ended, [at |-> at, result |-> result])
  BY DEF EndRun
<1>2. at \in DOMAIN mine
  <2>1. PICK n \in Nat : n = Len(mine) /\ DOMAIN mine = 1 .. n
    BY DEF SweepInv
  <2>2. launched \in 0 .. n /\ at \in 1 .. launched
    BY <1>1, <2>1 DEF SweepInv
  <2>3. QED
    BY <2>1, <2>2
<1>3. PICK item : item = [at |-> at, result |-> result]
  OBVIOUS
<1>4. PICK list, longer : list = ended /\ longer = ended'
  OBVIOUS
<1>5. Listed(list) /\ longer = Append(list, item)
  BY <1>1, <1>3, <1>4 DEF SweepInv
<1>6. Listed(longer)
  BY <1>5, AppendListed
<1>7. \A i \in DOMAIN longer : (i \in DOMAIN list /\ longer[i] = list[i]) \/ longer[i] = item
  BY <1>5, AppendAt
<1>8. \A i \in DOMAIN list : list[i].at \in DOMAIN mine
  BY <1>4 DEF SweepInv
<1>9. item.at = at
  BY <1>3
<1>10. \A i \in DOMAIN longer : longer[i].at \in DOMAIN mine
  BY <1>2, <1>7, <1>8, <1>9
<1>11. QED
  BY <1>1, <1>4, <1>6, <1>10 DEF SweepInv

LEMMA NothingListed == Listed(<<>>)
<1>1. <<>> \in Seq({})
  OBVIOUS
<1>2. QED
  BY <1>1, SequenceListed

LEMMA SweepStep ==
    ASSUME StageInv, SweepInv, Next
    PROVE  SweepInv'
<1>1. CASE UNCHANGED <<mine, launched, flying, ended>>
  BY <1>1 DEF SweepInv
<1>2. CASE NextCommand
  <2>1. mine' = <<>> /\ launched' = 0 /\ flying' = {} /\ ended' = <<>>
    BY <1>2 DEF NextCommand, ClearSweep
  <2>2. QED
    BY <2>1, NothingListed DEF SweepInv
<1>3. CASE Sweeping
  <2>1. /\ mine' = Mine(command.start, command.count, command.shard)
        /\ launched' = 0 /\ flying' = {} /\ ended' = <<>>
    BY <1>3 DEF Sweeping, StartSweep
  <2>2. IsCommand(command) /\ command.name = "fuzz"
    <3>1. 1 \in DOMAIN script
      BY <1>3, ListedIs DEF Sweeping, StageInv, Listed
    <3>2. QED
      BY <1>3, <3>1 DEF Sweeping, StageInv, command
  <2>3. command.start \in 0 .. Top /\ command.count \in 0 .. Top
    BY <2>2 DEF IsCommand
  <2>4. mine' \in Seq(Nat)
    BY <2>1, <2>3, MineIs
  <2>5. QED
    BY <2>1, <2>4, NothingListed DEF SweepInv
<1>4. CASE LaunchRun
  BY <1>4 DEF LaunchRun, Launch, SweepInv
<1>5. CASE FinishRun
  <2>1. PICK at, result : EndRun(at, result, setting.terminal)
    BY <1>5 DEF FinishRun
  <2>2. QED
    BY <2>1, EndedSweep
<1>6. CASE FinishRunFails
  <2>1. PICK at, result : EndRun(at, result, setting.terminal)
    BY <1>6 DEF FinishRunFails
  <2>2. QED
    BY <2>1, EndedSweep
<1>7. QED
  BY <1>1, <1>2, <1>3, <1>4, <1>5, <1>6, SweepStays

-----------------------------------------------------------------------------
\* How runs end.

LEMMA LearnedRun ==
    ASSUME KnownInv, NEW trace, Recorded(trace), NEW violations \in VerdictsOf(trace),
           Learn(trace, violations), setting' = setting
    PROVE  IsRun(trace, violations, setting'.steady, known')
<1>1. /\ violations \in Verdicts
      /\ setting.steady => trace \in DOMAIN known' /\ known'[trace] = violations
  BY LearnKeeps
<1>2. QED
  BY <1>1 DEF IsRun

LEMMA EndsStays ==
    ASSUME KnownInv, Next, NEW item, Ends(item, setting.steady, known)
    PROVE  Ends(item, setting'.steady, known')
<1>1. CASE item.result.kind = "error"
  BY <1>1 DEF Ends
<1>2. CASE item.result.kind # "error"
  <2>1. PICK trace, violations : trace = item.result.trace /\ violations = item.result.violations
    OBVIOUS
  <2>2. IsRun(trace, violations, setting.steady, known) /\ item.result.kind = Kind(violations)
    BY <1>2, <2>1 DEF Ends
  <2>3. IsRun(trace, violations, setting'.steady, known')
    BY <2>2, RunStays
  <2>4. QED
    BY <2>1, <2>2, <2>3 DEF Ends
<1>3. QED
  BY <1>1, <1>2

LEMMA EndedAppended ==
    ASSUME KnownInv, SweepInv, EndedInv, Next, NEW item, ended' = Append(ended, item),
           Ends(item, setting'.steady, known')
    PROVE  EndedInv'
<1>1. PICK list, longer : list = ended /\ longer = ended'
  OBVIOUS
<1>2. Listed(list) /\ longer = Append(list, item)
  BY <1>1 DEF SweepInv
<1>3. \A i \in DOMAIN longer : (i \in DOMAIN list /\ longer[i] = list[i]) \/ longer[i] = item
  BY <1>2, AppendAt
<1>4. \A i \in DOMAIN list : Ends(list[i], setting.steady, known)
  BY <1>1 DEF EndedInv
<1>5. \A i \in DOMAIN list : Ends(list[i], setting'.steady, known')
  BY <1>4, EndsStays
<1>6. \A i \in DOMAIN longer : Ends(longer[i], setting'.steady, known')
  BY <1>3, <1>5
<1>7. QED
  BY <1>1, <1>6 DEF EndedInv

LEMMA EndedStep ==
    ASSUME KnownInv, SweepInv, EndedInv, Next
    PROVE  EndedInv'
<1>1. CASE ended' = ended
  <2>1. \A i \in DOMAIN ended : Ends(ended[i], setting'.steady, known')
    BY EndsStays DEF EndedInv
  <2>2. QED
    BY <1>1, <2>1 DEF EndedInv
<1>2. CASE NextCommand \/ Sweeping
  <2>1. ended' = <<>>
    BY <1>2 DEF NextCommand, ClearSweep, Sweeping, StartSweep
  <2>2. QED
    BY <2>1 DEF EndedInv
<1>3. CASE FinishRun
  <2>1. PICK at \in flying : \E trace \in TracesOf(mine[at]) : \E violations \in VerdictsOf(trace) :
            /\ Learn(trace, violations)
            /\ EndRun(at, [kind |-> Kind(violations), trace |-> trace, violations |-> violations],
                      setting.terminal)
    BY <1>3 DEF FinishRun
  <2>2. PICK trace \in TracesOf(mine[at]) : \E violations \in VerdictsOf(trace) :
            /\ Learn(trace, violations)
            /\ EndRun(at, [kind |-> Kind(violations), trace |-> trace, violations |-> violations],
                      setting.terminal)
    BY <2>1
  <2>3. PICK violations \in VerdictsOf(trace) :
            /\ Learn(trace, violations)
            /\ EndRun(at, [kind |-> Kind(violations), trace |-> trace, violations |-> violations],
                      setting.terminal)
    BY <2>2
  <2>4. IsRun(trace, violations, setting'.steady, known')
    BY <2>2, <2>3, TracesRecorded, SettingStays, LearnedRun
  <2>5. PICK result :
           result = [kind |-> Kind(violations), trace |-> trace, violations |-> violations]
    OBVIOUS
  <2>6. PICK item : item = [at |-> at, result |-> result]
    OBVIOUS
  <2>7. ended' = Append(ended, item)
    BY <2>3, <2>5, <2>6 DEF EndRun
  <2>8. /\ item.result = result /\ result.trace = trace /\ result.violations = violations
        /\ result.kind = Kind(violations)
    BY <2>5, <2>6
  <2>9. Ends(item, setting'.steady, known')
    BY <2>4, <2>8 DEF Ends
  <2>10. QED
    BY <2>7, <2>9, EndedAppended
<1>4. CASE FinishRunFails
  <2>1. PICK at \in flying : EndRun(at, [kind |-> "error"], setting.terminal)
    BY <1>4 DEF FinishRunFails
  <2>2. PICK item : item = [at |-> at, result |-> [kind |-> "error"]]
    OBVIOUS
  <2>3. ended' = Append(ended, item)
    BY <2>1, <2>2 DEF EndRun
  <2>4. Ends(item, setting'.steady, known')
    BY <2>2 DEF Ends
  <2>5. QED
    BY <2>3, <2>4, EndedAppended
<1>5. CASE LaunchRun
  BY <1>1, <1>5 DEF LaunchRun, Launch
<1>6. QED
  BY <1>1, <1>2, <1>3, <1>4, <1>5, SweepStays

LEMMA ResultsStay ==
    Next => \/ results' = results
            \/ NextCommand \/ Execute \/ ExecuteFails \/ FinishRun \/ FinishRunFails
BY DEF Next, Prepare, PrepareFails, Usage, NextCommand, Check, Execute, ExecuteFails, WriteTrace,
       JudgeRun, JudgeReplay, JudgeShrink, Shrink, ShrinkFails, Verify, ReportRun, RewriteTrace,
       ReportShrink, Fail, Sweeping, LaunchRun, ShrinkNext, ReportFailure, Summarise, WriteDocument

LEMMA OutcomeStays == Next => outcome' = outcome \/ NextCommand \/ Execute \/ ShrinkNext
BY DEF Next, Prepare, PrepareFails, Usage, Check, ExecuteFails, WriteTrace,
       JudgeRun, JudgeReplay, JudgeShrink, Shrink, ShrinkFails, Verify, ReportRun, RewriteTrace,
       ReportShrink, Fail, Sweeping, LaunchRun, FinishRun, FinishRunFails,
       ReportFailure, Summarise, WriteDocument

LEMMA KindIs ==
    ASSUME NEW violations
    PROVE  /\ Kind(violations) \in {"passed", "violated"}
           /\ Kind(violations) = "violated" <=> violations # <<>>
BY DEF Kind

LEMMA ResultsListed ==
    ASSUME ResultsInv, Next
    PROVE  results' \in Seq(Outcomes)
<1>1. results \in Seq(Outcomes)
  BY DEF ResultsInv
<1>2. CASE results' = results \/ NextCommand
  <2>1. results' = results \/ results' = <<>>
    BY <1>2 DEF NextCommand
  <2>2. <<>> \in Seq(Outcomes)
    OBVIOUS
  <2>3. QED
    BY <1>1, <2>1, <2>2
<1>3. CASE \E kind \in Outcomes : results' = Append(results, kind)
  BY <1>1, <1>3
<1>4. CASE ExecuteFails \/ FinishRunFails
  BY <1>3, <1>4 DEF ExecuteFails, FinishRunFails, Outcomes
<1>5. CASE Execute
  <2>1. PICK violations : results' = Append(results, Kind(violations))
    BY <1>5 DEF Execute
  <2>2. QED
    BY <1>3, <2>1, KindIs DEF Outcomes
<1>6. CASE FinishRun
  <2>1. PICK violations : results' = Append(results, Kind(violations))
    BY <1>6 DEF FinishRun
  <2>2. QED
    BY <1>3, <2>1, KindIs DEF Outcomes
<1>7. QED
  BY <1>2, <1>4, <1>5, <1>6, ResultsStay

LEMMA NothingYet ==
    ASSUME ResultsInv, Next, pc' \in {"start", "check", "fuzz"} \cup Once
    PROVE  results' = <<>>
<1>1. CASE NextCommand
  BY <1>1 DEF NextCommand
<1>2. CASE Prepare
  BY <1>2 DEF Prepare, ResultsInv
<1>3. CASE PrepareFails \/ Check \/ Execute \/ ExecuteFails \/ Fail
  BY <1>3 DEF PrepareFails, Usage, Check, Execute, ExecuteFails, Fail, Refuse, Exit, Once
<1>4. CASE WriteTrace \/ RewriteTrace \/ ReportShrink
  BY <1>4 DEF WriteTrace, RewriteTrace, ReportShrink, Write, Refuse, Exit, Once
<1>5. CASE JudgeRun \/ JudgeReplay \/ JudgeShrink
  BY <1>5 DEF JudgeRun, JudgeReplay, JudgeShrink, Refuse, Exit, Once
<1>6. CASE Shrink \/ ShrinkFails \/ Verify
  BY <1>6 DEF Shrink, ShrinkFails, Verify, GiveUpShrinking, Refuse, Exit, Once
<1>7. CASE ReportRun \/ ReportFailure \/ Sweeping \/ LaunchRun \/ FinishRun \/ FinishRunFails
  BY <1>7 DEF ReportRun, ReportFailure, Sweeping, LaunchRun, FinishRun, FinishRunFails, Once
<1>8. CASE ShrinkNext \/ Summarise \/ WriteDocument
  BY <1>8 DEF ShrinkNext, Summarise, WriteDocument, Refuse, Exit, Once
<1>9. QED
  BY <1>1, <1>2, <1>3, <1>4, <1>5, <1>6, <1>7, <1>8 DEF Next

-----------------------------------------------------------------------------
\* What a run was, from the time it is over.

LEMMA MinIs ==
    ASSUME NEW a \in Nat, NEW b \in Nat
    PROVE  Min({a, b}) \in Nat /\ Min({a, b}) <= b
<1>1. PICK least \in {a, b} : \A x \in {a, b} : least <= x
  OBVIOUS
<1>2. Min({a, b}) \in {a, b} /\ \A x \in {a, b} : Min({a, b}) <= x
  BY <1>1 DEF Min
<1>3. QED
  BY <1>2

LEMMA CurrentCommand ==
    ASSUME StageInv, script # <<>>
    PROVE  IsCommand(command)
<1>1. 1 \in DOMAIN script
  BY ListedIs DEF StageInv, Listed
<1>2. QED
  BY <1>1 DEF StageInv, command

LEMMA ToShrinkIs ==
    ASSUME StageInv, SweepInv, pc = "sweeping"
    PROVE  ToShrink \in Nat /\ ToShrink <= Len(Failures)
<1>1. IsCommand(command) /\ command.name = "fuzz"
  BY CurrentCommand DEF StageInv
<1>2. PICK n \in Nat : n = Len(Failures)
  BY FailuresAre, ListedIs
<1>3. Shown \in Nat
  BY <1>1, <1>2 DEF Shown, IsCommand
<1>4. PICK m \in Nat : m = Shown
  BY <1>3
<1>5. ToShrink = Min({m, n})
  BY <1>2, <1>4 DEF ToShrink
<1>6. QED
  BY <1>2, <1>5, MinIs

\* A failure of a sweep is a run that broke something.
LEMMA FailureIsRun ==
    ASSUME SweepInv, EndedInv, NEW k \in DOMAIN Failures, NEW run, run = Failures[k].result
    PROVE  IsRun(run.trace, run.violations, setting.steady, known) /\ run.violations # <<>>
<1>1. Violating(Failures[k])
  BY FailuresAre
<1>2. PICK i \in DOMAIN ended : Failures[k] = ended[i] /\ ended[i].result.kind = "violated"
  BY <1>1 DEF Violating
<1>3. PICK item : item = ended[i]
  OBVIOUS
<1>4. Ends(item, setting.steady, known)
  BY <1>3 DEF EndedInv
<1>5. item.result = run /\ run.kind = "violated"
  BY <1>2, <1>3
<1>6. IsRun(run.trace, run.violations, setting.steady, known) /\ Kind(run.violations) = "violated"
  BY <1>4, <1>5 DEF Ends
<1>7. QED
  BY <1>6, KindIs

LEMMA NextFailure ==
    ASSUME StageInv, SweepInv, EndedInv, ReportsInv, ShrinkNext
    PROVE  /\ IsRun(outcome'.trace, outcome'.violations, setting'.steady, known')
           /\ outcome'.violations # <<>>
<1>1. ToShrink \in Nat /\ ToShrink <= Len(Failures)
  BY ToShrinkIs DEF ShrinkNext
<1>2. PICK n \in Nat : n = Len(Failures) /\ DOMAIN Failures = 1 .. n
  BY FailuresAre, ListedIs
<1>3. PICK m \in Nat : m = Len(reports)
  BY ListedIs DEF ReportsInv
<1>4. m + 1 \in DOMAIN Failures
  BY <1>1, <1>2, <1>3 DEF ShrinkNext
<1>5. PICK run : run = Failures[m + 1].result
  OBVIOUS
<1>6. IsRun(run.trace, run.violations, setting.steady, known) /\ run.violations # <<>>
  BY <1>4, <1>5, FailureIsRun
<1>7. outcome' = [trace |-> run.trace, violations |-> run.violations]
  BY <1>3, <1>5 DEF ShrinkNext
<1>8. setting' = setting /\ known' = known
  BY DEF ShrinkNext, runVars
<1>9. outcome'.trace = run.trace /\ outcome'.violations = run.violations
  BY <1>7
<1>10. QED
  BY <1>6, <1>8, <1>9

\* A run that is over stays as it was until the next.
LEMMA RanStays ==
    ASSUME Next, pc \in Ran
    PROVE  UNCHANGED <<outcome, results, script, ended>>
<1>1. ~NextCommand /\ ~Execute /\ ~ExecuteFails /\ ~FinishRun /\ ~FinishRunFails /\ ~ShrinkNext
      /\ ~Sweeping /\ ~LaunchRun
  BY DEF Ran, NextCommand, Execute, ExecuteFails, FinishRun, FinishRunFails, ShrinkNext,
     Sweeping,
         LaunchRun
<1>2. outcome' = outcome
  BY <1>1, OutcomeStays
<1>3. results' = results
  BY <1>1, ResultsStay
<1>4. script' = script
  BY <1>1, ScriptStays
<1>5. ended' = ended
  BY <1>1, SweepStays
<1>6. QED
  BY <1>2, <1>3, <1>4, <1>5

LEMMA RanBefore ==
    ASSUME StageInv, Next, pc' \in Ran
    PROVE  pc \in Ran \/ Execute \/ ShrinkNext
<1>1. CASE Prepare
  BY <1>1, CurrentCommand, CommandNames DEF Prepare, Refuse, Exit, Ran
<1>2. CASE PrepareFails \/ NextCommand \/ Check \/ ExecuteFails \/ Fail
  BY <1>2 DEF PrepareFails, Usage, NextCommand, Check, ExecuteFails, Fail, Refuse, Exit, Ran
<1>3. CASE WriteTrace \/ RewriteTrace \/ ReportShrink \/ JudgeRun \/ JudgeReplay \/ JudgeShrink
           \/ Shrink \/ ShrinkFails \/ Verify \/ ReportRun \/ ReportFailure
  BY <1>3 DEF WriteTrace, RewriteTrace, ReportShrink, JudgeRun, JudgeReplay, JudgeShrink,
     Shrink,
              ShrinkFails, Verify, ReportRun, ReportFailure, Ran
<1>4. CASE Sweeping \/ LaunchRun \/ FinishRun \/ FinishRunFails \/ Summarise \/ WriteDocument
  BY <1>4 DEF Sweeping, LaunchRun, FinishRun, FinishRunFails, Summarise, WriteDocument, Refuse,
              Exit, Ran
<1>5. QED
  BY <1>1, <1>2, <1>3, <1>4 DEF Next

LEMMA FoundBefore ==
    ASSUME StageInv, Next, pc' \in Found
    PROVE  pc \in Found \/ (pc \in Ran /\ ~Passed(outcome)) \/ ShrinkNext
<1>1. CASE Execute
  BY <1>1 DEF Execute, Found
<1>2. CASE WriteTrace
  BY <1>2 DEF WriteTrace, Write, Refuse, Exit, Found
<1>3. CASE JudgeRun \/ JudgeReplay \/ JudgeShrink
  BY <1>3 DEF JudgeRun, JudgeReplay, JudgeShrink, Refuse, Exit, Found, Ran
<1>4. CASE RewriteTrace \/ ReportShrink
           \/ Shrink \/ ShrinkFails \/ Verify \/ ReportRun \/ ReportFailure \/ Fail
  BY <1>4 DEF RewriteTrace, ReportShrink, Shrink, ShrinkFails, Verify, ReportRun,
     ReportFailure,
              Fail, Found
<1>5. pc' \in Ran
  BY DEF Found, Ran
<1>6. CASE pc \in Ran
  <2>1. WriteTrace \/ JudgeRun \/ JudgeReplay \/ JudgeShrink \/ pc \in Found
    BY <1>6 DEF Ran, Found, Next, Prepare, PrepareFails, Usage, NextCommand, Check, Execute,
       ExecuteFails,
        Sweeping, LaunchRun, FinishRun, FinishRunFails, ShrinkNext, Summarise, WriteDocument,
        RewriteTrace, ReportShrink, Shrink, ShrinkFails, Verify, ReportRun, ReportFailure, Fail
  <2>2. QED
    BY <1>2, <1>3, <2>1
<1>7. QED
  BY <1>1, <1>5, <1>6, RanBefore

-----------------------------------------------------------------------------
\* The results of a command.

LEMMA TalliesAppended ==
    ASSUME NEW kinds \in Seq(Outcomes), NEW items, Listed(items), Tallies(kinds, items),
           NEW kind, NEW item, item.result.kind = kind,
           NEW kinds1, kinds1 = Append(kinds, kind), NEW items1, items1 = Append(items, item)
    PROVE  Tallies(kinds1, items1)
<1>1. Listed(kinds)
  BY SequenceListed
<1>2. PICK n \in Nat : n = Len(items) /\ DOMAIN items = 1 .. n
  BY ListedIs
<1>3. DOMAIN kinds = 1 .. n /\ \A i \in 1 .. n : items[i].result.kind = kinds[i]
  BY <1>2 DEF Tallies
<1>4. PICK m \in Nat : m = Len(kinds) /\ DOMAIN kinds = 1 .. m
  BY <1>1, ListedIs
<1>5. m = n
  BY <1>2, <1>3, <1>4
<1>6. Listed(items1) /\ Len(items1) = n + 1
  BY <1>2, AppendListed
<1>7. items1[n + 1] = item
  BY <1>2, AppendListed
<1>8. \A i \in 1 .. n : items1[i] = items[i]
  BY <1>2, AppendListed
<1>9. Listed(kinds1) /\ Len(kinds1) = n + 1
  <2>1. Listed(kinds1) /\ Len(kinds1) = Len(kinds) + 1
    BY <1>1, AppendListed
  <2>2. QED
    BY <1>4, <1>5, <2>1
<1>10. kinds1[n + 1] = kind
  BY <1>1, <1>4, <1>5, AppendListed
<1>11. \A i \in 1 .. n : kinds1[i] = kinds[i]
  BY <1>1, <1>4, <1>5, AppendListed
<1>12. DOMAIN items1 = 1 .. n + 1 /\ DOMAIN kinds1 = 1 .. n + 1
  BY <1>6, <1>9, ListedIs
<1>13. \A i \in 1 .. n : items1[i].result.kind = kinds1[i]
  BY <1>3, <1>8, <1>11
<1>14. items1[n + 1].result.kind = kinds1[n + 1]
  BY <1>7, <1>10
<1>15. \A i \in 1 .. n + 1 : i \in 1 .. n \/ i = n + 1
  OBVIOUS
<1>16. QED
  BY <1>12, <1>13, <1>14, <1>15 DEF Tallies

InSweep == pc \in {"shrinking", "verify", "report", "sweeping", "document"} /\ command.name = "fuzz"

LEMMA InSweepBefore ==
    ASSUME StageInv, Next, InSweep'
    PROVE  Sweeping \/ InSweep
<1>1. script' = script /\ command' = command
  BY ScriptStays DEF NextCommand, InSweep, command
<1>2. command.name = "fuzz"
  BY <1>1 DEF InSweep
<1>3. CASE Prepare
  BY <1>2, <1>3 DEF Prepare, Refuse, Exit, InSweep
<1>4. CASE PrepareFails \/ NextCommand \/ Check \/ Execute \/ ExecuteFails \/ Fail
           \/ WriteTrace \/ RewriteTrace \/ JudgeRun \/ JudgeReplay \/ JudgeShrink
  BY <1>2, <1>4 DEF PrepareFails, Usage, NextCommand, Check, Execute, ExecuteFails, Fail, WriteTrace,
         RewriteTrace, JudgeRun, JudgeReplay, JudgeShrink, Refuse, Exit, InSweep, StageInv, Once
<1>5. CASE ReportShrink \/ Shrink \/ ShrinkFails \/ Verify \/ ReportRun \/ ReportFailure
           \/ LaunchRun \/ FinishRun \/ FinishRunFails \/ ShrinkNext \/ Summarise \/ WriteDocument
  BY <1>2, <1>5 DEF ReportShrink, Shrink, ShrinkFails, Verify, ReportRun, ReportFailure,
         LaunchRun, FinishRun, FinishRunFails, ShrinkNext, Summarise, WriteDocument, InSweep
<1>6. QED
  BY <1>3, <1>4, <1>5 DEF Next

LEMMA TalliesStep ==
    ASSUME StageInv, SweepInv, ResultsInv, Next, InSweep'
    PROVE  Tallies(results', ended')
<1>1. CASE Sweeping
  <2>1. results' = <<>> /\ ended' = <<>>
    BY <1>1 DEF Sweeping, StartSweep, ResultsInv
  <2>2. QED
    BY <2>1 DEF Tallies
<1>2. CASE InSweep
  <2>1. Tallies(results, ended) /\ results \in Seq(Outcomes) /\ Listed(ended)
    BY <1>2 DEF ResultsInv, InSweep, SweepInv
  <2>2. CASE FinishRun
    <3>1. PICK at, violations, trace :
              /\ EndRun(at, [kind |-> Kind(violations), trace |-> trace, violations |-> violations],
                        setting.terminal)
              /\ results' = Append(results, Kind(violations))
      BY <2>2 DEF FinishRun
    <3>2. PICK item : item = [at |-> at, result |-> [kind |-> Kind(violations), trace |-> trace,
                                                    violations |-> violations]]
      OBVIOUS
    <3>3. ended' = Append(ended, item) /\ item.result.kind = Kind(violations)
      BY <3>1, <3>2 DEF EndRun
    <3>4. QED
      BY <2>1, <3>1, <3>3, TalliesAppended
  <2>3. CASE FinishRunFails
    <3>1. PICK at : /\ EndRun(at, [kind |-> "error"], setting.terminal)
                    /\ results' = Append(results, "error")
      BY <2>3 DEF FinishRunFails
    <3>2. PICK item : item = [at |-> at, result |-> [kind |-> "error"]]
      OBVIOUS
    <3>3. ended' = Append(ended, item) /\ item.result.kind = "error"
      BY <3>1, <3>2 DEF EndRun
    <3>4. QED
      BY <2>1, <3>1, <3>3, TalliesAppended
  <2>4. CASE ~FinishRun /\ ~FinishRunFails
    <3>1. ~NextCommand /\ ~Execute /\ ~ExecuteFails /\ ~Sweeping
      BY <1>2 DEF InSweep, NextCommand, Execute, ExecuteFails, Sweeping
    <3>2. results' = results
      BY <2>4, <3>1, ResultsStay
    <3>3. ended' = ended
      BY <2>4, <3>1, SweepStays DEF LaunchRun, Launch
    <3>4. QED
      BY <2>1, <3>2, <3>3
  <2>5. QED
    BY <2>2, <2>3, <2>4
<1>3. QED
  BY <1>1, <1>2, InSweepBefore

LEMMA ResultsStep ==
    ASSUME StageInv, SweepInv, EndedInv, ReportsInv, ResultsInv, Next
    PROVE  ResultsInv'
<1>1. results' \in Seq(Outcomes)
  BY ResultsListed
<1>2. pc' \in {"start", "check", "fuzz"} \cup Once => results' = <<>>
  BY NothingYet
<1>3. ASSUME pc' \in Ran
      PROVE  command'.name = "fuzz" \/ results' = <<Kind(outcome'.violations)>>
  <2>1. CASE pc \in Ran
    <3>1. UNCHANGED <<outcome, results, script>>
      BY <2>1, RanStays
    <3>2. command.name = "fuzz" \/ results = <<Kind(outcome.violations)>>
      BY <2>1 DEF ResultsInv
    <3>3. QED
      BY <3>1, <3>2 DEF command
  <2>2. CASE Execute
    <3>1. results = <<>>
      BY <2>2 DEF Execute, ResultsInv, Once
    <3>2. PICK trace, violations : /\ outcome' = [trace |-> trace, violations |-> violations]
                                   /\ results' = Append(results, Kind(violations))
      BY <2>2 DEF Execute
    <3>3. outcome'.violations = violations
      BY <3>2
    <3>4. results' = <<Kind(violations)>>
      BY <3>1, <3>2
    <3>5. QED
      BY <3>3, <3>4
  <2>3. CASE ShrinkNext
    BY <2>3 DEF ShrinkNext, StageInv, command
  <2>4. QED
    BY <1>3, <2>1, <2>2, <2>3, RanBefore
<1>4. ASSUME pc' \in Found
      PROVE  ~Passed(outcome')
  <2>1. CASE pc \in Found \/ (pc \in Ran /\ ~Passed(outcome))
    <3>1. pc \in Ran /\ ~Passed(outcome)
      BY <2>1 DEF Found, Ran, ResultsInv
    <3>2. QED
      BY <3>1, RanStays
  <2>2. CASE ShrinkNext
    BY <2>2, NextFailure DEF Passed
  <2>3. QED
    BY <1>4, <2>1, <2>2, FoundBefore
<1>5. InSweep' => Tallies(results', ended')
  BY TalliesStep
<1>6. QED
  BY <1>1, <1>2, <1>3, <1>4, <1>5 DEF ResultsInv, InSweep, Passed

-----------------------------------------------------------------------------
\* The run that was asked for.

LEMMA FileStays ==
    Next => UNCHANGED <<file, whole>> \/ WriteTrace \/ RewriteTrace \/ ReportShrink
BY DEF Next, Prepare, PrepareFails, Usage, NextCommand, Check, Execute, ExecuteFails,
       JudgeRun, JudgeReplay, JudgeShrink, Shrink, ShrinkFails, Verify, ReportRun,
       Fail, Sweeping, LaunchRun, FinishRun, FinishRunFails, ShrinkNext,
       ReportFailure, Summarise, WriteDocument, fileVars

LEMMA ShrunkStays == Next => shrunk' = shrunk \/ NextCommand \/ Verify \/ ShrinkNext
BY DEF Next, Prepare, PrepareFails, Usage, Check, Execute, ExecuteFails, WriteTrace,
       JudgeRun, JudgeReplay, JudgeShrink, Shrink, ShrinkFails, ReportRun, RewriteTrace,
       ReportShrink, Fail, Sweeping, LaunchRun, FinishRun, FinishRunFails,
       ReportFailure, Summarise, WriteDocument

\* A command that loads a trace got as far as it did because it could.
InReplay ==
    pc \in {"judge", "shrinking", "verify", "report"} /\ command.name \in {"replay", "shrink"}

LEMMA InReplayBefore ==
    ASSUME StageInv, Next, InReplay'
    PROVE  /\ script' = script /\ command' = command /\ UNCHANGED <<file, whole>>
           /\ Execute \/ (InReplay /\ outcome' = outcome)
<1>1. script' = script /\ command' = command
  BY ScriptStays DEF NextCommand, InReplay, command
<1>2. command.name \in {"replay", "shrink"}
  BY <1>1 DEF InReplay
<1>3. UNCHANGED <<file, whole>>
  <2>1. ~WriteTrace /\ ~RewriteTrace
    BY <1>2 DEF WriteTrace, RewriteTrace, StageInv
  <2>2. ~ReportShrink
    BY DEF ReportShrink, Write, Refuse, Exit, InReplay
  <2>3. QED
    BY <2>1, <2>2, FileStays
<1>4. CASE pc \in Ran
  <2>1. ~WriteTrace /\ ~RewriteTrace /\ ~ReportFailure /\ ~ReportRun /\ ~ReportShrink /\ ~Fail
    BY <1>2 DEF WriteTrace, RewriteTrace, ReportFailure, ReportRun, ReportShrink, Fail,
       StageInv,
       Write, Refuse, Exit, InReplay
  <2>2. pc \in {"judge", "shrinking", "verify", "report"}
    BY <1>4, <2>1 DEF Ran, Next, Prepare, PrepareFails, Usage, NextCommand, Check, Execute,
       ExecuteFails,
       JudgeRun, JudgeReplay, JudgeShrink, Shrink, ShrinkFails, Verify, Sweeping, LaunchRun,
       FinishRun, FinishRunFails, ShrinkNext, Summarise, WriteDocument
  <2>3. QED
    BY <1>1, <1>2, <1>3, <1>4, <2>2, RanStays DEF InReplay
<1>5. CASE ShrinkNext
  BY <1>2, <1>5 DEF ShrinkNext, StageInv
<1>6. pc' \in Ran
  BY DEF InReplay, Ran
<1>7. QED
  BY <1>1, <1>3, <1>4, <1>5, <1>6, RanBefore

\* What is loaded is what was there when the command began.
LEMMA LoadedOnce ==
    ASSUME StageInv, Next, pc' \in {"replay", "shrink"}
    PROVE  Loadable /\ UNCHANGED <<file, whole>>
<1>1. CASE Prepare
  <2>1. pc' = command.name
    BY <1>1 DEF Prepare, Refuse, Exit
  <2>2. QED
    BY <1>1, <2>1 DEF Prepare, BadArguments, LoadsTrace, fileVars
<1>2. CASE PrepareFails \/ NextCommand \/ Check \/ Execute \/ ExecuteFails \/ Fail
  BY <1>2 DEF PrepareFails, Usage, NextCommand, Check, Execute, ExecuteFails, Fail, Refuse, Exit
<1>3. CASE WriteTrace \/ RewriteTrace \/ ReportShrink
  BY <1>3 DEF WriteTrace, RewriteTrace, ReportShrink, Write, Refuse, Exit
<1>4. CASE JudgeRun \/ JudgeReplay \/ JudgeShrink \/ Shrink \/ ShrinkFails \/ Verify
  BY <1>4 DEF JudgeRun, JudgeReplay, JudgeShrink, Shrink, ShrinkFails, Verify, GiveUpShrinking,
              Refuse, Exit
<1>5. CASE ReportRun \/ ReportFailure \/ Sweeping \/ LaunchRun \/ FinishRun \/ FinishRunFails
           \/ ShrinkNext \/ Summarise \/ WriteDocument
  BY <1>5 DEF ReportRun, ReportFailure, Sweeping, LaunchRun, FinishRun, FinishRunFails,
              ShrinkNext, Summarise, WriteDocument, Refuse, Exit, StageInv
<1>6. QED
  BY <1>1, <1>2, <1>3, <1>4, <1>5 DEF Next

LEMMA ExecutedRun ==
    ASSUME KnownInv, Execute, setting' = setting
    PROVE  /\ IsRun(outcome'.trace, outcome'.violations, setting'.steady, known')
           /\ pc # "run" => outcome'.trace = Follow(Load(file))
<1>1. PICK trace \in IF pc = "run" THEN TracesOf(command.seed) ELSE {Follow(Load(file))} :
          \E violations \in VerdictsOf(trace) :
             /\ Learn(trace, violations)
             /\ outcome' = [trace |-> trace, violations |-> violations]
  BY DEF Execute
<1>2. PICK violations \in VerdictsOf(trace) :
          /\ Learn(trace, violations)
          /\ outcome' = [trace |-> trace, violations |-> violations]
  BY <1>1
<1>3. Recorded(trace)
  <2>1. CASE pc = "run"
    BY <1>1, <2>1, TracesRecorded
  <2>2. CASE pc # "run"
    BY <1>1, <2>2, FollowIsRecorded
  <2>3. QED
    BY <2>1, <2>2
<1>4. IsRun(trace, violations, setting'.steady, known')
  BY <1>2, <1>3, LearnedRun
<1>5. outcome'.trace = trace /\ outcome'.violations = violations
  BY <1>2
<1>6. QED
  BY <1>1, <1>4, <1>5

LEMMA OutcomeStep ==
    ASSUME StageInv, KnownInv, SweepInv, EndedInv, ReportsInv, OutcomeInv, Next
    PROVE  OutcomeInv'
<1>1. ASSUME pc' \in Ran
      PROVE  IsRun(outcome'.trace, outcome'.violations, setting'.steady, known')
  <2>1. CASE pc \in Ran
    <3>1. IsRun(outcome.trace, outcome.violations, setting.steady, known)
      BY <2>1 DEF OutcomeInv
    <3>2. outcome' = outcome
      BY <2>1, RanStays
    <3>3. QED
      BY <3>1, <3>2, RunStays
  <2>2. CASE Execute
    BY <2>2, SettingStays, ExecutedRun
  <2>3. CASE ShrinkNext
    BY <2>3, NextFailure
  <2>4. QED
    BY <1>1, <2>1, <2>2, <2>3, RanBefore
<1>2. ASSUME InReplay'
      PROVE  Loadable' /\ outcome'.trace = Follow(Load(file'))
  <2>1. command' = command /\ file' = file
    BY <1>2, InReplayBefore
  <2>2. CASE InReplay /\ outcome' = outcome
    BY <2>1, <2>2 DEF OutcomeInv, InReplay, Loadable
  <2>3. CASE Execute
    <3>1. pc \in {"replay", "shrink"}
      BY <1>2, <2>1, <2>3 DEF Execute, StageInv, InReplay, Once
    <3>2. Loadable'
      BY <2>1, <3>1 DEF OutcomeInv, Loadable
    <3>3. outcome'.trace = Follow(Load(file))
      BY <2>3, <3>1, SettingStays, ExecutedRun
    <3>4. QED
      BY <2>1, <3>2, <3>3
  <2>4. QED
    BY <1>2, <2>2, <2>3, InReplayBefore
<1>3. pc' \in {"replay", "shrink"} => Loadable'
  BY LoadedOnce DEF Loadable
<1>4. QED
  BY <1>1, <1>2, <1>3 DEF OutcomeInv, InReplay

-----------------------------------------------------------------------------
\* The shrunk run.

LEMMA KeptStays ==
    ASSUME KnownInv, Next, IsKept, shrunk' = shrunk, outcome' = outcome
    PROVE  IsKept'
<1>1. PICK trace, violations : trace = shrunk.trace /\ violations = shrunk.violations
  OBVIOUS
<1>2. IsRun(trace, violations, setting.steady, known)
  BY <1>1 DEF IsKept, KeptOf
<1>3. IsRun(trace, violations, setting'.steady, known')
  BY <1>2, RunStays
<1>4. setting' = setting
  BY SettingStays
<1>5. QED
  BY <1>1, <1>3, <1>4 DEF IsKept, KeptOf

\* A finding is among what was found.
LEMMA TargetIsFound ==
    ASSUME NEW violations \in Verdicts, violations # <<>>
    PROVE  violations[1] \in ToSet(violations)
<1>1. violations \in Seq(STRING)
  BY VerdictsAssumption
<1>2. Listed(violations)
  BY <1>1, SequenceListed
<1>3. PICK n \in Nat : n = Len(violations) /\ DOMAIN violations = 1 .. n
  BY <1>2, ListedIs
<1>4. n # 0
  BY <1>1, <1>3
<1>5. 1 \in DOMAIN violations
  BY <1>3, <1>4
<1>6. QED
  BY <1>5 DEF ToSet

LEMMA ShrunkCandidate ==
    ASSUME StageInv, KnownInv, ResultsInv, OutcomeInv, Next, Shrink
    PROVE  IsCandidate'
<1>1. PICK removed \in SUBSET ActiveKeys(outcome.trace) :
          /\ candidate' = Without(outcome.trace, removed)
          /\ \/ removed = {} /\ UNCHANGED known
             \/ \E violations \in VerdictsOf(Follow(candidate')) :
                   StillFails(violations) /\ Learn(Follow(candidate'), violations)
  BY DEF Shrink
<1>2. outcome' = outcome /\ setting' = setting
  BY DEF Shrink
<1>3. IsRun(outcome.trace, outcome.violations, setting.steady, known) /\ ~Passed(outcome)
  BY DEF Shrink, OutcomeInv, ResultsInv, Ran, Found
<1>4. ASSUME setting.steady
      PROVE  Follow(candidate') \in DOMAIN known' /\ Target \in ToSet(known'[Follow(candidate')])
  <2>1. CASE removed = {} /\ UNCHANGED known
    <3>1. Recorded(outcome.trace)
      BY <1>3 DEF IsRun
    <3>2. candidate' = outcome.trace
      BY <1>1, <2>1, <3>1, RecordedInKeyOrder, NothingRemoved
    <3>3. Follow(candidate') = outcome.trace
      BY <3>1, <3>2 DEF Recorded
    <3>4. outcome.trace \in DOMAIN known /\ known[outcome.trace] = outcome.violations
      BY <1>3, <1>4 DEF IsRun
    <3>5. Target \in ToSet(outcome.violations)
      BY <1>3, TargetIsFound DEF IsRun, Passed, Target
    <3>6. QED
      BY <2>1, <3>3, <3>4, <3>5
  <2>2. CASE \E violations \in VerdictsOf(Follow(candidate')) :
                 StillFails(violations) /\ Learn(Follow(candidate'), violations)
    <3>1. PICK trace : trace = Follow(candidate')
      OBVIOUS
    <3>2. PICK violations \in VerdictsOf(trace) : StillFails(violations) /\ Learn(trace, violations)
      BY <2>2, <3>1
    <3>3. trace \in DOMAIN known' /\ known'[trace] = violations
      BY <1>2, <1>4, <3>2, LearnKeeps
    <3>4. Target \in ToSet(violations)
      BY <3>2 DEF StillFails
    <3>5. QED
      BY <3>1, <3>3, <3>4
  <2>3. QED
    BY <1>1, <2>1, <2>2
<1>5. QED
  BY <1>1, <1>2, <1>4 DEF IsCandidate, Target

LEMMA VerifiedRun ==
    ASSUME StageInv, KnownInv, OutcomeInv, ShrinkInv, Next, Verify
    PROVE  \/ shrunk' = shrunk /\ pc' \in {"exited", "report"}
                /\ (pc' = "report" => command.name # "shrink")
           \/ IsKept' /\ pc' = "report"
<1>1. PICK trace, violations :
          /\ trace = Follow(candidate) /\ violations \in VerdictsOf(trace)
          /\ Learn(trace, violations)
          /\ \/ GiveUpShrinking("shrunk passes") /\ UNCHANGED shrunk
             \/ /\ violations # <<>>
                /\ shrunk' = Verified(trace, violations)
                /\ pc' = "report"
  BY DEF Verify
<1>2. CASE GiveUpShrinking("shrunk passes") /\ UNCHANGED shrunk
  BY <1>2 DEF GiveUpShrinking, Refuse, Exit
<1>3. CASE violations # <<>> /\ shrunk' = Verified(trace, violations) /\ pc' = "report"
  <2>1. outcome' = outcome /\ setting' = setting /\ IsCandidate
    BY DEF Verify, ShrinkInv
  <2>2. PICK run : run = shrunk'
    OBVIOUS
  <2>3. run.trace = trace /\ run.violations = violations
    BY <1>3, <2>2 DEF Verified
  <2>4. Recorded(trace)
    BY <1>1, FollowIsRecorded
  <2>5. IsRun(trace, violations, setting'.steady, known')
    BY <1>1, <2>1, <2>4, LearnedRun
  <2>6. Recorded(outcome.trace)
    BY DEF Verify, OutcomeInv, Ran, IsRun
  <2>7. PICK removed : candidate = Without(outcome.trace, removed)
    BY <2>1 DEF IsCandidate
  <2>8. ActiveKeys(trace) \subseteq ActiveKeys(outcome.trace)
    BY <1>1, <2>6, <2>7, RecordedInKeyOrder, EditedPerturbs
  <2>9. ASSUME setting.steady
        PROVE  outcome.violations[1] \in ToSet(violations)
    <3>1. trace \in DOMAIN known /\ Target \in ToSet(known[trace])
      BY <1>1, <2>1, <2>9 DEF IsCandidate
    <3>2. violations = known[trace]
      BY <1>1, <3>1 DEF VerdictsOf
    <3>3. QED
      BY <3>1, <3>2 DEF Target
  <2>10. KeptOf(run, outcome, setting'.steady, known')
    BY <1>3, <2>1, <2>3, <2>5, <2>8, <2>9 DEF KeptOf
  <2>11. QED
    BY <1>3, <2>1, <2>2, <2>10 DEF IsKept
<1>4. QED
  BY <1>1, <1>2, <1>3

LEMMA UnshrunkBefore ==
    ASSUME StageInv, Next, pc' \in Unshrunk
    PROVE  pc \in Unshrunk \/ shrunk' = None
<1>1. CASE Prepare \/ PrepareFails \/ Execute \/ ExecuteFails \/ WriteTrace
           \/ JudgeRun \/ JudgeReplay \/ JudgeShrink \/ Shrink \/ ShrinkFails \/ Verify
  BY <1>1 DEF Prepare, PrepareFails, Usage, Execute, ExecuteFails, WriteTrace, JudgeRun, JudgeReplay,
              JudgeShrink, Shrink, ShrinkFails, Verify, Unshrunk, Once
<1>2. CASE NextCommand \/ ShrinkNext
  BY <1>2 DEF NextCommand, ShrinkNext
<1>3. CASE Check \/ Fail \/ RewriteTrace \/ ReportShrink \/ ReportRun \/ ReportFailure
  BY <1>3 DEF Check, Fail, RewriteTrace, ReportShrink, ReportRun, ReportFailure, Write, Refuse,
              Exit, Unshrunk, Once
<1>4. CASE Sweeping \/ LaunchRun \/ FinishRun \/ FinishRunFails \/ Summarise \/ WriteDocument
  BY <1>4 DEF Sweeping, LaunchRun, FinishRun, FinishRunFails, Summarise, WriteDocument, Refuse,
              Exit, Unshrunk, Once
<1>5. QED
  BY <1>1, <1>2, <1>3, <1>4 DEF Next

LEMMA ShrinkStep ==
    ASSUME StageInv, KnownInv, ResultsInv, OutcomeInv, ShrinkInv, Next
    PROVE  ShrinkInv'
<1>1. ASSUME pc' \in Unshrunk
      PROVE  shrunk' = None
  <2>1. CASE pc \in Unshrunk /\ ~Verify
    BY <2>1, ShrunkStays DEF ShrinkInv, NextCommand, ShrinkNext
  <2>2. CASE Verify
    BY <1>1, <2>2, VerifiedRun DEF Unshrunk, Once
  <2>3. QED
    BY <1>1, <2>1, <2>2, UnshrunkBefore
<1>2. ASSUME shrunk' # None
      PROVE  IsKept'
  <2>1. CASE Verify
    <3>1. shrunk = None /\ outcome' = outcome
      BY <2>1 DEF Verify, ShrinkInv, Unshrunk
    <3>2. QED
      BY <1>2, <2>1, <3>1, VerifiedRun
  <2>2. CASE ~Verify
    <3>1. ~NextCommand /\ ~ShrinkNext
      BY <1>2 DEF NextCommand, ShrinkNext
    <3>2. shrunk' = shrunk
      BY <2>2, <3>1, ShrunkStays
    <3>3. ~Execute
      BY <1>2, <3>2 DEF Execute, ShrinkInv, Unshrunk, Once
    <3>4. outcome' = outcome
      BY <3>1, <3>3, OutcomeStays
    <3>5. QED
      BY <1>2, <3>2, <3>4, KeptStays DEF ShrinkInv
  <2>3. QED
    BY <2>1, <2>2
<1>3. ASSUME pc' \in {"report", "failed"}, command'.name = "shrink"
      PROVE  IsKept'
  <2>1. CASE Verify
    <3>1. command' = command
      BY <2>1 DEF Verify, command
    <3>2. QED
      BY <1>3, <2>1, <3>1, VerifiedRun
  <2>2. CASE ~Verify
    <3>1. script' = script /\ command' = command
      BY <1>3, ScriptStays DEF NextCommand, command
    <3>2. ~ShrinkFails /\ ~JudgeRun /\ ~JudgeShrink /\ ~RewriteTrace /\ ~ReportRun /\ ~ShrinkNext
      BY <1>3, <3>1 DEF ShrinkFails, GiveUpShrinking, Refuse, Exit, JudgeRun, JudgeShrink,
         RewriteTrace, ReportRun, ShrinkNext, StageInv
    <3>3. pc' \in Found /\ ~NextCommand /\ ~Execute /\ ~Shrink /\ ~WriteTrace /\ ~JudgeReplay
          /\ ~ReportFailure
      BY <1>3, <3>1 DEF Found, NextCommand, Execute, Shrink, WriteTrace, Write, JudgeReplay,
         Refuse,
         Exit, ReportFailure, StageInv
    <3>4. pc \in {"report", "failed"}
      BY <1>3, <2>2, <3>1, <3>2, <3>3 DEF Next, Prepare, PrepareFails, Usage, Check, ExecuteFails,
         ReportShrink,
         Fail, Sweeping, LaunchRun, FinishRun, FinishRunFails, Summarise, WriteDocument, Refuse, Exit,
         StageInv, Once
    <3>5. IsKept
      BY <1>3, <3>1, <3>4 DEF ShrinkInv
    <3>6. shrunk' = shrunk /\ outcome' = outcome
      BY <2>2, <3>2, <3>3, ShrunkStays, OutcomeStays
    <3>7. QED
      BY <3>5, <3>6, KeptStays
  <2>3. QED
    BY <2>1, <2>2
<1>4. ASSUME pc' = "verify"
      PROVE  IsCandidate'
  <2>1. Shrink
    BY <1>4, CurrentCommand, CommandNames DEF Next, Prepare, PrepareFails, Usage, NextCommand, Check,
       Execute, ExecuteFails, WriteTrace, Write, JudgeRun, JudgeReplay, JudgeShrink, ShrinkFails,
       Verify, GiveUpShrinking, ReportRun, RewriteTrace, ReportShrink, Fail, Sweeping, LaunchRun,
       FinishRun, FinishRunFails, ShrinkNext, ReportFailure, Summarise, WriteDocument, Refuse, Exit
  <2>2. QED
    BY <2>1, ShrunkCandidate
<1>5. QED
  BY <1>1, <1>2, <1>3, <1>4 DEF ShrinkInv

-----------------------------------------------------------------------------
\* The reports.

LEMMA RunActive ==
    ASSUME NEW trace, Recorded(trace)
    PROVE  Len(Active(trace)) \in Nat
BY RecordedInKeyOrder, ActiveCount

LEMMA ReportCounts ==
    ASSUME NEW seed, NEW run, NEW original, Len(Active(run.trace)) <= original
    PROVE  Counts(ReportOf(seed, run, original))
<1>1. PICK report : report = ReportOf(seed, run, original)
  OBVIOUS
<1>2. report.reproducer = Reproduce(run, original)
  BY <1>1 DEF ReportOf
<1>3. PICK reproducer : reproducer = Reproduce(run, original)
  OBVIOUS
<1>4. reproducer.steps = Active(run.trace) /\ reproducer.original = original
  BY <1>3 DEF Reproduce
<1>5. QED
  BY <1>1, <1>2, <1>3, <1>4 DEF Counts

LEMMA ReportsStay == Next => reports' = reports \/ NextCommand \/ ReportFailure \/ Summarise
BY DEF Next, Prepare, PrepareFails, Usage, Check, Execute, ExecuteFails, WriteTrace,
       JudgeRun, JudgeReplay, JudgeShrink, Shrink, ShrinkFails, Verify, ReportRun, RewriteTrace,
       ReportShrink, Fail, Sweeping, LaunchRun, FinishRun, FinishRunFails, ShrinkNext,
       WriteDocument

LEMMA ReportedCounts ==
    ASSUME OutcomeInv, ShrinkInv, pc = "report"
    PROVE  Len(Active(Reported.trace)) <= Len(Active(outcome.trace))
<1>1. Recorded(outcome.trace)
  BY DEF OutcomeInv, Ran, IsRun
<1>2. CASE shrunk = None
  BY <1>1, <1>2, RunActive DEF Reported
<1>3. CASE shrunk # None
  <2>1. Recorded(shrunk.trace) /\ ActiveKeys(shrunk.trace) \subseteq ActiveKeys(outcome.trace)
    BY <1>3 DEF ShrinkInv, IsKept, KeptOf, IsRun
  <2>2. Reported = shrunk
    BY <1>3 DEF Reported
  <2>3. InKeyOrder(shrunk.trace) /\ InKeyOrder(outcome.trace)
    BY <1>1, <2>1, RecordedInKeyOrder
  <2>4. QED
    BY <2>1, <2>2, <2>3, ActiveGrows
<1>4. QED
  BY <1>2, <1>3

LEMMA RestCounts ==
    ASSUME StageInv, SweepInv, EndedInv, pc = "sweeping"
    PROVE  Listed(Rest) /\ \A i \in DOMAIN Rest : Counts(Rest[i])
<1>1. PICK m \in Nat, n \in Nat : m = ToShrink /\ n = Len(Failures) /\ m <= n
  BY ToShrinkIs, FailuresAre, ListedIs
<1>2. PICK list : list = Rest
  OBVIOUS
<1>3. PICK left \in Nat : left = n - m
  <2>1. n - m \in Nat
    BY <1>1
  <2>2. QED
    BY <2>1
<1>4. list = [i \in 1 .. left |->
                 LET run == Failures[m + i]
                 IN  ReportOf(mine[run.at], run.result, Len(Active(run.result.trace)))]
  BY <1>1, <1>2, <1>3 DEF Rest
<1>5. DOMAIN list = 1 .. left /\ list = [i \in 1 .. left |-> list[i]]
  BY <1>4
<1>6. Listed(list)
  BY <1>5, FunctionListed
<1>7. ASSUME NEW i \in 1 .. left
      PROVE  Counts(list[i])
  <2>1. PICK k : k = m + i
    OBVIOUS
  <2>2. k \in DOMAIN Failures
    <3>1. DOMAIN Failures = 1 .. n
      BY <1>1, FailuresAre, ListedIs
    <3>2. QED
      BY <1>1, <1>3, <2>1, <3>1
  <2>3. PICK run : run = Failures[k].result
    OBVIOUS
  <2>4. IsRun(run.trace, run.violations, setting.steady, known)
    BY <2>2, <2>3, FailureIsRun
  <2>5. Len(Active(run.trace)) \in Nat
    BY <2>4, RunActive DEF IsRun
  <2>6. PICK seed : seed = mine[Failures[k].at]
    OBVIOUS
  <2>7. list[i] = ReportOf(seed, run, Len(Active(run.trace)))
    BY <1>4, <2>1, <2>3, <2>6
  <2>8. Counts(ReportOf(seed, run, Len(Active(run.trace))))
    BY <2>5, ReportCounts
  <2>9. QED
    BY <2>7, <2>8
<1>8. QED
  BY <1>2, <1>5, <1>6, <1>7

LEMMA ReportsStep ==
    ASSUME StageInv, SweepInv, EndedInv, OutcomeInv, ShrinkInv, ReportsInv, Next
    PROVE  ReportsInv'
<1>1. CASE reports' = reports
  BY <1>1 DEF ReportsInv
<1>2. CASE NextCommand
  <2>1. reports' = <<>>
    BY <1>2 DEF NextCommand
  <2>2. QED
    BY <2>1, NothingListed DEF ReportsInv
<1>3. CASE ReportFailure
  <2>1. PICK seed, run, original :
            /\ run = Reported /\ original = Len(Active(outcome.trace))
            /\ reports' = Append(reports, ReportOf(seed, run, original))
    BY <1>3 DEF ReportFailure
  <2>2. Len(Active(run.trace)) <= original
    BY <1>3, <2>1, ReportedCounts DEF ReportFailure
  <2>3. PICK report : report = ReportOf(seed, run, original)
    OBVIOUS
  <2>4. Counts(report)
    BY <2>2, <2>3, ReportCounts
  <2>5. PICK list, longer : list = reports /\ longer = reports'
    OBVIOUS
  <2>6. Listed(list) /\ (\A i \in DOMAIN list : Counts(list[i])) /\ longer = Append(list, report)
    BY <2>1, <2>3, <2>5 DEF ReportsInv
  <2>7. Listed(longer)
    BY <2>6, AppendListed
  <2>8. \A i \in DOMAIN longer : (i \in DOMAIN list /\ longer[i] = list[i]) \/ longer[i] = report
    BY <2>6, AppendAt
  <2>9. \A i \in DOMAIN longer : Counts(longer[i])
    BY <2>4, <2>6, <2>8
  <2>10. QED
    BY <2>5, <2>7, <2>9 DEF ReportsInv
<1>4. CASE Summarise
  <2>1. PICK list, more, longer : list = reports /\ more = Rest /\ longer = reports'
    OBVIOUS
  <2>2. longer = list \o more /\ pc = "sweeping"
    BY <1>4, <2>1 DEF Summarise
  <2>3. Listed(list) /\ \A i \in DOMAIN list : Counts(list[i])
    BY <2>1 DEF ReportsInv
  <2>4. Listed(more) /\ \A i \in DOMAIN more : Counts(more[i])
    BY <2>1, <2>2, RestCounts
  <2>5. Listed(longer) /\ Range(longer) = Range(list) \cup Range(more)
    BY <2>2, <2>3, <2>4, ConcatListed
  <2>6. \A x \in Range(list) \cup Range(more) : Counts(x)
    BY <2>3, <2>4 DEF Range
  <2>7. \A i \in DOMAIN longer : longer[i] \in Range(longer)
    BY DEF Range
  <2>8. \A i \in DOMAIN longer : Counts(longer[i])
    BY <2>5, <2>6, <2>7
  <2>9. QED
    BY <2>1, <2>5, <2>8 DEF ReportsInv
<1>5. QED
  BY <1>1, <1>2, <1>3, <1>4, ReportsStay

-----------------------------------------------------------------------------
\* The file.

\* Writing a trace leaves it in the file, or leaves the file and says so.
LEMMA WriteIs ==
    ASSUME NEW trace, Recorded(trace), NEW destination, NEW next, Write(trace, destination, next)
    PROVE  \/ /\ destination = "-" /\ pc' = next /\ UNCHANGED <<file, whole, exit, refused>>
           \/ /\ destination = "file" /\ pc' = next /\ UNCHANGED <<exit, refused>>
              /\ Readable(file') /\ Load(file') = trace
           \/ /\ pc' = "exited" /\ exit' = 1 /\ refused' = "write"
              /\ whole' => whole /\ file' = file
<1>1. CASE destination = "-" /\ pc' = next /\ UNCHANGED <<fileVars, exit, refused>>
  BY <1>1 DEF fileVars
<1>2. CASE destination = "file" /\ file' = Save(trace) /\ pc' = next /\ UNCHANGED <<exit, refused>>
  BY <1>2, RecordedInKeyOrder, SaveReads
<1>3. CASE (whole' => whole /\ file' = file) /\ Refuse("write")
  BY <1>3 DEF Refuse, Exit
<1>4. \/ destination = "-" /\ pc' = next /\ UNCHANGED <<fileVars, exit, refused>>
      \/ destination = "file" /\ file' = Save(trace) /\ pc' = next /\ UNCHANGED <<exit, refused>>
      \/ (whole' => whole /\ file' = file) /\ Refuse("write")
  BY DEF Write, fileVars
<1>5. QED
  BY <1>1, <1>2, <1>3, <1>4

\* The three places at which a trace is written.
Writes(trace, destination, next) ==
    \/ WriteTrace /\ trace = outcome.trace /\ destination = command.trace /\ next = "judge"
    \/ RewriteTrace /\ trace = shrunk.trace /\ destination = command.trace /\ next = "failed"
    \/ ReportShrink /\ trace = shrunk.trace /\ destination = command.out /\ next = "failed"

LEMMA WrittenIs ==
    ASSUME StageInv, OutcomeInv, ShrinkInv, FileInv, NEW trace, NEW destination, NEW next,
           Writes(trace, destination, next), Write(trace, destination, next)
    PROVE  /\ Recorded(trace)
           /\ \/ /\ destination = "-" /\ pc' = next /\ UNCHANGED <<file, whole, exit, refused>>
              \/ /\ destination = "file" /\ pc' = next /\ UNCHANGED <<exit, refused>>
                 /\ Readable(file') /\ Load(file') = trace
              \/ /\ pc' = "exited" /\ exit' = 1 /\ refused' = "write"
                 /\ whole' => whole /\ file' = file
<1>1. CASE WriteTrace /\ trace = outcome.trace
  BY <1>1, WriteIs DEF WriteTrace, OutcomeInv, Ran, IsRun
<1>2. CASE RewriteTrace /\ trace = shrunk.trace
  <2>1. IsKept
    BY <1>2 DEF RewriteTrace, FileInv, ShrinkInv
  <2>2. Recorded(trace)
    BY <1>2, <2>1 DEF IsKept, KeptOf, IsRun
  <2>3. QED
    BY <2>2, WriteIs
<1>3. CASE ReportShrink /\ trace = shrunk.trace
  <2>1. IsKept
    BY <1>3 DEF ReportShrink, ShrinkInv
  <2>2. Recorded(trace)
    BY <1>3, <2>1 DEF IsKept, KeptOf, IsRun
  <2>3. QED
    BY <2>2, WriteIs
<1>4. QED
  BY <1>1, <1>2, <1>3 DEF Writes

LEMMA FileWhole ==
    ASSUME StageInv, OutcomeInv, ShrinkInv, FileInv, Next, whole'
    PROVE  Readable(file') /\ Recorded(Load(file'))
<1>1. CASE UNCHANGED <<file, whole>>
  BY <1>1 DEF FileInv
<1>2. ASSUME NEW trace, NEW destination, NEW next,
             Writes(trace, destination, next), Write(trace, destination, next)
      PROVE  Readable(file') /\ Recorded(Load(file'))
  <2>1. /\ Recorded(trace)
        /\ \/ UNCHANGED <<file, whole>>
           \/ Readable(file') /\ Load(file') = trace
           \/ whole' => whole /\ file' = file
    BY <1>2, WrittenIs
  <2>2. CASE Readable(file') /\ Load(file') = trace
    BY <2>1, <2>2
  <2>3. CASE whole /\ file' = file
    BY <2>3 DEF FileInv
  <2>4. QED
    BY <1>1, <2>1, <2>2, <2>3
<1>3. CASE WriteTrace
  <2>1. PICK trace, destination, next :
            /\ trace = outcome.trace /\ destination = command.trace /\ next = "judge"
            /\ Write(trace, destination, next)
    BY <1>3 DEF WriteTrace
  <2>2. QED
    BY <1>2, <1>3, <2>1 DEF Writes
<1>4. CASE RewriteTrace
  <2>1. PICK trace, destination, next :
            /\ trace = shrunk.trace /\ destination = command.trace /\ next = "failed"
            /\ Write(trace, destination, next)
    BY <1>4 DEF RewriteTrace
  <2>2. QED
    BY <1>2, <1>4, <2>1 DEF Writes
<1>5. CASE ReportShrink
  <2>1. CASE command.out = None /\ UNCHANGED <<file, whole>>
    BY <1>1, <2>1
  <2>2. CASE ~(command.out = None /\ UNCHANGED <<file, whole>>)
    <3>1. PICK trace, destination, next :
              /\ trace = shrunk.trace /\ destination = command.out /\ next = "failed"
              /\ Write(trace, destination, next)
      BY <1>5, <2>2 DEF ReportShrink, fileVars
    <3>2. QED
      BY <1>2, <1>5, <3>1 DEF Writes
  <2>3. QED
    BY <2>1, <2>2
<1>6. QED
  BY <1>1, <1>3, <1>4, <1>5, FileStays

\* A run that is to be written is in the file when it is judged.
InRun ==
    /\ pc \in {"judge", "shrinking", "verify", "report"}
    /\ command.name = "run" /\ command.trace = "file"

LEMMA InRunStep ==
    ASSUME StageInv, OutcomeInv, ShrinkInv, FileInv, Next, InRun'
    PROVE  Load(file') = outcome'.trace
<1>1. script' = script /\ command' = command
  BY ScriptStays DEF NextCommand, InRun, command
<1>2. command.name = "run" /\ command.trace = "file" /\ command.trace # None
  BY <1>1, FileAssumption DEF InRun
<1>3. pc' # "failed" /\ pc' # "exited" /\ pc' # "rewrite"
  BY DEF InRun
<1>4. CASE WriteTrace
  <2>1. PICK trace, destination, next :
            /\ trace = outcome.trace /\ destination = command.trace /\ next = "judge"
            /\ Write(trace, destination, next)
    BY <1>4 DEF WriteTrace
  <2>2. destination # "-"
    BY <1>2, <2>1
  <2>3. Load(file') = trace
    BY <1>3, <1>4, <2>1, <2>2, WrittenIs DEF Writes
  <2>4. outcome' = outcome
    BY <1>4 DEF WriteTrace
  <2>5. QED
    BY <2>1, <2>3, <2>4
<1>5. CASE InRun /\ ~WriteTrace
  <2>1. ~RewriteTrace /\ ~ReportShrink /\ pc \in Ran
    BY <1>2, <1>5 DEF RewriteTrace, ReportShrink, InRun, Ran
  <2>2. UNCHANGED <<file, outcome>>
    BY <1>5, <2>1, FileStays, RanStays
  <2>3. QED
    BY <1>5, <2>2 DEF FileInv, InRun
<1>6. CASE ~InRun /\ ~WriteTrace
  <2>1. ~Execute
    BY <1>2 DEF Execute, InRun, StageInv, Once
  <2>2. ~ShrinkNext /\ ~RewriteTrace /\ ~ReportShrink /\ ~Fail
    BY <1>2, <1>3 DEF ShrinkNext, RewriteTrace, ReportShrink, Write, Refuse, Exit, Fail,
       StageInv
  <2>3. pc' \in Ran
    BY DEF InRun, Ran
  <2>4. pc \in Ran
    BY <2>1, <2>2, <2>3, RanBefore
  <2>5. pc \in {"write", "rewrite", "failed"}
    BY <1>2, <1>6, <2>4 DEF InRun, Ran
  <2>6. QED
    BY <1>6, <2>2, <2>5 DEF Next, Prepare, PrepareFails, Usage, NextCommand, Check, Execute,
       ExecuteFails,
       JudgeRun, JudgeReplay, JudgeShrink, Shrink, ShrinkFails, Verify, ReportRun, Sweeping,
       LaunchRun, FinishRun, FinishRunFails, ReportFailure, Summarise, WriteDocument, Once
<1>7. QED
  BY <1>4, <1>5, <1>6

\* How a command comes to its last step.
LEMMA FailedBy ==
    ASSUME StageInv, Next, pc' = "failed"
    PROVE  /\ RewriteTrace \/ ReportRun \/ ReportShrink
           /\ UNCHANGED <<outcome, shrunk, script>>
<1>1. CASE Prepare
  BY <1>1, CurrentCommand, CommandNames DEF Prepare, Refuse, Exit
<1>2. RewriteTrace \/ ReportRun \/ ReportShrink
  BY <1>1 DEF Next, PrepareFails, Usage, NextCommand, Check, Execute, ExecuteFails, WriteTrace, Write,
     JudgeRun, JudgeReplay, JudgeShrink, Shrink, ShrinkFails, Verify, GiveUpShrinking, Fail,
     Sweeping, LaunchRun, FinishRun, FinishRunFails, ShrinkNext, ReportFailure, Summarise,
     WriteDocument, Refuse, Exit
<1>3. QED
  BY <1>2 DEF RewriteTrace, ReportRun, ReportShrink

LEMMA FailedFile ==
    ASSUME StageInv, OutcomeInv, ShrinkInv, FileInv, Next, pc' = "failed"
    PROVE  /\ command.name = "run" /\ command.trace = "file" => Load(file') = Reported.trace
           /\ command.name = "shrink" /\ command.out = "file" => Load(file') = shrunk.trace
<1>1. CASE RewriteTrace
  <2>1. PICK trace, destination, next :
            /\ trace = shrunk.trace /\ destination = command.trace /\ next = "failed"
            /\ Write(trace, destination, next)
    BY <1>1 DEF RewriteTrace
  <2>2. destination = "-" \/ Load(file') = trace
    BY <1>1, <2>1, WrittenIs DEF Writes
  <2>3. shrunk # None /\ command.name = "run"
    BY <1>1 DEF RewriteTrace, FileInv, StageInv
  <2>4. QED
    BY <2>1, <2>2, <2>3 DEF Reported
<1>2. CASE ReportRun
  <2>1. command.name = "run" /\ pc = "report" /\ UNCHANGED <<file, whole>>
    BY <1>2 DEF ReportRun, fileVars
  <2>2. command.trace = "file" => shrunk = None
    BY <1>2, FileAssumption DEF ReportRun
  <2>3. command.trace = "file" => Load(file) = outcome.trace
    BY <2>1 DEF FileInv
  <2>4. QED
    BY <2>1, <2>2, <2>3 DEF Reported
<1>3. CASE ReportShrink
  <2>1. command.name = "shrink"
    BY <1>3 DEF ReportShrink
  <2>2. ASSUME command.out = "file"
        PROVE  Load(file') = shrunk.trace
    <3>1. PICK trace, destination, next :
              /\ trace = shrunk.trace /\ destination = command.out /\ next = "failed"
              /\ Write(trace, destination, next)
      BY <1>3, <2>2, FileAssumption DEF ReportShrink
    <3>2. destination # "-"
      BY <2>2, <3>1
    <3>3. Load(file') = trace
      BY <1>3, <3>1, <3>2, WrittenIs DEF Writes
    <3>4. QED
      BY <3>1, <3>3
  <2>3. QED
    BY <2>1, <2>2
<1>4. QED
  BY <1>1, <1>2, <1>3, FailedBy

LEMMA FileStep ==
    ASSUME StageInv, OutcomeInv, ShrinkInv, FileInv, Next
    PROVE  FileInv'
<1>1. whole' => Readable(file') /\ Recorded(Load(file'))
  BY FileWhole
<1>2. InRun' => Load(file') = outcome'.trace
  BY InRunStep
<1>3. pc' = "rewrite" => shrunk' # None
  <2>1. SUFFICES ASSUME pc' = "rewrite" PROVE shrunk' # None
    OBVIOUS
  <2>2. CASE Prepare
    BY <2>1, <2>2, CurrentCommand, CommandNames DEF Prepare, Refuse, Exit
  <2>3. CASE ReportRun
    BY <2>1, <2>3 DEF ReportRun
  <2>4. QED
    BY <2>1, <2>2, <2>3 DEF Next, PrepareFails, Usage, NextCommand, Check, Execute, ExecuteFails,
       WriteTrace, Write, JudgeRun, JudgeReplay, JudgeShrink, Shrink, ShrinkFails, Verify,
       GiveUpShrinking, Fail, RewriteTrace, ReportShrink, Sweeping, LaunchRun, FinishRun,
       FinishRunFails, ShrinkNext, ReportFailure, Summarise, WriteDocument, Refuse, Exit
<1>4. ASSUME pc' = "failed"
      PROVE  /\ command'.name = "run" /\ command'.trace = "file" => Load(file') = Reported'.trace
             /\ command'.name = "shrink" /\ command'.out = "file" => Load(file') = shrunk'.trace
  <2>1. UNCHANGED <<outcome, shrunk, script>>
    BY <1>4, FailedBy
  <2>2. command' = command /\ Reported' = Reported
    BY <2>1 DEF command, Reported
  <2>3. QED
    BY <1>4, <2>1, <2>2, FailedFile
<1>5. QED
  BY <1>1, <1>2, <1>3, <1>4 DEF FileInv, InRun

-----------------------------------------------------------------------------
\* The exit code.

LEMMA JudgedRun ==
    ASSUME ResultsInv, pc \in Ran, command.name # "fuzz"
    PROVE  /\ "error" \notin ToSet(results)
           /\ "violated" \in ToSet(results) <=> ~Passed(outcome)
<1>1. results = <<Kind(outcome.violations)>>
  BY DEF ResultsInv
<1>2. PICK kind : kind = Kind(outcome.violations)
  OBVIOUS
<1>3. ToSet(<<kind>>) = {kind}
  BY DEF ToSet
<1>4. QED
  BY <1>1, <1>2, <1>3, KindIs DEF Passed

LEMMA DoneSweep ==
    ASSUME SweepInv, ResultsInv, pc = "document", command.name = "fuzz"
    PROVE  "violated" \in ToSet(results) <=> Failures # <<>>
<1>1. Tallies(results, ended)
  BY DEF ResultsInv
<1>2. "violated" \in ToSet(results) <=> \E i \in DOMAIN ended : ended[i].result.kind = "violated"
  BY <1>1 DEF Tallies, ToSet
<1>3. Ended("violated") = {} <=> ~\E i \in DOMAIN ended : ended[i].result.kind = "violated"
  BY DEF Ended
<1>4. QED
  BY <1>2, <1>3, FailuresAre

\* What a command exits with, and why.
LEMMA ExitHow ==
    ASSUME StageInv, OutcomeInv, ShrinkInv, FileInv, ResultsInv, Next, pc' = "exited"
    PROVE  \/ results = <<>> /\ results' = results /\ exit' \in {0, 1}
           \/ results = <<>> /\ results' = results /\ exit' = 2 /\ command.name = "mistyped"
           \/ results = <<>> /\ results' = Append(results, "error") /\ exit' = 1
           \/ results' = results /\ exit' = 1 /\ refused' = "write"
           \/ results' = results /\ exit' = 1 /\ command.name = "shrink"
           \/ results' = results /\ pc = "judge" /\ Passed(outcome) /\ exit' \in {0, 1}
           \/ results' = results /\ pc = "judge" /\ ~Passed(outcome) /\ exit' = 2
                /\ command.name = "replay"
           \/ results' = results /\ Fail /\ exit' = 2
           \/ results' = results /\ WriteDocument /\ exit' = IF Failures = <<>> THEN 0 ELSE 2
<1>1. CASE Prepare
  BY <1>1, CurrentCommand, CommandNames DEF Prepare, Refuse, Exit, ResultsInv
<1>2. CASE PrepareFails
  BY <1>2 DEF PrepareFails, Usage, Refuse, Exit, ResultsInv
<1>3. CASE Check
  BY <1>3 DEF Check, Refuse, Exit, ResultsInv
<1>4. CASE ExecuteFails
  BY <1>4 DEF ExecuteFails, Refuse, Exit, ResultsInv, Once
<1>5. CASE WriteTrace
  BY <1>5 DEF WriteTrace, Write, Refuse, Exit
<1>6. CASE RewriteTrace \/ ReportShrink
  BY <1>6 DEF RewriteTrace, ReportShrink, Write, Refuse, Exit
<1>7. CASE JudgeRun
  BY <1>7 DEF JudgeRun, Exit
<1>8. CASE JudgeReplay
  BY <1>8 DEF JudgeReplay, Refuse, Exit
<1>9. CASE JudgeShrink
  BY <1>9 DEF JudgeShrink, Refuse, Exit
<1>10. CASE ShrinkFails \/ Verify
  BY <1>10 DEF ShrinkFails, Verify, GiveUpShrinking, Refuse, Exit
<1>11. CASE Fail
  BY <1>11 DEF Fail, Exit
<1>12. CASE WriteDocument
  BY <1>12 DEF WriteDocument, Refuse, Exit
<1>13. CASE Execute \/ NextCommand \/ Shrink \/ ReportRun \/ ReportFailure
  BY <1>13 DEF Execute, NextCommand, Shrink, ReportRun, ReportFailure
<1>14. CASE Sweeping \/ LaunchRun \/ FinishRun \/ FinishRunFails \/ ShrinkNext \/ Summarise
  BY <1>14 DEF Sweeping, LaunchRun, FinishRun, FinishRunFails, ShrinkNext, Summarise
<1>15. QED
  BY <1>1, <1>2, <1>3, <1>4, <1>5, <1>6, <1>7, <1>8, <1>9, <1>10, <1>11, <1>12, <1>13, <1>14
     DEF Next

LEMMA NoneIn == ToSet(<<>>) = {}
BY DEF ToSet

\* The line clap refuses is over as soon as it is read.
LEMMA MistypedEnds ==
    ASSUME StageInv, ResultsInv, Next, pc' = "exited", command.name = "mistyped"
    PROVE  exit' = 2 /\ results = <<>> /\ results' = <<>>
<1>1. pc \in {"start", "exited"}
  BY DEF StageInv, Once, Ran
<1>2. Prepare \/ PrepareFails \/ NextCommand
  <2>1. ~Check /\ ~Execute /\ ~ExecuteFails /\ ~WriteTrace /\ ~JudgeRun /\ ~JudgeReplay
    BY <1>1 DEF Check, Execute, ExecuteFails, WriteTrace, JudgeRun, JudgeReplay
  <2>2. ~JudgeShrink /\ ~Shrink /\ ~ShrinkFails /\ ~Verify /\ ~ReportRun /\ ~RewriteTrace
    BY <1>1 DEF JudgeShrink, Shrink, ShrinkFails, Verify, ReportRun, RewriteTrace
  <2>3. ~ReportShrink /\ ~Fail /\ ~Sweeping /\ ~LaunchRun /\ ~FinishRun /\ ~FinishRunFails
    BY <1>1 DEF ReportShrink, Fail, Sweeping, LaunchRun, FinishRun, FinishRunFails
  <2>4. ~ShrinkNext /\ ~ReportFailure /\ ~Summarise /\ ~WriteDocument
    BY <1>1 DEF ShrinkNext, ReportFailure, Summarise, WriteDocument
  <2>5. QED
    BY <2>1, <2>2, <2>3, <2>4 DEF Next
<1>3. PrepareFails
  BY <1>2 DEF Prepare, NextCommand
<1>4. ~BadArguments
  BY DEF BadArguments, LoadsTrace
<1>5. QED
  BY <1>3, <1>4 DEF PrepareFails, Usage, Exit, ResultsInv

LEMMA ExitStep ==
    ASSUME StageInv, SweepInv, OutcomeInv, ShrinkInv, FileInv, ResultsInv, Next
    PROVE  ExitTellsTheTruth'
<1>1. SUFFICES ASSUME pc' = "exited"
               PROVE  /\ exit' = 2 => "violated" \in ToSet(results') \/ command'.name = "mistyped"
                      /\ command'.name = "mistyped" => exit' = 2 /\ results' = <<>>
                      /\ exit' = 0 => /\ "violated" \notin ToSet(results')
                                      /\ "error" \in ToSet(results') => command'.name = "fuzz"
                      /\ exit' = 1 /\ "violated" \in ToSet(results') =>
                            refused' = "write" \/ command'.name = "shrink"
  BY DEF ExitTellsTheTruth
<1>2. script' = script /\ command' = command
  BY <1>1, ScriptStays DEF NextCommand, command
<1>2a. command'.name = "mistyped" => exit' = 2 /\ results = <<>> /\ results' = <<>>
  BY <1>1, <1>2, MistypedEnds
<1>3. CASE /\ results = <<>> /\ results' = results
           /\ exit' \in {0, 1} \/ (exit' = 2 /\ command.name = "mistyped")
  BY <1>2, <1>3, <1>2a, NoneIn
<1>4. CASE results = <<>> /\ results' = Append(results, "error") /\ exit' = 1
  <2>1. results' = <<"error">>
    BY <1>4
  <2>2. ToSet(<<"error">>) = {"error"}
    BY DEF ToSet
  <2>3. QED
    BY <1>4, <1>2a, <2>1, <2>2
<1>5. CASE exit' = 1 /\ (refused' = "write" \/ command.name = "shrink")
  BY <1>2, <1>5, <1>2a
<1>6. CASE results' = results /\ pc = "judge"
           /\ \/ Passed(outcome) /\ exit' \in {0, 1}
              \/ ~Passed(outcome) /\ exit' = 2
  <2>1. /\ "error" \notin ToSet(results)
        /\ "violated" \in ToSet(results) <=> ~Passed(outcome)
    BY <1>6, JudgedRun DEF Ran, StageInv, Once
  <2>2. command'.name # "mistyped"
    BY <1>2, <1>6 DEF StageInv, Once
  <2>3. QED
    BY <1>6, <2>1, <2>2
<1>7. CASE results' = results /\ Fail /\ exit' = 2
  <2>1. pc = "failed" /\ command.name # "fuzz" /\ ~Passed(outcome)
    BY <1>7 DEF Fail, StageInv, ResultsInv, Found
  <2>2. "violated" \in ToSet(results)
    BY <2>1, JudgedRun DEF Ran
  <2>3. command'.name # "mistyped"
    BY <1>2, <2>1 DEF StageInv
  <2>4. QED
    BY <1>7, <2>2, <2>3
<1>8. CASE results' = results /\ WriteDocument /\ exit' = IF Failures = <<>> THEN 0 ELSE 2
  <2>1. pc = "document" /\ command.name = "fuzz"
    BY <1>8 DEF WriteDocument, StageInv
  <2>2. "violated" \in ToSet(results) <=> Failures # <<>>
    BY <2>1, DoneSweep
  <2>3. QED
    BY <1>2, <1>8, <2>1, <2>2
<1>9. \/ /\ results = <<>> /\ results' = results
         /\ exit' \in {0, 1} \/ (exit' = 2 /\ command.name = "mistyped")
      \/ results = <<>> /\ results' = Append(results, "error") /\ exit' = 1
      \/ exit' = 1 /\ (refused' = "write" \/ command.name = "shrink")
      \/ results' = results /\ pc = "judge"
           /\ \/ Passed(outcome) /\ exit' \in {0, 1}
              \/ ~Passed(outcome) /\ exit' = 2
      \/ results' = results /\ Fail /\ exit' = 2
      \/ results' = results /\ WriteDocument /\ exit' = IF Failures = <<>> THEN 0 ELSE 2
  BY <1>1, ExitHow
<1>10. QED
  BY Zenon, <1>3, <1>4, <1>5, <1>6, <1>7, <1>8, <1>9

LEMMA WrittenStep ==
    ASSUME StageInv, OutcomeInv, ShrinkInv, FileInv, ResultsInv, Next
    PROVE  WrittenTraceReplays'
<1>1. whole' => Readable(file') /\ Follow(Load(file')) = Load(file')
  BY FileWhole DEF Recorded
<1>2. SUFFICES ASSUME pc' = "exited", exit' = 2, setting'.steady,
                      \/ command'.name = "run" /\ command'.trace = "file"
                      \/ command'.name = "shrink" /\ command'.out = "file"
               PROVE  Target' \in ToSet(known'[Load(file')])
  BY <1>1 DEF WrittenTraceReplays
<1>3. script' = script /\ command' = command
  BY <1>2, ScriptStays DEF NextCommand, command
<1>4. Fail
  BY <1>2, <1>3, ExitHow DEF WriteDocument, StageInv
<1>5. /\ pc = "failed" /\ UNCHANGED <<setting, known, outcome, shrunk, file>>
  BY <1>4 DEF Fail, runVars, fileVars
<1>6. Target' = Target /\ setting.steady
  BY <1>2, <1>5 DEF Target
<1>7. CASE command.name = "run" /\ command.trace = "file" /\ shrunk = None
  <2>1. Load(file) = outcome.trace
    BY <1>5, <1>7 DEF FileInv, Reported
  <2>2. /\ IsRun(outcome.trace, outcome.violations, setting.steady, known)
        /\ ~Passed(outcome)
    BY <1>5 DEF OutcomeInv, ResultsInv, Ran, Found
  <2>3. known[outcome.trace] = outcome.violations
    BY <1>6, <2>2 DEF IsRun
  <2>4. Target \in ToSet(outcome.violations)
    BY <2>2, TargetIsFound DEF IsRun, Passed, Target
  <2>5. QED
    BY <1>5, <1>6, <2>1, <2>3, <2>4
<1>8. CASE \/ command.name = "run" /\ command.trace = "file" /\ shrunk # None
           \/ command.name = "shrink" /\ command.out = "file"
  <2>1. Load(file) = shrunk.trace /\ IsKept
    BY <1>5, <1>8 DEF FileInv, Reported, ShrinkInv
  <2>2. known[shrunk.trace] = shrunk.violations /\ Target \in ToSet(shrunk.violations)
    BY <1>6, <2>1 DEF IsKept, KeptOf, IsRun, Target
  <2>3. QED
    BY <1>5, <1>6, <2>1, <2>2
<1>9. QED
  BY <1>2, <1>3, <1>7, <1>8

-----------------------------------------------------------------------------
\* The invariant holds.

LEMMA InitInv == Init => CampaignInv
<1>1. SUFFICES ASSUME Init PROVE CampaignInv
  OBVIOUS
<1>2. PICK session \in Sessions :
          setting = session.setting /\ script = session.script /\ file = session.file
  BY <1>1 DEF Init
<1>3. /\ pc = "start" /\ drawn = <<>> /\ known = <<>> /\ shrunk = None /\ results = <<>>
      /\ reports = <<>> /\ whole = FALSE /\ refused = None /\ promised = FALSE
  BY <1>1 DEF Init
<1>4. mine = <<>> /\ launched = 0 /\ flying = {} /\ ended = <<>>
  BY <1>1 DEF Init, NoSweep
<1>5. /\ session.script \in Seq(ToSet(session.script))
      /\ \A i \in DOMAIN session.script : IsCommand(session.script[i])
  BY SessionsAssumption
<1>6. Listed(script)
  BY <1>2, <1>5, SequenceListed
<1>7. StageInv
  BY <1>2, <1>3, <1>5, <1>6 DEF StageInv, Once, Ran
<1>8. PromiseInv
  BY <1>3 DEF PromiseInv, CheckForetells
<1>9. ResultsInv
  BY <1>3 DEF ResultsInv, Once, Ran, Found
<1>10. SweepInv
  BY <1>4, NothingListed DEF SweepInv
<1>11. KnownInv /\ EndedInv
  BY <1>3, <1>4 DEF KnownInv, EndedInv
<1>12. OutcomeInv /\ ShrinkInv
  BY <1>3 DEF OutcomeInv, ShrinkInv, Ran
<1>13. ReportsInv
  BY <1>3, NothingListed DEF ReportsInv
<1>14. FileInv
  BY <1>3 DEF FileInv
<1>15. ExitTellsTheTruth /\ WrittenTraceReplays
  BY <1>3 DEF ExitTellsTheTruth, WrittenTraceReplays
<1>16. QED
  BY <1>7, <1>8, <1>9, <1>10, <1>11, <1>12, <1>13, <1>14, <1>15 DEF CampaignInv

LEMMA StutterInv == CampaignInv /\ UNCHANGED vars => CampaignInv'
<1>1. SUFFICES ASSUME CampaignInv, UNCHANGED vars PROVE CampaignInv'
  OBVIOUS
<1>2. UNCHANGED <<setting, script, pc, outcome, shrunk, candidate, results, reports, exit,
                  refused, promised>>
  BY <1>1 DEF vars
<1>3. UNCHANGED <<drawn, known>> /\ UNCHANGED <<file, whole>>
  BY <1>1 DEF vars, runVars, fileVars
<1>4. UNCHANGED <<mine, launched, flying, ended>>
  BY <1>1 DEF vars, sweepVars
<1>5. StageInv'
  BY <1>1, <1>2 DEF CampaignInv, StageInv, command
<1>6. PromiseInv'
  BY <1>1, <1>2 DEF CampaignInv, PromiseInv, CheckForetells, Scenery
<1>7. ResultsInv'
  BY <1>1, <1>2, <1>4 DEF CampaignInv, ResultsInv, Passed, command
<1>8. SweepInv'
  BY <1>1, <1>4 DEF CampaignInv, SweepInv
<1>9. KnownInv'
  BY <1>1, <1>2, <1>3 DEF CampaignInv, KnownInv
<1>10. EndedInv'
  BY <1>1, <1>2, <1>3, <1>4 DEF CampaignInv, EndedInv
<1>11. OutcomeInv'
  BY <1>1, <1>2, <1>3 DEF CampaignInv, OutcomeInv, Loadable, command
<1>12. ShrinkInv'
  BY <1>1, <1>2, <1>3 DEF CampaignInv, ShrinkInv, IsKept, IsCandidate, Target, command
<1>13. ReportsInv'
  BY <1>1, <1>2 DEF CampaignInv, ReportsInv
<1>14. FileInv'
  BY <1>1, <1>2, <1>3 DEF CampaignInv, FileInv, Reported, command
<1>15. ExitTellsTheTruth'
  BY <1>1, <1>2 DEF CampaignInv, ExitTellsTheTruth, command
<1>16. WrittenTraceReplays'
  BY <1>1, <1>2, <1>3 DEF CampaignInv, WrittenTraceReplays, Target, command
<1>17. QED
  BY <1>5, <1>6, <1>7, <1>8, <1>9, <1>10, <1>11, <1>12, <1>13, <1>14, <1>15, <1>16 DEF
     CampaignInv

LEMMA StepInv == CampaignInv /\ Next => CampaignInv'
<1>1. SUFFICES ASSUME CampaignInv, Next PROVE CampaignInv'
  OBVIOUS
<1>2. /\ StageInv /\ PromiseInv /\ ResultsInv /\ SweepInv /\ KnownInv /\ EndedInv /\ OutcomeInv
      /\ ShrinkInv /\ ReportsInv /\ FileInv
  BY <1>1 DEF CampaignInv
<1>3. StageInv' /\ PromiseInv' /\ SweepInv' /\ KnownInv'
  BY <1>1, <1>2, StageStep, PromiseStep, SweepStep, KnownStep
<1>4. ResultsInv' /\ EndedInv' /\ OutcomeInv'
  BY <1>1, <1>2, ResultsStep, EndedStep, OutcomeStep
<1>5. ShrinkInv' /\ ReportsInv' /\ FileInv'
  BY <1>1, <1>2, ShrinkStep, ReportsStep, FileStep
<1>6. ExitTellsTheTruth' /\ WrittenTraceReplays'
  BY <1>1, <1>2, ExitStep, WrittenStep
<1>7. QED
  BY <1>3, <1>4, <1>5, <1>6 DEF CampaignInv

\* The stages of a command, what is known at each, and what the file holds: whatever the
\* sessions, the batches and the verdicts are, every command is where its name says it may be,
\* its results are those of the runs it executed, and every trace it holds is a recording.
THEOREM EveryStageIsAsItSays == Spec => []CampaignInv
<1>1. CampaignInv /\ [Next]_vars => CampaignInv'
  BY StepInv, StutterInv
<1>2. QED
  BY InitInv, <1>1, PTL DEF Spec

-----------------------------------------------------------------------------
\* What the command line promises.

\* main.rs: the exit code of every command that clap takes tells a caught bug from a broken
\* harness, for any list of commands over any scenario, and for sweeps of any size in any
\* order.  A line that clap refuses exits 2 and has run nothing.
THEOREM ExitCodesAreTrue == Spec => []ExitTellsTheTruth
<1>1. CampaignInv => ExitTellsTheTruth
  BY DEF CampaignInv
<1>2. QED
  BY EveryStageIsAsItSays, <1>1, PTL

\* check and Runner::execute: after a check that found everything good no command is refused
\* for anything check looks at, whatever the scenario, the build and the corpus are.
THEOREM ChecksForetell == Spec => []CheckForetells
<1>1. CampaignInv => CheckForetells
  BY DEF CampaignInv, PromiseInv
<1>2. QED
  BY EveryStageIsAsItSays, <1>1, PTL

\* shrink_if_asked, shrink_trace and Reproducer::build: what is reported in place of a failure
\* is a failure, carries out no decision it did not, and of a steady system breaks the same.
THEOREM FailuresAreKept == Spec => []FailureKept
<1>1. CampaignInv => FailureKept
  <2>1. SUFFICES ASSUME CampaignInv PROVE FailureKept
    OBVIOUS
  <2>2. \A i \in DOMAIN reports : Counts(reports[i])
    BY <2>1 DEF CampaignInv, ReportsInv
  <2>3. shrunk # None => IsKept
    BY <2>1 DEF CampaignInv, ShrinkInv
  <2>4. QED
    BY <2>2, <2>3 DEF FailureKept, Counts, IsKept, KeptOf, Target
<1>2. QED
  BY EveryStageIsAsItSays, <1>1, PTL

\* write_trace and Trace::save: a file written to its end is a recording that a replay goes
\* through to its end, and the file of a command that found something breaks it again.
THEOREM WrittenTracesReplay == Spec => []WrittenTraceReplays
<1>1. CampaignInv => WrittenTraceReplays
  BY DEF CampaignInv
<1>2. QED
  BY EveryStageIsAsItSays, <1>1, PTL

-----------------------------------------------------------------------------
\* Replays of files that nobody here wrote.

LEMMA ReplayPasses ==
    ASSUME StageInv, Next, pc' = "exited", exit' = 0, command'.name = "replay"
    PROVE  JudgeReplay
<1>1. script' = script /\ command' = command
  BY ScriptStays DEF NextCommand, command
<1>2. command.name = "replay"
  BY <1>1
<1>3. CASE Prepare
  BY <1>2, <1>3 DEF Prepare, Refuse, Exit
<1>4. CASE PrepareFails \/ Check \/ ExecuteFails \/ WriteTrace \/ JudgeRun \/ JudgeShrink
  BY <1>2, <1>4 DEF PrepareFails, Usage, Check, ExecuteFails, WriteTrace, Write, JudgeRun,
     JudgeShrink,
     Refuse, Exit, StageInv
<1>5. CASE ShrinkFails \/ Verify \/ RewriteTrace \/ ReportShrink \/ Fail \/ WriteDocument
  BY <1>2, <1>5 DEF ShrinkFails, Verify, RewriteTrace, ReportShrink, Fail, WriteDocument,
     StageInv
<1>6. QED
  BY <1>3, <1>4, <1>5 DEF Next, NextCommand, Execute, Shrink, ReportRun, Sweeping, LaunchRun,
     FinishRun, FinishRunFails, ShrinkNext, ReportFailure, Summarise

LEMMA FollowedStep ==
    ASSUME CampaignInv, Next
    PROVE  ReplayMeansFollowed'
<1>1. SUFFICES ASSUME pc' = "exited", command'.name = "replay", exit' = 0
               PROVE  CarriesOut(Load(file'), outcome'.trace)
  BY DEF ReplayMeansFollowed
<1>2. StageInv /\ OutcomeInv
  BY DEF CampaignInv
<1>3. JudgeReplay
  BY <1>1, <1>2, ReplayPasses
<1>4. ~Diverged /\ file' = file /\ outcome' = outcome /\ pc = "judge" /\ command.name = "replay"
  BY <1>1, <1>3 DEF JudgeReplay, Refuse, Exit, fileVars
<1>5. outcome.trace = Follow(Load(file))
  BY <1>2, <1>4 DEF OutcomeInv
<1>6. PICK trace, run : trace = Load(file) /\ run = outcome.trace
  OBVIOUS
<1>7. Divergence(trace, run) = [unused |-> {}, unmatched |-> {}]
  BY <1>4, <1>6 DEF Diverged, Follows
<1>8. KeysIn(trace) \ KeysIn(run) = {} /\ KeysIn(run) \ KeysIn(trace) = {}
  BY <1>7 DEF Divergence
<1>9. KeysIn(run) = KeysIn(trace)
  BY <1>8
<1>10. CarriesOut(trace, run)
  BY <1>5, <1>6, <1>9, FollowsToTheEnd
<1>11. QED
  BY <1>4, <1>6, <1>10

\* replay: "did not reproduce" is said only of a run that reached the forks whose keys are in
\* its file and no others, and got at each what the file says of that key last, whatever lines
\* the file holds and in whatever order, with keys once or several times.
THEOREM PassesFollowed == Spec => []ReplayMeansFollowed
<1>1. Init => ReplayMeansFollowed
  BY DEF Init, ReplayMeansFollowed
<1>2. CampaignInv /\ ReplayMeansFollowed /\ [Next]_vars => ReplayMeansFollowed'
  <2>1. ASSUME CampaignInv, Next
        PROVE  ReplayMeansFollowed'
    BY <2>1, FollowedStep
  <2>2. ASSUME ReplayMeansFollowed, UNCHANGED vars
        PROVE  ReplayMeansFollowed'
    BY <2>2 DEF vars, fileVars, ReplayMeansFollowed, command
  <2>3. QED
    BY <2>1, <2>2
<1>3. QED
  BY <1>1, <1>2, EveryStageIsAsItSays, PTL DEF Spec

-----------------------------------------------------------------------------
\* How often lists hold what they hold.

\* Sets that a bijection takes to each other have as many elements.
Carries(f, A, B, S, T) ==
    /\ f \in Bijection(A, B)
    /\ S \in SUBSET A /\ T \in SUBSET B /\ \A x \in A : x \in S <=> f[x] \in T

LEMMA SameMany ==
    ASSUME NEW A, NEW B, NEW f, NEW S, NEW T, Carries(f, A, B, S, T), IsFiniteSet(B)
    PROVE  Cardinality(S) = Cardinality(T)
<1>1. PICK g : g = [x \in S |-> f[x]]
  OBVIOUS
<1>2. /\ f \in [A -> B] /\ \A x, y \in A : f[x] = f[y] => x = y
      /\ \A y \in B : \E x \in A : f[x] = y
  BY DEF Carries, Bijection, Injection, IsInjective, Surjection
<1>3. S \in SUBSET A /\ T \in SUBSET B /\ \A x \in A : x \in S <=> f[x] \in T
  BY DEF Carries
<1>4. g \in [S -> T] /\ \A x \in S : g[x] = f[x]
  BY <1>1, <1>2, <1>3
<1>5. g \in Injection(S, T)
  BY <1>2, <1>3, <1>4 DEF Injection, IsInjective
<1>6. g \in Surjection(S, T)
  <2>1. ASSUME NEW y \in T
        PROVE  \E x \in S : g[x] = y
    <3>1. PICK x \in A : f[x] = y
      BY <1>2, <1>3
    <3>2. x \in S /\ g[x] = y
      BY <1>3, <1>4, <3>1
    <3>3. QED
      BY <3>2
  <2>2. QED
    BY <1>4, <2>1 DEF Surjection
<1>7. IsFiniteSet(T)
  BY <1>3, FS_Subset
<1>8. QED
  BY <1>5, <1>6, <1>7, FS_Injection

LEMMA ListingBijects ==
    ASSUME NEW set, IsFiniteSet(set), NEW order, Orders(order, set),
           NEW n \in Nat, n = Cardinality(set), NEW list, list = Listing(order, set)
    PROVE  /\ list \in Bijection(1 .. n, set)
           /\ \A i, j \in 1 .. n : i < j => <<list[i], list[j]>> \in order
<1>1. /\ list \in [1 .. n -> set]
      /\ \A x \in set : \E k \in 1 .. n : list[k] = x
      /\ \A i, j \in 1 .. n : i < j => <<list[i], list[j]>> \in order
  BY ListingIs, SMTT(30)
<1>2. \A x \in set : <<x, x>> \notin order
  BY DEF Orders
<1>3. ASSUME NEW i \in 1 .. n, NEW j \in 1 .. n, list[i] = list[j]
      PROVE  i = j
  <2>1. list[i] \in set
    BY <1>1
  <2>2. ~(i < j) /\ ~(j < i)
    BY <1>1, <1>2, <1>3, <2>1
  <2>3. QED
    BY <2>2
<1>4. list \in Injection(1 .. n, set)
  BY <1>1, <1>3 DEF Injection, IsInjective
<1>5. list \in Surjection(1 .. n, set)
  BY <1>1 DEF Surjection
<1>6. QED
  BY <1>1, <1>4, <1>5 DEF Bijection

\* What is picked of a list, place by place.
LEMMA PickedAt ==
    ASSUME NEW set \in SUBSET Nat, IsFiniteSet(set), NEW n \in Nat, n = Cardinality(set),
           NEW list, NEW some, some = Picked(list, set)
    PROVE  \E at \in Bijection(1 .. n, set) : some = [k \in 1 .. n |-> list[at[k]]]
<1>1. PICK at : at = Ranked(set, LAMBDA i, j : i < j)
  OBVIOUS
<1>2. \A x \in set : Below(PlaceOrder, set, x) = {y \in set : y < x}
  BY DEF Below, PlaceOrder
<1>3. \A k \in 1 .. n : (CHOOSE x \in set : Cardinality(Below(PlaceOrder, set, x)) = k - 1)
                       = (CHOOSE x \in set : Cardinality({y \in set : y < x}) = k - 1)
  BY <1>2
<1>4. at = Listing(PlaceOrder, set)
  BY <1>1, <1>3 DEF Ranked, Listing
<1>5. at \in Bijection(1 .. n, set)
  BY <1>4, PlaceOrderOrders, ListingBijects
<1>6. some = [k \in 1 .. n |-> list[at[k]]]
  BY <1>1 DEF Picked
<1>7. QED
  BY <1>5, <1>6

LEMMA PickedTimes ==
    ASSUME NEW set \in SUBSET Nat, IsFiniteSet(set), NEW list, NEW some, some = Picked(list, set),
           NEW item
    PROVE  Times(some, item) = Cardinality({i \in set : list[i] = item})
<1>1. PICK n \in Nat : n = Cardinality(set)
  BY FS_CardinalityType
<1>2. PICK at \in Bijection(1 .. n, set) : some = [k \in 1 .. n |-> list[at[k]]]
  BY <1>1, PickedAt
<1>3. PICK S : S = {k \in DOMAIN some : some[k] = item}
  OBVIOUS
<1>4. PICK T : T = {i \in set : list[i] = item}
  OBVIOUS
<1>5. at \in [1 .. n -> set]
  BY DEF Bijection, Injection
<1>6. DOMAIN some = 1 .. n /\ \A k \in 1 .. n : some[k] = list[at[k]]
  BY <1>2
<1>7. PICK places : places = 1 .. n
  OBVIOUS
<1>8. S \in SUBSET places /\ T \in SUBSET set /\ at \in Bijection(places, set)
  BY <1>3, <1>4, <1>6, <1>7
<1>9. Carries(at, places, set, S, T)
  BY <1>3, <1>4, <1>5, <1>6, <1>7, <1>8 DEF Carries
<1>10. Cardinality(S) = Cardinality(T)
  BY <1>9, SameMany
<1>11. QED
  BY <1>3, <1>4, <1>10 DEF Times

\* Sorting a list of seeds changes where they are and not how often.
SeedOrder(set, seeds) ==
    {pair \in set \X set : \/ seeds[pair[1]] < seeds[pair[2]]
                          \/ (seeds[pair[1]] = seeds[pair[2]] /\ pair[1] < pair[2])}

LEMMA SeedOrderOrders ==
    ASSUME NEW set \in SUBSET Nat, NEW seeds \in [set -> Nat]
    PROVE  Orders(SeedOrder(set, seeds), set)
<1> DEFINE order == SeedOrder(set, seeds)
<1>1. \A x \in set : x \in Nat /\ seeds[x] \in Nat
  OBVIOUS
<1>2. \A x, y \in set :
          <<x, y>> \in order <=> (seeds[x] < seeds[y] \/ (seeds[x] = seeds[y] /\ x < y))
  BY DEF SeedOrder
<1> HIDE DEF order
<1>3. \A x \in set : <<x, x>> \notin order
  BY <1>1, <1>2
<1>4. \A x, y \in set : x # y => <<x, y>> \in order \/ <<y, x>> \in order
  BY <1>1, <1>2
<1>5. ASSUME NEW x \in set, NEW y \in set, NEW z \in set, <<x, y>> \in order, <<y, z>> \in order
      PROVE  <<x, z>> \in order
  <2>1. PICK a \in Nat, b \in Nat, c \in Nat : a = seeds[x] /\ b = seeds[y] /\ c = seeds[z]
    BY <1>1
  <2>2. (a < b \/ (a = b /\ x < y)) /\ (b < c \/ (b = c /\ y < z))
    BY <1>2, <1>5, <2>1
  <2>3. a < c \/ (a = c /\ x < z)
    BY <1>1, <2>2
  <2>4. QED
    BY <1>2, <2>1, <2>3
<1>6. Orders(order, set)
  BY <1>3, <1>4, <1>5 DEF Orders
<1>7. QED
  BY <1>6 DEF order

LEMMA SortedIs ==
    ASSUME NEW n \in Nat, NEW seeds \in [1 .. n -> Nat], NEW sorted, sorted = Sorted(seeds)
    PROVE  /\ sorted \in [1 .. n -> Nat]
           /\ \A seed : Times(sorted, seed) = Times(seeds, seed)
<1>1. PICK set : set = 1 .. n
  OBVIOUS
<1>2. /\ IsFiniteSet(set) /\ Cardinality(set) = n /\ DOMAIN seeds = set
      /\ set \in SUBSET Nat /\ seeds \in [set -> Nat]
  BY <1>1, IntervalSize
<1>3. PICK order : order = SeedOrder(set, seeds)
  OBVIOUS
<1>4. \A x, y \in set :
          <<x, y>> \in order <=> (seeds[x] < seeds[y] \/ (seeds[x] = seeds[y] /\ x < y))
  BY <1>3 DEF SeedOrder
<1>5. \A x \in set : seeds[x] \in Nat
  BY <1>1
<1>6. Orders(order, set)
  BY <1>2, <1>3, SeedOrderOrders
<1>7. PICK at : at = Listing(order, set)
  OBVIOUS
<1>8. \A x \in set : Below(order, set, x)
                      = {y \in set : seeds[y] < seeds[x] \/ (seeds[y] = seeds[x] /\ y < x)}
  BY <1>4 DEF Below
<1>9. \A k \in 1 .. n :
         (CHOOSE x \in set : Cardinality(Below(order, set, x)) = k - 1)
         = (CHOOSE x \in set : Cardinality({y \in set :
               seeds[y] < seeds[x] \/ (seeds[y] = seeds[x] /\ y < x)}) = k - 1)
  BY <1>8
<1>10. sorted = [k \in set |-> seeds[at[k]]]
  <2>1. PICK ranked : ranked = Ranked(set, LAMBDA i, j : seeds[i] < seeds[j]
                                                        \/ (seeds[i] = seeds[j] /\ i < j))
    OBVIOUS
  <2>2. at = ranked
    <3> DEFINE p(k) == CHOOSE x \in set : Cardinality({y \in set :
                          seeds[y] < seeds[x] \/ (seeds[y] = seeds[x] /\ y < x)}) = k - 1
               q(k) == CHOOSE x \in set : Cardinality(Below(order, set, x)) = k - 1
    <3>1. ranked = [k \in 1 .. n |-> p(k)]
      BY <1>2, <2>1, Zenon DEF Ranked
    <3>2. at = [k \in 1 .. n |-> q(k)]
      BY <1>2, <1>7, Zenon DEF Listing
    <3>3. \A k \in 1 .. n : q(k) = p(k)
      BY <1>9, Zenon
    <3> HIDE DEF p, q
    <3>4. QED
      BY <3>1, <3>2, <3>3
  <2>3. QED
    BY <1>2, <2>1, <2>2 DEF Sorted
<1>11. at \in Bijection(set, set)
  BY <1>1, <1>2, <1>6, <1>7, ListingBijects
<1>12. at \in [set -> set]
  BY <1>11 DEF Bijection, Injection
<1>13. sorted \in [1 .. n -> Nat]
  BY <1>1, <1>5, <1>10, <1>12
<1>14. ASSUME NEW seed
       PROVE  Times(sorted, seed) = Times(seeds, seed)
  <2>1. PICK S, T : S = {k \in DOMAIN sorted : sorted[k] = seed}
                    /\ T = {k \in DOMAIN seeds : seeds[k] = seed}
    OBVIOUS
  <2>2. Carries(at, set, set, S, T)
    BY <1>1, <1>10, <1>11, <1>12, <2>1 DEF Carries
  <2>3. Cardinality(S) = Cardinality(T)
    BY <1>2, <2>2, SameMany
  <2>4. QED
    BY <2>1, <2>3 DEF Times
<1>15. QED
  BY <1>13, <1>14

-----------------------------------------------------------------------------
\* The groups of a sweep's document.

OfKind(failures, signature) == {i \in DOMAIN failures : failures[i].signature = signature}
OfSeed(failures, signature, seed) ==
    {i \in DOMAIN failures : failures[i].signature = signature /\ failures[i].seed = seed}
SeedsAreNumbers(failures) == \A i \in DOMAIN failures : failures[i].seed \in Nat

LEMMA GroupIs ==
    ASSUME NEW n \in Nat, NEW failures, DOMAIN failures = 1 .. n, SeedsAreNumbers(failures),
           NEW signature, NEW group, group = GroupOf(failures, signature)
    PROVE  /\ group.signature = signature
           /\ Cardinality(OfKind(failures, signature)) \in Nat
           /\ group.seeds \in [1 .. Cardinality(OfKind(failures, signature)) -> Nat]
           /\ \A seed : Times(group.seeds, seed)
                           = Cardinality(OfSeed(failures, signature, seed))
<1>1. PICK set : set = OfKind(failures, signature)
  OBVIOUS
<1>2. set \in SUBSET (1 .. n) /\ set \in SUBSET Nat
  BY <1>1 DEF OfKind
<1>3. IsFiniteSet(set)
  BY <1>2, IntervalSize, FS_Subset
<1>4. PICK m \in Nat : m = Cardinality(set)
  BY <1>3, FS_CardinalityType
<1>5. PICK members : members = Picked(failures, set)
  OBVIOUS
<1>6. PICK at \in Bijection(1 .. m, set) : members = [k \in 1 .. m |-> failures[at[k]]]
  BY <1>2, <1>3, <1>4, <1>5, PickedAt
<1>7. at \in [1 .. m -> set]
  BY DEF Bijection, Injection
<1>8. PICK seeds : seeds = [i \in DOMAIN members |-> members[i].seed]
  OBVIOUS
<1>9. DOMAIN members = 1 .. m /\ \A k \in 1 .. m : seeds[k] = failures[at[k]].seed
  BY <1>6, <1>8
<1>10. \A i \in set : failures[i].seed \in Nat
  BY <1>1 DEF OfKind, SeedsAreNumbers
<1>11. seeds \in [1 .. m -> Nat]
  BY <1>7, <1>8, <1>9, <1>10
<1>12. group.signature = signature /\ group.seeds = Sorted(seeds)
  <2>1. members = Picked(failures, {i \in DOMAIN failures : failures[i].signature = signature})
    BY <1>1, <1>5 DEF OfKind
  <2>2. group = [signature |-> signature, invariant |-> members[1].violations[1],
                 seeds |-> Sorted(seeds)]
    BY <1>8, <2>1 DEF GroupOf
  <2>3. QED
    BY <2>2
<1>13. /\ group.seeds \in [1 .. m -> Nat]
       /\ \A seed : Times(group.seeds, seed) = Times(seeds, seed)
  BY <1>11, <1>12, SortedIs
<1>14. ASSUME NEW seed
       PROVE  Times(seeds, seed) = Cardinality(OfSeed(failures, signature, seed))
  <2>1. PICK S : S = {k \in DOMAIN seeds : seeds[k] = seed}
    OBVIOUS
  <2>2. PICK T : T = OfSeed(failures, signature, seed)
    OBVIOUS
  <2>3. PICK places : places = 1 .. m
    OBVIOUS
  <2>4. T = {i \in set : failures[i].seed = seed}
    BY <1>1, <2>2 DEF OfKind, OfSeed
  <2>5. Carries(at, places, set, S, T)
    BY <1>7, <1>9, <1>11, <2>1, <2>3, <2>4 DEF Carries
  <2>6. Cardinality(S) = Cardinality(T)
    BY <1>3, <2>5, SameMany
  <2>7. QED
    BY <2>1, <2>2, <2>6 DEF Times
<1>15. QED
  BY <1>1, <1>4, <1>12, <1>13, <1>14

\* The groups, each with the place of its first failure, and their order.
GroupsOf(failures) ==
    {[first |-> i, group |-> GroupOf(failures, failures[i].signature)] : i \in FirstOfKind(failures)}
GroupOrder(groups) == {pair \in groups \X groups : Foremost(pair[1], pair[2])}

LEMMA GroupsFinite ==
    ASSUME NEW n \in Nat, NEW failures, DOMAIN failures = 1 .. n
    PROVE  IsFiniteSet(GroupsOf(failures)) /\ Cardinality(GroupsOf(failures)) \in Nat
<1>1. PICK firsts : firsts = FirstOfKind(failures)
  OBVIOUS
<1>2. firsts \in SUBSET (1 .. n)
  BY <1>1 DEF FirstOfKind
<1>3. IsFiniteSet(firsts)
  BY <1>2, IntervalSize, FS_Subset
<1>4. PICK groups : groups = GroupsOf(failures)
  OBVIOUS
<1>5. PICK f : f = [i \in firsts |-> [first |-> i, group |-> GroupOf(failures, failures[i].signature)]]
  OBVIOUS
<1>6. \A i \in firsts : f[i] = [first |-> i, group |-> GroupOf(failures, failures[i].signature)]
  BY <1>5
<1>7. groups = {f[i] : i \in firsts}
  BY <1>1, <1>4, <1>6 DEF GroupsOf
<1>8. f \in Surjection(firsts, groups)
  BY <1>5, <1>7 DEF Surjection
<1>9. IsFiniteSet(groups)
  BY <1>3, <1>8, FS_Surjection
<1>10. QED
  BY <1>4, <1>9, FS_CardinalityType

LEMMA GroupHas ==
    ASSUME NEW n \in Nat, NEW failures, DOMAIN failures = 1 .. n, SeedsAreNumbers(failures),
           NEW x \in GroupsOf(failures)
    PROVE  /\ x.first \in FirstOfKind(failures)
           /\ x = [first |-> x.first, group |-> GroupOf(failures, failures[x.first].signature)]
           /\ x.first \in Nat /\ Len(x.group.seeds) \in Nat /\ x.group.seeds[1] \in Nat
<1>1. PICK i \in FirstOfKind(failures) :
          x = [first |-> i, group |-> GroupOf(failures, failures[i].signature)]
  BY DEF GroupsOf
<1>2. i \in 1 .. n
  BY DEF FirstOfKind
<1>3. PICK set : set = OfKind(failures, failures[i].signature)
  OBVIOUS
<1>4. set \in SUBSET (1 .. n) /\ i \in set
  BY <1>2, <1>3 DEF OfKind
<1>5. IsFiniteSet(set) /\ set # {}
  BY <1>4, IntervalSize, FS_Subset
<1>6. PICK m \in Nat : m = Cardinality(set) /\ m # 0
  BY <1>5, FS_CardinalityType, FS_EmptySet
<1>7. PICK group : group = GroupOf(failures, failures[i].signature)
  OBVIOUS
<1>8. group.seeds \in [1 .. m -> Nat]
  BY <1>3, <1>6, <1>7, GroupIs
<1>9. Len(group.seeds) = m /\ group.seeds[1] \in Nat
  BY <1>6, <1>8
<1>10. x.first = i /\ x.group = group
  BY <1>1, <1>7
<1>11. QED
  BY <1>1, <1>2, <1>6, <1>7, <1>9, <1>10

LEMMA GroupOrderOrders ==
    ASSUME NEW n \in Nat, NEW failures, DOMAIN failures = 1 .. n, SeedsAreNumbers(failures)
    PROVE  Orders(GroupOrder(GroupsOf(failures)), GroupsOf(failures))
<1>1. PICK groups : groups = GroupsOf(failures)
  OBVIOUS
<1>2. PICK size, lead, first : /\ size = [x \in groups |-> Len(x.group.seeds)]
                               /\ lead = [x \in groups |-> x.group.seeds[1]]
                               /\ first = [x \in groups |-> x.first]
  OBVIOUS
<1>3. \A x \in groups : size[x] \in Nat /\ lead[x] \in Nat /\ first[x] \in Nat
  BY <1>1, <1>2, GroupHas
<1>4. \A x, y \in groups : first[x] = first[y] => x = y
  <2>1. \A x \in groups :
            x = [first |-> first[x], group |-> GroupOf(failures, failures[first[x]].signature)]
    BY <1>1, <1>2, GroupHas
  <2>2. QED
    BY <2>1
<1>5. \A x, y \in groups :
          Foremost(x, y) <=> \/ size[x] > size[y]
                             \/ size[x] = size[y] /\ lead[x] < lead[y]
                             \/ size[x] = size[y] /\ lead[x] = lead[y] /\ first[x] < first[y]
  <2>1. SUFFICES ASSUME NEW x \in groups, NEW y \in groups
                 PROVE  Foremost(x, y) <=>
                             \/ size[x] > size[y]
                             \/ size[x] = size[y] /\ lead[x] < lead[y]
                             \/ size[x] = size[y] /\ lead[x] = lead[y] /\ first[x] < first[y]
    OBVIOUS
  <2>2. PICK s \in Nat, l \in Nat, f \in Nat :
            s = Len(x.group.seeds) /\ l = x.group.seeds[1] /\ f = x.first
    BY <1>2, <1>3
  <2>3. PICK t \in Nat, m \in Nat, g \in Nat :
            t = Len(y.group.seeds) /\ m = y.group.seeds[1] /\ g = y.first
    BY <1>2, <1>3
  <2>4. InFront(x.group, y.group) <=> (s > t \/ (s = t /\ l < m))
    BY <2>2, <2>3 DEF InFront
  <2>5. InFront(y.group, x.group) <=> (t > s \/ (t = s /\ m < l))
    BY <2>2, <2>3 DEF InFront
  <2>6. Foremost(x, y) <=> (s > t \/ (s = t /\ l < m)) \/ (~(t > s \/ (t = s /\ m < l)) /\ f < g)
    BY <2>2, <2>3, <2>4, <2>5 DEF Foremost
  <2>7. size[x] = s /\ lead[x] = l /\ first[x] = f /\ size[y] = t /\ lead[y] = m /\ first[y] = g
    BY <1>2, <2>2, <2>3
  <2>8. QED
    BY <2>6, <2>7
<1>6. PICK order : order = GroupOrder(groups)
  OBVIOUS
<1>7. \A x, y \in groups :
          <<x, y>> \in order <=> \/ size[x] > size[y]
                                 \/ size[x] = size[y] /\ lead[x] < lead[y]
                                 \/ size[x] = size[y] /\ lead[x] = lead[y] /\ first[x] < first[y]
  <2>1. \A x, y \in groups : <<x, y>> \in order <=> Foremost(x, y)
    BY <1>6 DEF GroupOrder
  <2>2. QED
    BY <1>5, <2>1
<1>8. \A x \in groups : <<x, x>> \notin order
  BY <1>3, <1>7
<1>9. \A x, y \in groups : x # y => <<x, y>> \in order \/ <<y, x>> \in order
  BY <1>3, <1>4, <1>7
<1>10. ASSUME NEW x \in groups, NEW y \in groups, NEW z \in groups,
              <<x, y>> \in order, <<y, z>> \in order
       PROVE  <<x, z>> \in order
  <2>1. PICK s \in Nat, l \in Nat, f \in Nat : s = size[x] /\ l = lead[x] /\ f = first[x]
    BY <1>3
  <2>2. PICK t \in Nat, m \in Nat, g \in Nat : t = size[y] /\ m = lead[y] /\ g = first[y]
    BY <1>3
  <2>3. PICK u \in Nat, k \in Nat, h \in Nat : u = size[z] /\ k = lead[z] /\ h = first[z]
    BY <1>3
  <2>4. s > t \/ (s = t /\ l < m) \/ (s = t /\ l = m /\ f < g)
    BY <1>7, <1>10, <2>1, <2>2
  <2>5. t > u \/ (t = u /\ m < k) \/ (t = u /\ m = k /\ g < h)
    BY <1>7, <1>10, <2>2, <2>3
  <2>6. s > u \/ (s = u /\ l < k) \/ (s = u /\ l = k /\ f < h)
    BY <2>4, <2>5
  <2>7. QED
    BY <1>7, <2>1, <2>3, <2>6
<1>11. Orders(order, groups)
  BY <1>8, <1>9, <1>10 DEF Orders
<1>12. QED
  BY <1>1, <1>6, <1>11

LEMMA GroupsListed ==
    ASSUME NEW n \in Nat, NEW failures, DOMAIN failures = 1 .. n, SeedsAreNumbers(failures),
           NEW m \in Nat, m = Cardinality(GroupsOf(failures))
    PROVE  \E ranked \in Bijection(1 .. m, GroupsOf(failures)) :
               /\ Group(failures) = [k \in 1 .. m |-> ranked[k].group]
               /\ \A g, h \in 1 .. m : g < h =>
                      <<ranked[g], ranked[h]>> \in GroupOrder(GroupsOf(failures))
<1>1. PICK groups : groups = GroupsOf(failures)
  OBVIOUS
<1>2. PICK order : order = GroupOrder(groups)
  OBVIOUS
<1>3. IsFiniteSet(groups) /\ Orders(order, groups) /\ m = Cardinality(groups)
  BY <1>1, <1>2, GroupsFinite, GroupOrderOrders
<1>4. PICK ranked : ranked = Ranked(groups, Foremost)
  OBVIOUS
<1>5. ranked = Listing(order, groups)
  <2>1. \A x \in groups : Below(order, groups, x) = {y \in groups : Foremost(y, x)}
    BY <1>2 DEF Below, GroupOrder
  <2> DEFINE p(k) == CHOOSE x \in groups : Cardinality({y \in groups : Foremost(y, x)}) = k - 1
             q(k) == CHOOSE x \in groups : Cardinality(Below(order, groups, x)) = k - 1
  <2>2. \A k \in 1 .. m : p(k) = q(k)
    BY <2>1
  <2>3. ranked = [k \in 1 .. m |-> p(k)]
    BY <1>3, <1>4, Zenon DEF Ranked
  <2>4. Listing(order, groups) = [k \in 1 .. m |-> q(k)]
    BY <1>3, Zenon DEF Listing
  <2> HIDE DEF p, q
  <2>5. QED
    BY <2>2, <2>3, <2>4
<1>6. /\ ranked \in Bijection(1 .. m, groups)
      /\ \A g, h \in 1 .. m : g < h => <<ranked[g], ranked[h]>> \in order
  BY <1>3, <1>5, ListingBijects
<1>7. Group(failures) = [k \in 1 .. m |-> ranked[k].group]
  BY <1>1, <1>3, <1>4 DEF Group, GroupsOf
<1>8. QED
  BY <1>1, <1>2, <1>6, <1>7

\* SweepReport::group: every failure is in one group, each group has its own failures' seeds,
\* and the groups found most come first.
LEMMA GroupsAccounted ==
    ASSUME NEW n \in Nat, NEW failures, DOMAIN failures = 1 .. n, SeedsAreNumbers(failures)
    PROVE  GroupsAccount(Group(failures), failures)
<1>1. PICK m \in Nat : m = Cardinality(GroupsOf(failures))
  BY GroupsFinite
<1>2. PICK ranked \in Bijection(1 .. m, GroupsOf(failures)) :
               /\ Group(failures) = [k \in 1 .. m |-> ranked[k].group]
               /\ \A g, h \in 1 .. m : g < h =>
                      <<ranked[g], ranked[h]>> \in GroupOrder(GroupsOf(failures))
  BY <1>1, GroupsListed
<1>3. PICK groups : groups = Group(failures)
  OBVIOUS
<1>4. DOMAIN groups = 1 .. m /\ \A g \in 1 .. m : groups[g] = ranked[g].group
  BY <1>2, <1>3
<1>5. PICK all : all = GroupsOf(failures)
  OBVIOUS
<1>6. /\ ranked \in [1 .. m -> all] /\ \A x \in all : \E g \in 1 .. m : ranked[g] = x
      /\ \A g, h \in 1 .. m : ranked[g] = ranked[h] => g = h
  BY <1>2, <1>5 DEF Bijection, Injection, IsInjective, Surjection
<1>7. \A x \in all :
        /\ x.first \in FirstOfKind(failures)
        /\ x = [first |-> x.first, group |-> GroupOf(failures, failures[x.first].signature)]
        /\ Len(x.group.seeds) \in Nat
  BY <1>5, GroupHas
<1>8. PICK first : first = [g \in 1 .. m |-> ranked[g].first]
  OBVIOUS
<1>9. \A g \in 1 .. m :
        /\ first[g] \in FirstOfKind(failures)
        /\ ranked[g] = [first |-> first[g],
                        group |-> GroupOf(failures, failures[first[g]].signature)]
        /\ groups[g] = GroupOf(failures, failures[first[g]].signature)
        /\ groups[g].signature = failures[first[g]].signature
  <2>1. SUFFICES ASSUME NEW g \in 1 .. m
                 PROVE  /\ first[g] \in FirstOfKind(failures)
                        /\ ranked[g] = [first |-> first[g],
                              group |-> GroupOf(failures, failures[first[g]].signature)]
                        /\ groups[g] = GroupOf(failures, failures[first[g]].signature)
                        /\ groups[g].signature = failures[first[g]].signature
    OBVIOUS
  <2>2. PICK x \in all : x = ranked[g]
    BY <1>6
  <2>3. first[g] = x.first /\ groups[g] = x.group
    BY <1>4, <1>8, <2>2
  <2>4. PICK group : group = GroupOf(failures, failures[first[g]].signature)
    OBVIOUS
  <2>5. x = [first |-> first[g], group |-> group] /\ first[g] \in FirstOfKind(failures)
    BY <1>7, <2>3, <2>4
  <2>6. groups[g] = group
    BY <2>3, <2>5
  <2>7. group.signature = failures[first[g]].signature
    BY <2>4, GroupIs
  <2>8. QED
    BY <2>2, <2>4, <2>5, <2>6, <2>7
<1>10. ASSUME NEW i \in 1 .. n
       PROVE  Cardinality({g \in DOMAIN groups : groups[g].signature = failures[i].signature}) = 1
  <2>1. PICK set : set = OfKind(failures, failures[i].signature)
    OBVIOUS
  <2>2. i \in set /\ set \in SUBSET (1 .. n) /\ set \in SUBSET Nat /\ set # {}
    BY <2>1 DEF OfKind
  <2>3. PICK j \in set : \A k \in set : j <= k
    BY <2>2, LeastExists
  <2>4. \A k \in 1 .. n : k \in set <=> failures[k].signature = failures[i].signature
    BY <2>1 DEF OfKind
  <2>5. j \in FirstOfKind(failures)
    <3>1. ASSUME NEW k \in 1 .. j - 1
          PROVE  failures[k].signature # failures[j].signature
      <4>1. j \in 1 .. n
        BY <2>2
      <4>2. k \in 1 .. n /\ ~(j <= k)
        BY <4>1
      <4>3. k \notin set
        BY <2>3, <4>2
      <4>4. QED
        BY <2>4, <4>1, <4>2, <4>3
    <3>2. QED
      BY <2>2, <3>1 DEF FirstOfKind
  <2>6. PICK x : x = [first |-> j, group |-> GroupOf(failures, failures[j].signature)]
    OBVIOUS
  <2>7. x \in all
    BY <1>5, <2>5, <2>6 DEF GroupsOf
  <2>8. PICK g \in 1 .. m : ranked[g] = x
    BY <1>6, <2>7
  <2>9. first[g] = j /\ groups[g].signature = failures[i].signature
    BY <1>8, <1>9, <2>2, <2>4, <2>6, <2>8
  <2>10. ASSUME NEW h \in 1 .. m, groups[h].signature = failures[i].signature
         PROVE  h = g
    <3>1. PICK k : k = first[h]
      OBVIOUS
    <3>2. k \in FirstOfKind(failures) /\ failures[k].signature = failures[i].signature
      BY <1>9, <2>10, <3>1
    <3>3. k \in 1 .. n /\ \A l \in 1 .. k - 1 : failures[l].signature # failures[k].signature
      BY <3>2 DEF FirstOfKind
    <3>4. j \in 1 .. n /\ failures[j].signature = failures[i].signature /\ j <= k
      BY <2>2, <2>3, <2>4, <3>2, <3>3
    <3>5. k = j
      <4>1. j \notin 1 .. k - 1
        BY <3>2, <3>3, <3>4
      <4>2. QED
        BY <3>3, <3>4, <4>1
    <3>6. ranked[h] = x
      BY <1>9, <2>6, <3>1, <3>5
    <3>7. QED
      BY <1>6, <2>8, <3>6
  <2>11. {h \in DOMAIN groups : groups[h].signature = failures[i].signature} = {g}
    BY <1>4, <2>9, <2>10
  <2>12. QED
    BY <2>11, FS_Singleton
<1>11. ASSUME NEW g \in 1 .. m, NEW seed
       PROVE  Times(groups[g].seeds, seed)
                 = Cardinality(OfSeed(failures, groups[g].signature, seed))
  <2>1. PICK signature : signature = failures[first[g]].signature
    OBVIOUS
  <2>2. PICK group : group = groups[g]
    OBVIOUS
  <2>3. group = GroupOf(failures, signature) /\ group.signature = signature
    BY <1>9, <2>1, <2>2
  <2>4. Times(group.seeds, seed)
            = Cardinality(OfSeed(failures, signature, seed))
    BY <2>3, GroupIs
  <2>5. QED
    BY <2>2, <2>3, <2>4
<1>12. ASSUME NEW g \in 1 .. m, NEW h \in 1 .. m, g < h
       PROVE  Len(groups[g].seeds) >= Len(groups[h].seeds)
  <2>1. Foremost(ranked[g], ranked[h])
    BY <1>2, <1>12 DEF GroupOrder
  <2>2. Len(groups[g].seeds) \in Nat /\ Len(groups[h].seeds) \in Nat
    BY <1>4, <1>6, <1>7
  <2>3. QED
    BY <1>4, <2>1, <2>2 DEF Foremost, InFront
<1>13. GroupsAccount(groups, failures)
  <2>1. \A i \in DOMAIN failures :
          Cardinality({g \in DOMAIN groups : groups[g].signature = failures[i].signature}) = 1
    BY <1>10
  <2>2. \A g \in DOMAIN groups, seed \in 0 .. Top :
            Times(groups[g].seeds, seed)
                = Cardinality(OfSeed(failures, groups[g].signature, seed))
    BY <1>4, <1>11
  <2>3. \A g, h \in DOMAIN groups : g < h => Len(groups[g].seeds) >= Len(groups[h].seeds)
    BY <1>4, <1>12
  <2>4. QED
    BY <2>1, <2>2, <2>3 DEF GroupsAccount, OfSeed
<1>14. QED
  BY <1>3, <1>13

-----------------------------------------------------------------------------
\* The shards of a sweep.

\* Shard::contains: of any number of shards, one has all runs of a seed.
LEMMA ShardsShareAll ==
    ASSUME NEW start, NEW count \in Nat, NEW shards \in Nat, shards # 0
    PROVE  ShardsShare(start, count, shards)
<1>1. PICK seeds : seeds = Seeds(start, count)
  OBVIOUS
<1>2. ASSUME NEW seed \in 0 .. Top, NEW index \in 0 .. shards - 1
      PROVE  Times(Mine(start, count, [index |-> index, count |-> shards]), seed)
                = IF index = seed % shards THEN Times(seeds, seed) ELSE 0
  <2>1. PICK shard : shard = [index |-> index, count |-> shards]
    OBVIOUS
  <2>2. shard # Nothing /\ shard.index = index /\ shard.count = shards
    <3>1. shard \in [index : Nat, count : Nat]
      BY <2>1
    <3>2. QED
      BY <2>1, <3>1, NothingAssumption
  <2>3. PICK places : places = {i \in 1 .. count : Covers(shard, seeds[i])}
    OBVIOUS
  <2>4. places \in SUBSET (1 .. count) /\ places \in SUBSET Nat
    BY <2>3
  <2>5. IsFiniteSet(places)
    BY <2>4, IntervalSize, FS_Subset
  <2>6. PICK some : some = Picked(seeds, places)
    OBVIOUS
  <2>7. some = Mine(start, count, shard)
    BY <1>1, <2>3, <2>6 DEF Mine
  <2>8. Times(some, seed) = Cardinality({i \in places : seeds[i] = seed})
    BY <2>4, <2>5, <2>6, PickedTimes
  <2>9. \A i \in 1 .. count : seeds[i] = seed => (i \in places <=> seed % shards = index)
    BY <2>2, <2>3 DEF Covers
  <2>10. CASE index = seed % shards
    <3>1. {i \in places : seeds[i] = seed} = {i \in 1 .. count : seeds[i] = seed}
      BY <2>4, <2>9, <2>10
    <3>2. DOMAIN seeds = 1 .. count
      BY <1>1 DEF Seeds
    <3>3. Times(some, seed) = Times(seeds, seed)
      BY <2>8, <3>1, <3>2 DEF Times
    <3>4. QED
      BY <2>1, <2>7, <2>10, <3>3
  <2>11. CASE index # seed % shards
    <3>1. {i \in places : seeds[i] = seed} = {}
      BY <2>4, <2>9, <2>11
    <3>2. Times(some, seed) = 0
      BY <2>8, <3>1, FS_EmptySet
    <3>3. QED
      BY <2>1, <2>7, <2>11, <3>2
  <2>12. QED
    BY <2>10, <2>11
<1>3. ASSUME NEW seed \in 0 .. Top
      PROVE  seed % shards \in 0 .. shards - 1
  <2>1. seed \in Int /\ shards \in Nat /\ shards > 0
    BY TopAssumption
  <2>2. QED
    BY <2>1
<1>4. QED
  BY <1>1, <1>2, <1>3 DEF ShardsShare

-----------------------------------------------------------------------------
\* What a sweep counts, tells and draws.

CountInv ==
    /\ done = Len(ended) /\ failing = Cardinality(Ended("violated"))
    /\ told # Nothing => told = [completed |-> done, total |-> Len(mine), failing |-> failing]
    /\ Len(ended) + Cardinality(flying) = launched

LEMMA FlyingFinite ==
    ASSUME SweepInv
    PROVE  IsFiniteSet(flying) /\ Cardinality(flying) \in Nat
<1>1. launched \in Nat /\ flying \in SUBSET (1 .. launched)
  BY DEF SweepInv
<1>2. QED
  BY <1>1, IntervalSize, FS_Subset, FS_CardinalityType

LEMMA EndedFinite ==
    ASSUME SweepInv, NEW kind
    PROVE  IsFiniteSet(Ended(kind)) /\ Cardinality(Ended(kind)) \in Nat
<1>1. PICK n \in Nat : DOMAIN ended = 1 .. n
  BY ListedIs DEF SweepInv
<1>2. PICK set : set = Ended(kind)
  OBVIOUS
<1>3. set \in SUBSET (1 .. n)
  BY <1>1, <1>2 DEF Ended
<1>4. QED
  BY <1>2, <1>3, IntervalSize, FS_Subset, FS_CardinalityType

LEMMA CountedRun ==
    ASSUME SweepInv, CountInv, NEW at, NEW result, NEW terminal, EndRun(at, result, terminal)
    PROVE  CountInv'
<1>1. /\ at \in flying /\ flying' = flying \ {at} /\ mine' = mine /\ launched' = launched
      /\ ended' = Append(ended, [at |-> at, result |-> result])
      /\ failing' = failing + (IF result.kind = "violated" THEN 1 ELSE 0) /\ done' = done + 1
      /\ told' = [completed |-> done + 1, total |-> Len(mine), failing |-> failing']
  BY DEF EndRun
<1>2. PICK list, longer, item : list = ended /\ longer = ended'
                                /\ item = [at |-> at, result |-> result]
  OBVIOUS
<1>3. PICK n \in Nat : n = Len(list) /\ DOMAIN list = 1 .. n
  BY <1>2, ListedIs DEF SweepInv
<1>4. Listed(list) /\ longer = Append(list, item)
  BY <1>1, <1>2 DEF SweepInv
<1>5. Listed(longer) /\ Len(longer) = n + 1
  BY <1>3, <1>4, AppendListed
<1>6. DOMAIN longer = 1 .. n + 1
  BY <1>5, ListedIs
<1>7. longer[n + 1] = item /\ \A i \in 1 .. n : longer[i] = list[i]
  BY <1>3, <1>4, AppendListed
<1>8. PICK before, after :
          /\ before = {i \in 1 .. n : list[i].result.kind = "violated"}
          /\ after = {i \in 1 .. n + 1 : longer[i].result.kind = "violated"}
  OBVIOUS
<1>9. before = Ended("violated") /\ after = Ended("violated")'
  BY <1>2, <1>3, <1>6, <1>8 DEF Ended
<1>10. after = IF result.kind = "violated" THEN before \cup {n + 1} ELSE before
  <2>1. longer[n + 1].result.kind = result.kind
    BY <1>2, <1>7
  <2>2. \A i \in 1 .. n + 1 : i \in 1 .. n \/ i = n + 1
    OBVIOUS
  <2>3. QED
    BY <1>7, <1>8, <2>1, <2>2
<1>11. IsFiniteSet(before) /\ Cardinality(before) \in Nat
  BY <1>9, EndedFinite
<1>12. Cardinality(after) = Cardinality(before) + (IF result.kind = "violated" THEN 1 ELSE 0)
  <2>1. n + 1 \notin before
    BY <1>8
  <2>2. CASE result.kind = "violated"
    <3>1. after = before \cup {n + 1}
      BY <1>10, <2>2
    <3>2. Cardinality(after) = Cardinality(before) + 1
      BY <1>11, <2>1, <3>1, FS_AddElement
    <3>3. QED
      BY <2>2, <3>2
  <2>3. CASE result.kind # "violated"
    <3>1. after = before
      BY <1>10, <2>3
    <3>2. QED
      BY <1>11, <2>3, <3>1
  <2>4. QED
    BY <2>2, <2>3
<1>13. Cardinality(flying') = Cardinality(flying) - 1
  BY <1>1, FlyingFinite, FS_RemoveElement
<1>14. Cardinality(flying) \in Nat /\ launched \in Nat
  BY FlyingFinite DEF SweepInv
<1>15. done' = Len(ended') /\ failing' = Cardinality(Ended("violated")')
  BY <1>1, <1>2, <1>3, <1>5, <1>9, <1>12 DEF CountInv
<1>16. Len(ended') + Cardinality(flying') = launched'
  <2>1. PICK m \in Nat : m = Cardinality(flying)
    BY <1>14
  <2>2. n + m = launched
    BY <1>2, <1>3, <2>1 DEF CountInv
  <2>3. Len(ended') = n + 1 /\ Cardinality(flying') = m - 1
    BY <1>2, <1>5, <1>13, <2>1
  <2>4. launched' = launched
    BY <1>1
  <2>5. QED
    BY <2>2, <2>3, <2>4
<1>17. told' = [completed |-> done', total |-> Len(mine'), failing |-> failing']
  BY <1>1
<1>18. QED
  BY <1>15, <1>16, <1>17 DEF CountInv

LEMMA CountStays ==
    Next => \/ UNCHANGED <<mine, launched, flying, ended, done, failing, told>>
            \/ NextCommand \/ Sweeping \/ LaunchRun \/ FinishRun \/ FinishRunFails
BY DEF Next, Prepare, PrepareFails, Usage, NextCommand, Check, Execute, ExecuteFails, WriteTrace,
       JudgeRun, JudgeReplay, JudgeShrink, Shrink, ShrinkFails, Verify, ReportRun, RewriteTrace,
       ReportShrink, Fail, ShrinkNext, ReportFailure, Summarise, WriteDocument, sweepVars

LEMMA NothingCounted ==
    ASSUME mine' \in Seq(Nat), launched' = 0, flying' = {}, ended' = <<>>, done' = 0,
           failing' = 0, told' = Nothing
    PROVE  CountInv'
<1>1. Ended("violated")' = {}
  BY DEF Ended
<1>2. Cardinality(Ended("violated")') = 0 /\ Cardinality(flying') = 0
  BY <1>1, FS_EmptySet
<1>3. Len(ended') = 0
  OBVIOUS
<1>4. QED
  BY <1>2, <1>3 DEF CountInv

LEMMA CountStep ==
    ASSUME StageInv, SweepInv, CountInv, Next
    PROVE  CountInv'
<1>1. CASE UNCHANGED <<mine, launched, flying, ended, done, failing, told>>
  BY <1>1 DEF CountInv, Ended
<1>2. CASE NextCommand \/ Sweeping
  <2>1. launched' = 0 /\ flying' = {} /\ ended' = <<>> /\ done' = 0 /\ failing' = 0
        /\ told' = Nothing
    BY <1>2 DEF NextCommand, ClearSweep, Sweeping, StartSweep
  <2>2. mine' \in Seq(Nat)
    BY SweepStep DEF SweepInv
  <2>3. QED
    BY <2>1, <2>2, NothingCounted
<1>3. CASE LaunchRun
  <2>1. /\ launched < Len(mine) /\ launched' = launched + 1 /\ flying' = flying \cup {launched + 1}
        /\ UNCHANGED <<mine, ended, done, failing, told>>
    BY <1>3 DEF LaunchRun, Launch
  <2>2. launched \in Nat /\ launched + 1 \notin flying
    BY DEF SweepInv
  <2>3. Cardinality(flying') = Cardinality(flying) + 1 /\ Cardinality(flying) \in Nat
    BY <2>1, <2>2, FlyingFinite, FS_AddElement
  <2>4. PICK n \in Nat : n = Len(ended)
    BY ListedIs DEF SweepInv
  <2>5. Len(ended') + Cardinality(flying') = launched'
    BY <2>1, <2>2, <2>3, <2>4 DEF CountInv
  <2>6. QED
    BY <2>1, <2>5 DEF CountInv, Ended
<1>4. CASE FinishRun
  <2>1. PICK at, result : EndRun(at, result, setting.terminal)
    BY <1>4 DEF FinishRun
  <2>2. QED
    BY <2>1, CountedRun
<1>5. CASE FinishRunFails
  <2>1. PICK at, result : EndRun(at, result, setting.terminal)
    BY <1>5 DEF FinishRunFails
  <2>2. QED
    BY <2>1, CountedRun
<1>6. QED
  BY <1>1, <1>2, <1>3, <1>4, <1>5, CountStays

\* A sweep all of whose runs ended has none left to end.
LEMMA SweptRests ==
    ASSUME SweepInv, CountInv, Swept
    PROVE  flying = {} /\ launched = Len(mine)
<1>1. PICK n \in Nat : n = Len(mine) /\ n = Len(ended)
  BY DEF SweepInv, Swept
<1>2. PICK m \in Nat : m = Cardinality(flying) /\ IsFiniteSet(flying)
  BY FlyingFinite
<1>3. launched \in 0 .. n /\ n + m = launched
  BY <1>1, <1>2 DEF SweepInv, CountInv
<1>4. m = 0 /\ launched = n
  BY <1>3
<1>5. QED
  BY <1>1, <1>2, <1>4, FS_EmptySet

-----------------------------------------------------------------------------
\* The line of the terminal.

LineInv ==
    /\ pc \notin {"sweeping", "shrinking", "verify", "report"} \/ command.name # "fuzz" =>
           line = Nothing
    /\ pc = "sweeping" /\ Swept /\ ended # <<>> /\ reports = <<>> /\ setting.terminal =>
           line = [label |-> "running", at |-> Len(mine), of |-> Len(mine)]

LEMMA LineStays ==
    Next => \/ line' = line
            \/ NextCommand \/ FinishRun \/ FinishRunFails \/ ShrinkNext \/ Summarise
BY DEF Next, Prepare, PrepareFails, Usage, NextCommand, Check, Execute, ExecuteFails, WriteTrace,
       JudgeRun, JudgeReplay, JudgeShrink, Shrink, ShrinkFails, Verify, ReportRun, RewriteTrace,
       ReportShrink, Fail, Sweeping, StartSweep, LaunchRun, Launch, ReportFailure, WriteDocument,
       sweepVars

\* A step ends with nothing on the line unless a sweep goes on.
Drawing == pc \in {"sweeping", "shrinking", "verify", "report"} /\ command.name = "fuzz"

LEMMA DrawingStays ==
    ASSUME StageInv, Next, Drawing
    PROVE  Drawing' \/ Summarise
<1>1. script' = script /\ command' = command
  BY ScriptStays DEF NextCommand, Drawing, command
<1>2. IsCommand(command)
  BY CurrentCommand DEF StageInv, Drawing
<1>3. CASE Shrink \/ ShrinkFails \/ Verify \/ ReportRun \/ ReportShrink \/ ReportFailure
  BY <1>1, <1>3 DEF Shrink, ShrinkFails, Verify, GiveUpShrinking, ReportRun, ReportShrink,
     ReportFailure, Drawing
<1>4. CASE LaunchRun \/ FinishRun \/ FinishRunFails \/ ShrinkNext
  BY <1>1, <1>4 DEF LaunchRun, FinishRun, FinishRunFails, ShrinkNext, Drawing
<1>5. ~Prepare /\ ~PrepareFails /\ ~NextCommand /\ ~Check /\ ~Execute /\ ~ExecuteFails
      /\ ~WriteTrace /\ ~JudgeRun /\ ~JudgeReplay /\ ~JudgeShrink /\ ~RewriteTrace /\ ~Fail
      /\ ~Sweeping /\ ~WriteDocument
  BY DEF Prepare, PrepareFails, Usage, NextCommand, Check, Execute, ExecuteFails, WriteTrace, JudgeRun,
     JudgeReplay, JudgeShrink, RewriteTrace, Fail, Sweeping, WriteDocument, Drawing
<1>6. QED
  BY <1>3, <1>4, <1>5 DEF Next

LEMMA FinishedLine ==
    ASSUME SweepInv, CountInv, NEW at, NEW result, EndRun(at, result, setting.terminal), Swept',
           setting.terminal
    PROVE  line' = [label |-> "running", at |-> Len(mine'), of |-> Len(mine')]
<1>1. PICK n \in Nat : n = Len(mine)
  BY DEF SweepInv
<1>2. PICK m \in Nat : m = Len(ended)
  BY ListedIs DEF SweepInv
<1>3. mine' = mine
  BY DEF EndRun
<1>4. Len(ended') = m + 1
  <2>1. PICK list, longer, item : /\ list = ended /\ longer = ended'
                                  /\ item = [at |-> at, result |-> result]
    OBVIOUS
  <2>2. Listed(list) /\ longer = Append(list, item)
    BY <2>1 DEF EndRun, SweepInv
  <2>3. QED
    BY <1>2, <2>1, <2>2, AppendListed
<1>5. m + 1 = n
  BY <1>1, <1>3, <1>4 DEF Swept
<1>6. done = m
  BY <1>2 DEF CountInv
<1>7. PICK found : Draw(setting.terminal, [label |-> "running", at |-> done + 1, of |-> Len(mine)],
                        [completed |-> done + 1, total |-> Len(mine), failing |-> found].completed
                        >= [completed |-> done + 1, total |-> Len(mine), failing |-> found].total)
  BY DEF EndRun
<1>8. Draw(setting.terminal, [label |-> "running", at |-> n, of |-> n], n >= n)
  BY <1>1, <1>5, <1>6, <1>7
<1>9. line' = [label |-> "running", at |-> n, of |-> n]
  BY <1>8 DEF Draw
<1>10. QED
  BY <1>1, <1>3, <1>9

LEMMA LineStep ==
    ASSUME StageInv, SweepInv, CountInv, LineInv, Next
    PROVE  LineInv'
<1>1. ~Drawing' => line' = Nothing
  <2>1. CASE Summarise \/ NextCommand
    BY <2>1 DEF Summarise, Erase, NextCommand, ClearSweep
  <2>2. CASE Drawing
    BY <2>1, <2>2, DrawingStays
  <2>3. CASE ~Drawing
    <3>1. line = Nothing
      BY <2>3 DEF LineInv, Drawing
    <3>2. ~FinishRun /\ ~FinishRunFails /\ ~ShrinkNext
      BY <2>3 DEF FinishRun, FinishRunFails, ShrinkNext, StageInv, Drawing
    <3>3. QED
      BY <2>1, <3>1, <3>2, LineStays
  <2>4. QED
    BY <2>2, <2>3
<1>2. ASSUME pc' = "sweeping", Swept', ended' # <<>>, reports' = <<>>, setting'.terminal
      PROVE  line' = [label |-> "running", at |-> Len(mine'), of |-> Len(mine')]
  <2>1. setting' = setting
    BY SettingStays
  <2>2. CASE FinishRun
    <3>1. PICK at, result : EndRun(at, result, setting.terminal)
      BY <2>2 DEF FinishRun
    <3>2. QED
      BY <1>2, <2>1, <3>1, FinishedLine
  <2>3. CASE FinishRunFails
    <3>1. PICK at, result : EndRun(at, result, setting.terminal)
      BY <2>3 DEF FinishRunFails
    <3>2. QED
      BY <1>2, <2>1, <3>1, FinishedLine
  <2>4. CASE LaunchRun
    <3>1. /\ UNCHANGED <<mine, ended, line>> /\ launched < Len(mine)
          /\ pc = "sweeping" /\ reports' = reports
      BY <2>4 DEF LaunchRun, Launch
    <3>2. Swept
      BY <1>2, <3>1 DEF Swept
    <3>3. QED
      BY <1>2, <2>1, <3>1, <3>2 DEF LineInv
  <2>5. ~NextCommand /\ ~ShrinkNext /\ ~Summarise /\ ~Sweeping
    BY <1>2 DEF NextCommand, ShrinkNext, Summarise, Sweeping, StartSweep
  <2>6. CASE ReportFailure
    <3>1. PICK list, report : reports' = Append(list, report) /\ list = reports
      BY <2>6 DEF ReportFailure
    <3>2. QED
      BY <1>2, <3>1
  <2>7. CASE pc = "sweeping" /\ ~FinishRun /\ ~FinishRunFails /\ ~LaunchRun /\ ~ReportFailure
    <3>1. UNCHANGED <<mine, ended>> /\ line' = line /\ reports' = reports
      BY <2>5, <2>7, CountStays, LineStays, ReportsStay
    <3>2. QED
      BY <1>2, <2>1, <2>7, <3>1 DEF LineInv, Swept
  <2>8. CASE pc # "sweeping" /\ ~ReportFailure
    <3>1. ~Prepare
      BY <1>2, CurrentCommand, CommandNames DEF Prepare, Refuse, Exit
    <3>2. QED
      BY <1>2, <2>5, <2>8, <3>1 DEF Next, PrepareFails, Usage, Check, Execute, ExecuteFails,
         WriteTrace, Write, JudgeRun, JudgeReplay, JudgeShrink, Shrink, ShrinkFails, Verify,
         GiveUpShrinking, ReportRun, RewriteTrace, ReportShrink, Fail, LaunchRun, FinishRun,
         FinishRunFails, WriteDocument, Refuse, Exit
  <2>9. QED
    BY <2>2, <2>3, <2>4, <2>6, <2>7, <2>8
<1>3. QED
  BY <1>1, <1>2 DEF LineInv, Drawing

-----------------------------------------------------------------------------
\* What is reported, failure by failure.

SeedOf(k) == mine[Failures[k].at]
ReportedInv ==
    /\ pc \in {"start", "check", "fuzz"} \cup Once => reports = <<>>
    /\ \A i \in DOMAIN reports : i \in DOMAIN Failures /\ reports[i].seed = SeedOf(i)
    /\ pc = "sweeping" /\ reports # <<>> => Swept
    /\ pc \in {"shrinking", "verify", "report"} /\ command.name = "fuzz" =>
           Swept /\ Len(reports) < Len(Failures)

LEMMA FailuresStay ==
    ASSUME mine' = mine, ended' = ended
    PROVE  Failures' = Failures /\ Swept' = Swept
<1>1. Failures' = Failures
  BY DEF Failures, Ended, Ranked, Sooner
<1>2. QED
  BY <1>1 DEF Swept

LEMMA NotYetReported ==
    ASSUME ReportedInv, Next, pc' \in {"start", "check", "fuzz"} \cup Once
    PROVE  reports' = <<>>
<1>1. CASE NextCommand
  BY <1>1 DEF NextCommand
<1>2. CASE Prepare
  BY <1>2 DEF Prepare, ReportedInv
<1>3. CASE PrepareFails \/ Check \/ Execute \/ ExecuteFails \/ Fail
  BY <1>3 DEF PrepareFails, Usage, Check, Execute, ExecuteFails, Fail, Refuse, Exit, Once
<1>4. CASE WriteTrace \/ RewriteTrace \/ ReportShrink
  BY <1>4 DEF WriteTrace, RewriteTrace, ReportShrink, Write, Refuse, Exit, Once
<1>5. CASE JudgeRun \/ JudgeReplay \/ JudgeShrink
  BY <1>5 DEF JudgeRun, JudgeReplay, JudgeShrink, Refuse, Exit, Once
<1>6. CASE Shrink \/ ShrinkFails \/ Verify
  BY <1>6 DEF Shrink, ShrinkFails, Verify, GiveUpShrinking, Refuse, Exit, Once
<1>7. CASE ReportRun \/ ReportFailure \/ Sweeping \/ LaunchRun \/ FinishRun \/ FinishRunFails
  BY <1>7 DEF ReportRun, ReportFailure, Sweeping, LaunchRun, FinishRun, FinishRunFails, Once
<1>8. CASE ShrinkNext \/ Summarise \/ WriteDocument
  BY <1>8 DEF ShrinkNext, Summarise, WriteDocument, Refuse, Exit, Once
<1>9. QED
  BY <1>1, <1>2, <1>3, <1>4, <1>5, <1>6, <1>7, <1>8 DEF Next

LEMMA ReportSeed ==
    ASSUME NEW seed, NEW run, NEW original
    PROVE  ReportOf(seed, run, original).seed = seed
BY DEF ReportOf

\* The reports of the failures that are not shrunk.
LEMMA RestIs ==
    ASSUME StageInv, SweepInv, pc = "sweeping", NEW m, m = ToShrink, NEW n, n = Len(Failures)
    PROVE  /\ m \in Nat /\ n \in Nat /\ m <= n
           /\ Listed(Rest) /\ Len(Rest) = n - m
           /\ \A i \in 1 .. n - m : Rest[i].seed = SeedOf(m + i)
<1>1. m \in Nat /\ n \in Nat /\ m <= n
  BY ToShrinkIs, FailuresAre, ListedIs
<1>2. PICK list : list = Rest
  OBVIOUS
<1>3. PICK left \in Nat : left = n - m
  <2>1. n - m \in Nat
    BY <1>1
  <2>2. QED
    BY <2>1
<1>4. list = [i \in 1 .. left |->
                 LET run == Failures[m + i]
                 IN  ReportOf(mine[run.at], run.result, Len(Active(run.result.trace)))]
  BY <1>1, <1>2, <1>3 DEF Rest
<1>5. DOMAIN list = 1 .. left /\ list = [i \in 1 .. left |-> list[i]]
  BY <1>4
<1>6. Listed(list) /\ Len(list) = left
  BY <1>5, FunctionListed
<1>7. ASSUME NEW i \in 1 .. left
      PROVE  list[i].seed = SeedOf(m + i)
  <2>1. PICK run : run = Failures[m + i]
    OBVIOUS
  <2>2. list[i] = ReportOf(mine[run.at], run.result, Len(Active(run.result.trace)))
    BY <1>4, <2>1
  <2>3. list[i].seed = mine[run.at]
    BY <2>2, ReportSeed
  <2>4. QED
    BY <2>1, <2>3 DEF SeedOf
<1>8. QED
  BY <1>1, <1>2, <1>3, <1>6, <1>7

\* At the end there is a report for each failure, in their order.
LEMMA AllReported ==
    ASSUME StageInv, SweepInv, ReportsInv, ReportedInv, Summarise, NEW n, n = Len(Failures)
    PROVE  /\ n \in Nat /\ Listed(reports') /\ Len(reports') = n
           /\ \A k \in 1 .. n : reports'[k].seed = SeedOf(k)
<1>1. PICK list, more, longer, m : /\ list = reports /\ more = Rest /\ longer = reports'
                                   /\ m = ToShrink
  OBVIOUS
<1>2. longer = list \o more /\ Len(list) = m /\ pc = "sweeping"
  BY <1>1 DEF Summarise
<1>3. /\ m \in Nat /\ n \in Nat /\ m <= n /\ Listed(more) /\ Len(more) = n - m
      /\ \A i \in 1 .. n - m : more[i].seed = SeedOf(m + i)
  BY <1>1, <1>2, RestIs
<1>4. Listed(list) /\ DOMAIN list = 1 .. m
  BY <1>1, <1>2, ListedIs DEF ReportsInv
<1>5. \A i \in 1 .. m : list[i].seed = SeedOf(i)
  BY <1>1, <1>4 DEF ReportedInv
<1>6. Listed(longer)
  BY <1>2, <1>3, <1>4, ConcatListed
<1>7. /\ Len(longer) = n
      /\ \A k \in 1 .. n : longer[k] = IF k <= m THEN list[k] ELSE more[k - m]
  <2>1. PICK R, T : R = Range(list) /\ T = Range(more)
    OBVIOUS
  <2>2. list \in Seq(R \cup T) /\ more \in Seq(R \cup T)
    <3>1. list \in Seq(R) /\ more \in Seq(T)
      BY <1>3, <1>4, <2>1 DEF Listed
    <3>2. R \subseteq R \cup T /\ T \subseteq R \cup T
      OBVIOUS
    <3>3. QED
      BY <3>1, <3>2
  <2>3. QED
    BY <1>2, <1>3, <2>2
<1>8. ASSUME NEW k \in 1 .. n
      PROVE  longer[k].seed = SeedOf(k)
  <2>1. CASE k <= m
    BY <1>3, <1>5, <1>7, <2>1
  <2>2. CASE k > m
    <3>1. PICK i : i = k - m
      OBVIOUS
    <3>2. i \in 1 .. n - m /\ m + i = k
      BY <1>3, <2>2, <3>1
    <3>3. longer[k] = more[i]
      BY <1>3, <1>7, <2>2, <3>1
    <3>4. QED
      BY <1>3, <3>2, <3>3
  <2>3. QED
    BY <1>3, <2>1, <2>2
<1>9. QED
  BY <1>1, <1>3, <1>6, <1>7, <1>8

LEMMA ReportedStep ==
    ASSUME StageInv, SweepInv, CountInv, ReportsInv, ReportedInv, Next
    PROVE  ReportedInv'
<1>1. pc' \in {"start", "check", "fuzz"} \cup Once => reports' = <<>>
  BY NotYetReported
<1>2. CASE NextCommand
  <2>1. pc' = "start" /\ reports' = <<>>
    BY <1>2 DEF NextCommand
  <2>2. QED
    BY <1>1, <2>1 DEF ReportedInv
<1>3. CASE Sweeping
  <2>1. pc' = "sweeping" /\ reports' = <<>>
    BY <1>3 DEF Sweeping, ReportedInv
  <2>2. QED
    BY <1>1, <2>1 DEF ReportedInv
<1>4. CASE FinishRun \/ FinishRunFails
  <2>1. pc = "sweeping" /\ pc' = "sweeping" /\ reports' = reports /\ flying # {}
    BY <1>4 DEF FinishRun, FinishRunFails
  <2>2. ~Swept
    BY <2>1, SweptRests
  <2>3. reports' = <<>>
    BY <2>1, <2>2 DEF ReportedInv
  <2>4. QED
    BY <1>1, <2>1, <2>3 DEF ReportedInv
<1>5. CASE LaunchRun
  <2>1. pc = "sweeping" /\ pc' = "sweeping" /\ reports' = reports /\ mine' = mine /\ ended' = ended
    BY <1>5 DEF LaunchRun, Launch
  <2>2. Failures' = Failures /\ Swept' = Swept
    BY <2>1, FailuresStay
  <2>3. QED
    BY <1>1, <2>1, <2>2 DEF ReportedInv, SeedOf
<1>6. CASE UNCHANGED <<mine, ended>> /\ ~NextCommand
  <2>1. Failures' = Failures /\ Swept' = Swept /\ mine' = mine /\ script' = script
    BY <1>6, FailuresStay, ScriptStays
  <2>2. PICK n \in Nat : n = Len(Failures) /\ DOMAIN Failures = 1 .. n
    BY FailuresAre, ListedIs
  <2>3. PICK m \in Nat : m = Len(reports) /\ DOMAIN reports = 1 .. m
    BY ListedIs DEF ReportsInv
  <2>4. CASE ReportFailure
    <3>1. PICK list, longer, run, original :
              /\ list = reports /\ longer = reports'
              /\ longer = Append(list, ReportOf(mine[Failures[m + 1].at], run, original))
      BY <2>3, <2>4 DEF ReportFailure
    <3>2. PICK report : report = ReportOf(mine[Failures[m + 1].at], run, original)
      OBVIOUS
    <3>3. report.seed = SeedOf(m + 1)
      BY <3>2, ReportSeed DEF SeedOf
    <3>4. Swept /\ m < n /\ pc' = "sweeping"
      BY <2>2, <2>3, <2>4 DEF ReportFailure, ReportedInv
    <3>5. \A i \in DOMAIN longer :
              (i \in DOMAIN list /\ longer[i] = list[i]) \/ (i = m + 1 /\ longer[i] = report)
      BY <2>3, <3>1, <3>2, AppendAt DEF ReportsInv
    <3>6. \A i \in DOMAIN longer : i \in DOMAIN Failures /\ longer[i].seed = SeedOf(i)
      BY <2>2, <3>1, <3>3, <3>4, <3>5 DEF ReportedInv
    <3>7. QED
      BY <1>1, <2>1, <3>1, <3>4, <3>6 DEF ReportedInv, SeedOf
  <2>5. CASE Summarise
    <3>1. /\ Listed(reports') /\ Len(reports') = n
          /\ \A k \in 1 .. n : reports'[k].seed = SeedOf(k)
      BY <2>2, <2>5, AllReported
    <3>2. DOMAIN reports' = 1 .. n
      BY <3>1, ListedIs
    <3>3. pc' = "document"
      BY <2>5 DEF Summarise
    <3>4. QED
      BY <1>1, <2>1, <2>2, <3>1, <3>2, <3>3 DEF ReportedInv, SeedOf
  <2>6. CASE ~ReportFailure /\ ~Summarise
    <3>1. reports' = reports
      BY <1>6, <2>6, ReportsStay
    <3>2. pc' = "sweeping" /\ reports' # <<>> => Swept
      BY <1>6, <2>6, <3>1, CurrentCommand, CommandNames
         DEF Next, Prepare, PrepareFails, Usage, Check, Execute, ExecuteFails,
         WriteTrace, Write, JudgeRun, JudgeReplay, JudgeShrink, Shrink, ShrinkFails, Verify,
         GiveUpShrinking, ReportRun, RewriteTrace, ReportShrink, Fail, Sweeping, LaunchRun,
         FinishRun, FinishRunFails, ShrinkNext, WriteDocument, Refuse, Exit, ReportedInv
    <3>3. ASSUME pc' \in {"shrinking", "verify", "report"}, command'.name = "fuzz"
          PROVE  Swept /\ m < n
      <4>1. command.name = "fuzz"
        BY <2>1, <3>3 DEF command
      <4>2. CASE ShrinkNext
        <5>1. ToShrink \in Nat /\ ToShrink <= n
          BY <2>2, <4>2, ToShrinkIs DEF ShrinkNext
        <5>2. QED
          BY <2>3, <4>2, <5>1 DEF ShrinkNext
      <4>3. CASE Shrink \/ ShrinkFails \/ Verify \/ ReportRun \/ ReportShrink
        BY <2>2, <2>3, <4>1, <4>3 DEF Shrink, ShrinkFails, Verify, ReportRun, ReportShrink,
           ReportedInv
      <4>4. pc \in Ran \/ Execute \/ ShrinkNext
        BY <3>3, RanBefore DEF Ran
      <4>5. CASE WriteTrace \/ JudgeRun \/ JudgeReplay \/ JudgeShrink \/ RewriteTrace \/ Fail
        BY <3>3, <4>1, <4>5 DEF WriteTrace, Write, JudgeRun, JudgeReplay, JudgeShrink,
           RewriteTrace, Fail, Refuse, Exit, StageInv, Once
      <4>6. ~Execute
        BY <3>3 DEF Execute
      <4>7. QED
        BY <2>6, <4>2, <4>3, <4>4, <4>5, <4>6 DEF Ran, Next, Prepare, PrepareFails, Usage, NextCommand,
           Check, ExecuteFails, Sweeping, LaunchRun, FinishRun, FinishRunFails, WriteDocument
    <3>4. \A i \in DOMAIN reports' : i \in DOMAIN Failures' /\ reports'[i].seed = SeedOf(i)'
      BY <2>1, <3>1 DEF ReportedInv, SeedOf
    <3>5. pc' = "sweeping" /\ reports' # <<>> => Swept'
      BY <2>1, <3>2
    <3>6. pc' \in {"shrinking", "verify", "report"} /\ command'.name = "fuzz" =>
              Swept' /\ Len(reports') < Len(Failures')
      BY <2>1, <2>2, <2>3, <3>1, <3>3
    <3>7. QED
      BY <1>1, <3>4, <3>5, <3>6 DEF ReportedInv
  <2>7. QED
    BY <2>4, <2>5, <2>6
<1>7. QED
  BY <1>2, <1>3, <1>4, <1>5, <1>6, SweepStays

-----------------------------------------------------------------------------
\* The document.

\* The shard of a sweep is one that exists.
ShardInv ==
    pc = "fuzz" \/ InSweep => command.shard = Nothing \/ ShardExists(command.shard)

LEMMA ShardStep ==
    ASSUME StageInv, ShardInv, Next
    PROVE  ShardInv'
<1>1. SUFFICES ASSUME pc' = "fuzz" \/ InSweep'
               PROVE  command'.shard = Nothing \/ ShardExists(command'.shard)
  BY DEF ShardInv, ShardExists
<1>2. script' = script /\ command' = command
  BY <1>1, ScriptStays DEF NextCommand, InSweep, command
<1>3. CASE Prepare
  <2>1. command.name = "fuzz" /\ ~BadArguments
    BY <1>1, <1>2, <1>3, CurrentCommand, CommandNames DEF Prepare, Refuse, Exit, InSweep
  <2>2. QED
    BY <1>2, <2>1 DEF BadArguments
<1>4. CASE ~Prepare /\ pc' = "fuzz"
  BY <1>4 DEF Next, PrepareFails, Usage, NextCommand, Check, Execute, ExecuteFails, WriteTrace, Write,
     JudgeRun, JudgeReplay, JudgeShrink, Shrink, ShrinkFails, Verify, GiveUpShrinking, ReportRun,
     RewriteTrace, ReportShrink, Fail, Sweeping, LaunchRun, FinishRun, FinishRunFails, ShrinkNext,
     ReportFailure, Summarise, WriteDocument, Refuse, Exit
<1>5. CASE InSweep'
  <2>1. pc = "fuzz" \/ InSweep
    BY <1>5, InSweepBefore DEF Sweeping
  <2>2. QED
    BY <1>2, <2>1 DEF ShardInv
<1>6. QED
  BY <1>1, <1>3, <1>4, <1>5

\* Every run that ended passed, failed or did neither.
LEMMA KindsAdd ==
    ASSUME SweepInv, ResultsInv, Tallies(results, ended)
    PROVE  /\ Len(ended) \in Nat
           /\ Cardinality(Ended("passed")) + Cardinality(Ended("violated"))
                 + Cardinality(Ended("error")) = Len(ended)
<1>1. PICK n \in Nat : n = Len(ended) /\ DOMAIN ended = 1 .. n
  BY ListedIs DEF SweepInv
<1>2. PICK a, b, c : a = Ended("passed") /\ b = Ended("violated") /\ c = Ended("error")
  OBVIOUS
<1>3. /\ IsFiniteSet(a) /\ Cardinality(a) \in Nat
      /\ IsFiniteSet(b) /\ Cardinality(b) \in Nat
      /\ IsFiniteSet(c) /\ Cardinality(c) \in Nat
  BY <1>2, EndedFinite
<1>4. \A i \in 1 .. n : ended[i].result.kind \in {"passed", "violated", "error"}
  <2>1. results \in Seq(Outcomes) /\ DOMAIN results = 1 .. n
    BY <1>1 DEF ResultsInv, Tallies
  <2>2. \A i \in 1 .. n : results[i] \in Outcomes /\ ended[i].result.kind = results[i]
    BY <1>1, <2>1 DEF Tallies
  <2>3. QED
    BY <2>2 DEF Outcomes
<1>5. (a \cup b) \cup c = 1 .. n /\ a \cap b = {} /\ (a \cup b) \cap c = {}
  BY <1>1, <1>2, <1>4 DEF Ended
<1>6. IsFiniteSet(a \cup b) /\ Cardinality(a \cup b) = Cardinality(a) + Cardinality(b)
  <2>1. /\ IsFiniteSet(a \cup b)
        /\ Cardinality(a \cup b) = Cardinality(a) + Cardinality(b) - Cardinality(a \cap b)
    BY <1>3, FS_Union
  <2>2. Cardinality(a \cap b) = 0
    BY <1>5, FS_EmptySet
  <2>3. QED
    BY <1>3, <2>1, <2>2
<1>7. PICK d : d = a \cup b
  OBVIOUS
<1>8. Cardinality(d \cup c) = Cardinality(d) + Cardinality(c)
  <2>1. Cardinality(d \cup c) = Cardinality(d) + Cardinality(c) - Cardinality(d \cap c)
    BY <1>3, <1>6, <1>7, FS_Union
  <2>2. Cardinality(d \cap c) = 0
    BY <1>5, <1>7, FS_EmptySet
  <2>3. Cardinality(d) \in Nat
    BY <1>3, <1>6, <1>7
  <2>4. QED
    BY <1>3, <2>1, <2>2, <2>3
<1>9. Cardinality(d \cup c) = n
  BY <1>5, <1>7, IntervalSize
<1>10. QED
  BY <1>1, <1>2, <1>3, <1>6, <1>7, <1>8, <1>9

\* What a summary says of the runs it counts.
LEMMA DocumentCounts ==
    ASSUME StageInv, SweepInv, ResultsInv, ReportsInv, ReportedInv, Summarise
    PROVE  /\ document'.passed + document'.violated + document'.incomplete = document'.seeds_run
           /\ IsComplete(document') <=> "error" \notin ToSet(results)
           /\ document'.violated = Cardinality({i \in DOMAIN results : results[i] = "violated"})
<1>1. PICK n : n = Len(Failures)
  OBVIOUS
<1>2. n \in Nat /\ Len(reports') = n
  BY <1>1, AllReported
<1>3. Tallies(results, ended) /\ mine' = mine /\ ended' = ended /\ Swept
  BY DEF Summarise, ResultsInv, StageInv
<1>4. PICK a, c : a = Cardinality(Ended("passed")) /\ c = Cardinality(Ended("error"))
  OBVIOUS
<1>5. a \in Nat /\ c \in Nat
  BY <1>4, EndedFinite
<1>6. n = Cardinality(Ended("violated"))
  BY <1>1, FailuresAre
<1>7. a + n + c = Len(mine) /\ Len(mine) \in Nat
  BY <1>3, <1>4, <1>6, KindsAdd DEF Swept
<1>8. /\ document'.passed = a /\ document'.violated = n /\ document'.incomplete = c
      /\ document'.seeds_run = Len(mine)
  <2>1. document' = ToReport(reports', command.shard, command.start, command.count)
    BY DEF Summarise
  <2>2. PICK rows : rows = reports'
    OBVIOUS
  <2>3. document' = [shard |-> command.shard, seed_start |-> command.start,
                     seed_count |-> command.count, seeds_run |-> Len(mine), passed |-> a,
                     violated |-> Len(rows), incomplete |-> c,
                     distinct_failures |-> Group(rows), failures |-> rows]
    BY <1>4, <2>1, <2>2 DEF ToReport
  <2>4. QED
    BY <1>2, <2>2, <2>3
<1>9. DOMAIN results = DOMAIN ended /\ \A i \in DOMAIN ended : ended[i].result.kind = results[i]
  BY <1>3 DEF Tallies
<1>10. "error" \notin ToSet(results) <=> c = 0
  <2>1. Ended("error") = {} <=> "error" \notin ToSet(results)
    BY <1>9 DEF Ended, ToSet
  <2>2. Ended("error") = {} <=> c = 0
    BY <1>4, EndedFinite, FS_EmptySet
  <2>3. QED
    BY <2>1, <2>2
<1>11. IsComplete(document') <=> c = 0
  BY <1>2, <1>5, <1>7, <1>8 DEF IsComplete
<1>12. {i \in DOMAIN results : results[i] = "violated"} = Ended("violated")
  BY <1>9 DEF Ended
<1>13. QED
  BY <1>2, <1>5, <1>6, <1>7, <1>8, <1>10, <1>11, <1>12

LEMMA SeedsTyped ==
    ASSUME SweepInv, NEW k \in DOMAIN Failures
    PROVE  SeedOf(k) \in Nat
<1>1. PICK i \in DOMAIN ended : Failures[k] = ended[i]
  BY FailuresAre DEF Violating
<1>2. Failures[k].at \in DOMAIN mine
  BY <1>1 DEF SweepInv
<1>3. QED
  BY <1>2 DEF SeedOf, SweepInv

LEMMA DocumentMade ==
    ASSUME StageInv, SweepInv, ResultsInv, ReportsInv, ReportedInv, ShardInv, Summarise
    PROVE  DocumentAccounts'
<1>1. PICK n : n = Len(Failures)
  OBVIOUS
<1>2. PICK rows : rows = reports'
  OBVIOUS
<1>3. /\ n \in Nat /\ Listed(rows) /\ Len(rows) = n
      /\ \A k \in 1 .. n : rows[k].seed = SeedOf(k)
  BY <1>1, <1>2, AllReported
<1>4. DOMAIN rows = 1 .. n /\ DOMAIN Failures = 1 .. n
  BY <1>1, <1>3, FailuresAre, ListedIs
<1>5. /\ mine' = mine /\ ended' = ended /\ results' = results /\ script' = script
      /\ command' = command /\ command.name = "fuzz" /\ pc = "sweeping"
  BY DEF Summarise, StageInv, command
<1>6. Failures' = Failures
  BY <1>5, FailuresStay
<1>7. document'.failures = rows /\ document'.distinct_failures = Group(rows)
  BY <1>2 DEF Summarise, ToReport
<1>8. SeedsAreNumbers(rows)
  BY <1>3, <1>4, SeedsTyped DEF SeedsAreNumbers
<1>9. GroupsAccount(Group(rows), rows)
  BY <1>3, <1>4, <1>8, GroupsAccounted
<1>10. command.shard # Nothing => ShardsShare(command.start, command.count, command.shard.count)
  <2>1. SUFFICES ASSUME command.shard # Nothing
                 PROVE  ShardsShare(command.start, command.count, command.shard.count)
    OBVIOUS
  <2>2. IsCommand(command)
    BY <1>5, CurrentCommand DEF StageInv
  <2>3. command.count \in Nat /\ command.shard \in [index : Nat, count : Nat]
    BY <1>5, <2>1, <2>2, TopAssumption DEF IsCommand
  <2>4. command.shard.count \in Nat /\ command.shard.count # 0
    BY <1>5, <2>1, <2>3 DEF ShardInv, InSweep, ShardExists
  <2>5. QED
    BY <2>3, <2>4, ShardsShareAll
<1>11. /\ document'.passed + document'.violated + document'.incomplete = document'.seeds_run
       /\ IsComplete(document') <=> "error" \notin ToSet(results)
       /\ document'.violated = Cardinality({i \in DOMAIN results : results[i] = "violated"})
  BY DocumentCounts
<1>12. \A k \in DOMAIN Failures : rows[k].seed = mine[Failures[k].at]
  BY <1>3, <1>4 DEF SeedOf
<1>13. Len(rows) = Len(Failures)
  BY <1>1, <1>3
<1>14. /\ GroupsAccount(document'.distinct_failures, document'.failures)
       /\ Len(document'.failures) = Len(Failures')
       /\ \A k \in DOMAIN Failures' : document'.failures[k].seed = mine'[Failures'[k].at]
  BY <1>5, <1>6, <1>7, <1>9, <1>12, <1>13
<1>15. IsComplete(document)' <=> "error" \notin ToSet(results')
  BY <1>5, <1>11 DEF IsComplete
<1>16. ShardsShare(command.start, command.count, command.shard.count)'
           <=> ShardsShare(command.start, command.count, command.shard.count)
  BY <1>5
<1>17. QED
  BY <1>5, <1>10, <1>11, <1>14, <1>15, <1>16 DEF DocumentAccounts

-----------------------------------------------------------------------------
\* The accounts of a sweep, as a whole.

DocumentInv == (document # None => pc \in {"document", "exited"}) /\ DocumentAccounts

LEMMA DocumentStays == Next => document' = document \/ NextCommand \/ Summarise
BY DEF Next, Prepare, PrepareFails, Usage, NextCommand, Check, Execute, ExecuteFails, WriteTrace,
       JudgeRun, JudgeReplay, JudgeShrink, Shrink, ShrinkFails, Verify, ReportRun, RewriteTrace,
       ReportShrink, Fail, Sweeping, LaunchRun, FinishRun, FinishRunFails, ShrinkNext,
       ReportFailure, Summarise, WriteDocument

LEMMA AccountsStay ==
    ASSUME DocumentAccounts, UNCHANGED <<document, results, script, mine, ended>>
    PROVE  DocumentAccounts'
<1>1. Failures' = Failures /\ command' = command
  BY FailuresStay DEF command
<1>2. IsComplete(document)' <=> IsComplete(document)
  BY DEF IsComplete
<1>3. GroupsAccount(document.distinct_failures, document.failures)'
          <=> GroupsAccount(document.distinct_failures, document.failures)
  OBVIOUS
<1>4. ShardsShare(command.start, command.count, command.shard.count)'
          <=> ShardsShare(command.start, command.count, command.shard.count)
  BY <1>1
<1>5. QED
  BY <1>1, <1>2, <1>3, <1>4 DEF DocumentAccounts

LEMMA DocumentStep ==
    ASSUME StageInv, SweepInv, ResultsInv, ReportsInv, ReportedInv, ShardInv, DocumentInv, Next
    PROVE  DocumentInv'
<1>1. CASE Summarise
  <2>1. pc' = "document"
    BY <1>1 DEF Summarise
  <2>2. DocumentAccounts'
    BY <1>1, DocumentMade
  <2>3. QED
    BY <2>1, <2>2 DEF DocumentInv
<1>2. CASE NextCommand
  <2>1. document' = None
    BY <1>2 DEF NextCommand
  <2>2. QED
    BY <2>1 DEF DocumentInv, DocumentAccounts
<1>3. CASE ~Summarise /\ ~NextCommand
  <2>1. document' = document
    BY <1>3, DocumentStays
  <2>2. CASE document = None
    BY <2>1, <2>2 DEF DocumentInv, DocumentAccounts
  <2>3. CASE document # None
    <3>1. pc \in {"document", "exited"} /\ DocumentAccounts
      BY <2>3 DEF DocumentInv
    <3>2. WriteDocument
      BY <1>3, <3>1 DEF Next, Prepare, PrepareFails, Usage, Check, Execute, ExecuteFails, WriteTrace,
         JudgeRun, JudgeReplay, JudgeShrink, Shrink, ShrinkFails, Verify, ReportRun,
         RewriteTrace, ReportShrink, Fail, Sweeping, LaunchRun, FinishRun, FinishRunFails,
         ShrinkNext, ReportFailure
    <3>3. UNCHANGED <<document, results, script, mine, ended>> /\ pc' = "exited"
      BY <3>2 DEF WriteDocument, Refuse, Exit, sweepVars
    <3>4. DocumentAccounts'
      BY <3>1, <3>3, AccountsStay
    <3>5. QED
      BY <3>3, <3>4 DEF DocumentInv
  <2>4. QED
    BY <2>2, <2>3
<1>4. QED
  BY <1>1, <1>2, <1>3

AccountsInv == CountInv /\ LineInv /\ ReportedInv /\ ShardInv /\ DocumentInv

LEMMA InitAccounts == Init => AccountsInv
<1>1. SUFFICES ASSUME Init PROVE AccountsInv
  OBVIOUS
<1>2. /\ mine = <<>> /\ launched = 0 /\ flying = {} /\ ended = <<>>
      /\ done = 0 /\ failing = 0 /\ told = Nothing /\ line = Nothing
      /\ pc = "start" /\ reports = <<>> /\ document = None
  BY <1>1 DEF Init, NoSweep
<1>3. CountInv
  <2>1. Ended("violated") = {}
    BY <1>2 DEF Ended
  <2>2. Cardinality(Ended("violated")) = 0 /\ Cardinality(flying) = 0
    BY <1>2, <2>1, FS_EmptySet
  <2>3. QED
    BY <1>2, <2>2 DEF CountInv
<1>4. LineInv /\ ReportedInv
  BY <1>2 DEF LineInv, ReportedInv
<1>5. ShardInv
  BY <1>2 DEF ShardInv, InSweep
<1>6. DocumentInv
  BY <1>2 DEF DocumentInv, DocumentAccounts
<1>7. QED
  BY <1>3, <1>4, <1>5, <1>6 DEF AccountsInv

LEMMA StutterAccounts == AccountsInv /\ UNCHANGED vars => AccountsInv'
<1>1. SUFFICES ASSUME AccountsInv, UNCHANGED vars PROVE AccountsInv'
  OBVIOUS
<1>2. /\ UNCHANGED <<setting, script, pc, results, reports, document>>
      /\ UNCHANGED <<mine, launched, flying, ended, done, failing, told, line>>
  BY <1>1 DEF vars, sweepVars
<1>3. Failures' = Failures /\ Swept' = Swept /\ command' = command
  BY <1>2, FailuresStay DEF command
<1>4. CountInv'
  BY <1>1, <1>2 DEF AccountsInv, CountInv, Ended
<1>5. LineInv'
  BY <1>1, <1>2, <1>3 DEF AccountsInv, LineInv
<1>6. ReportedInv'
  BY <1>1, <1>2, <1>3 DEF AccountsInv, ReportedInv, SeedOf
<1>7. ShardInv'
  BY <1>1, <1>2, <1>3 DEF AccountsInv, ShardInv, InSweep
<1>8. DocumentInv'
  BY <1>1, <1>2, AccountsStay DEF AccountsInv, DocumentInv
<1>9. QED
  BY <1>4, <1>5, <1>6, <1>7, <1>8 DEF AccountsInv

LEMMA StepAccounts == CampaignInv /\ AccountsInv /\ Next => AccountsInv'
<1>1. SUFFICES ASSUME CampaignInv, AccountsInv, Next PROVE AccountsInv'
  OBVIOUS
<1>2. StageInv /\ SweepInv /\ ResultsInv /\ ReportsInv
  BY <1>1 DEF CampaignInv
<1>3. CountInv /\ LineInv /\ ReportedInv /\ ShardInv /\ DocumentInv
  BY <1>1 DEF AccountsInv
<1>4. CountInv' /\ LineInv'
  BY <1>1, <1>2, <1>3, CountStep, LineStep
<1>5. ReportedInv' /\ ShardInv' /\ DocumentInv'
  BY <1>1, <1>2, <1>3, ReportedStep, ShardStep, DocumentStep
<1>6. QED
  BY <1>4, <1>5 DEF AccountsInv

\* A run that was started has ended or is in flight, so what is told never exceeds the total.
LEMMA ProgressIsHonest ==
    ASSUME StageInv, SweepInv, CountInv, LineInv
    PROVE  ProgressHonest
<1>1. ASSUME told # Nothing
      PROVE  /\ told.completed = Len(ended) /\ told.failing = Cardinality(Ended("violated"))
             /\ told.completed + Cardinality(flying) <= told.total
  <2>1. PICK n \in Nat : n = Len(mine)
    BY DEF SweepInv
  <2>2. told.completed = done /\ told.total = n /\ told.failing = failing
    BY <1>1, <2>1 DEF CountInv
  <2>3. done = Len(ended) /\ failing = Cardinality(Ended("violated"))
    BY DEF CountInv
  <2>4. Len(ended) + Cardinality(flying) = launched /\ launched <= n
    BY <2>1 DEF CountInv, SweepInv
  <2>5. QED
    BY <2>2, <2>3, <2>4
<1>2. pc \in {"document", "exited"} => line = Nothing
  BY DEF LineInv
<1>3. QED
  BY <1>1, <1>2 DEF ProgressHonest, LineInv

\* fuzz: the document accounts for every run of the sweep once, under its own seed and in one
\* group of failures, whatever the order its runs end in; and what is told of it on the way,
\* to the callback and on the terminal, counts the runs that ended and no others.
THEOREM SweepsAccount == Spec => []SweepAccounts
<1>1. CampaignInv /\ AccountsInv /\ [Next]_vars => AccountsInv'
  BY StepAccounts, StutterAccounts
<1>2. CampaignInv /\ AccountsInv => SweepAccounts
  <2>1. SUFFICES ASSUME CampaignInv, AccountsInv PROVE SweepAccounts
    OBVIOUS
  <2>2. ProgressHonest
    BY <2>1, ProgressIsHonest DEF CampaignInv, AccountsInv
  <2>3. QED
    BY <2>1, <2>2 DEF AccountsInv, DocumentInv, SweepAccounts
<1>3. QED
  BY InitAccounts, EveryStageIsAsItSays, <1>1, <1>2, PTL DEF Spec

-----------------------------------------------------------------------------
\* The order deliveries arrive in.

LEMMA MaxIs ==
    ASSUME NEW n \in Nat, NEW set \in SUBSET (1 .. n), set # {}
    PROVE  Max(set) \in set /\ \A x \in set : x <= Max(set)
<1>1. PICK short : short = {n - x : x \in set}
  OBVIOUS
<1>2. short \in SUBSET Nat /\ short # {}
  <2>1. \A x \in set : n - x \in Nat
    OBVIOUS
  <2>2. QED
    BY <1>1, <2>1
<1>3. PICK m \in short : \A y \in short : m <= y
  BY <1>2, LeastExists
<1>4. PICK x \in set : m = n - x
  BY <1>1, <1>3
<1>5. \A y \in set : x >= y
  <2>1. \A y \in set : m <= n - y
    BY <1>1, <1>3
  <2>2. QED
    BY <1>4, <2>1
<1>6. \E y \in set : \A z \in set : y >= z
  BY <1>5
<1>7. Max(set) \in set /\ \A y \in set : Max(set) >= y
  BY <1>6 DEF Max
<1>8. QED
  BY <1>7

\* What a fold makes of each set of places.
FoldsTook(g, sets, base, list) ==
    g = [s \in sets |-> IF s = {} THEN base ELSE Took(g[s \ {Max(s)}], list[Max(s)])]

TookAll(base, list) == FoldLeft(Took, base, list)

\* One state after another.
TookSteps(base, list, n) ==
    \E f : /\ f[0] = base /\ TookAll(base, list) = f[n]
           /\ \A k \in 1 .. n : f[k] = Took(f[k - 1], list[k])

LEMMA TookFolds ==
    ASSUME NEW n \in Nat, NEW list, DOMAIN list = 1 .. n, NEW base
    PROVE  TookSteps(base, list, n)
<1> DEFINE Small(m) == {s \in SUBSET (1 .. n) : Cardinality(s) <= m}
<1>1. \A s \in SUBSET (1 .. n) : IsFiniteSet(s) /\ Cardinality(s) \in Nat /\ Cardinality(s) <= n
  <2>1. PICK all : all = 1 .. n
    OBVIOUS
  <2>2. IsFiniteSet(all) /\ Cardinality(all) = n
    BY <2>1, IntervalSize
  <2>3. \A s \in SUBSET all : IsFiniteSet(s) /\ Cardinality(s) <= n
    BY <2>2, FS_Subset
  <2>4. \A s \in SUBSET all : Cardinality(s) \in Nat
    BY <2>3, FS_CardinalityType
  <2>5. QED
    BY <2>1, <2>3, <2>4
<1>2. \A s \in SUBSET (1 .. n) : s # {} =>
          /\ Max(s) \in s /\ s \ {Max(s)} \in SUBSET (1 .. n)
          /\ Cardinality(s \ {Max(s)}) = Cardinality(s) - 1
  BY <1>1, MaxIs, FS_RemoveElement
<1>3. Small(0) = {{}}
  BY <1>1, FS_EmptySet
<1>4. \E g : FoldsTook(g, Small(0), base, list)
  <2>1. PICK g : g = [s \in Small(0) |-> base]
    OBVIOUS
  <2>2. g = [s \in Small(0) |-> IF s = {} THEN base ELSE Took(g[s \ {Max(s)}], list[Max(s)])]
    BY <1>3, <2>1
  <2>3. QED
    BY <2>2 DEF FoldsTook
<1>5. ASSUME NEW m \in Nat, NEW g, FoldsTook(g, Small(m), base, list)
      PROVE  \E h : FoldsTook(h, Small(m + 1), base, list)
  <2>1. PICK h : h = [s \in Small(m + 1) |->
                         IF s = {} THEN base ELSE Took(g[s \ {Max(s)}], list[Max(s)])]
    OBVIOUS
  <2>2. \A s \in Small(m) : s \in Small(m + 1) /\ h[s] = g[s]
    <3>1. \A s \in Small(m) : s \in Small(m + 1)
      BY <1>1
    <3>2. \A s \in Small(m) :
              g[s] = IF s = {} THEN base ELSE Took(g[s \ {Max(s)}], list[Max(s)])
      BY <1>5 DEF FoldsTook
    <3>3. \A s \in Small(m + 1) :
              h[s] = IF s = {} THEN base ELSE Took(g[s \ {Max(s)}], list[Max(s)])
      BY <2>1
    <3>4. QED
      BY <3>1, <3>2, <3>3
  <2>3. ASSUME NEW s \in Small(m + 1), s # {}
        PROVE  s \ {Max(s)} \in Small(m)
    <3>1. PICK rest : rest = s \ {Max(s)}
      OBVIOUS
    <3>2. rest \in SUBSET (1 .. n) /\ Cardinality(rest) = Cardinality(s) - 1
      BY <1>2, <2>3, <3>1
    <3>3. Cardinality(s) \in Nat /\ Cardinality(s) <= m + 1
      BY <1>1
    <3>4. Cardinality(rest) <= m
      BY <3>2, <3>3
    <3>5. QED
      BY <3>1, <3>2, <3>4
  <2>4. h = [s \in Small(m + 1) |->
                IF s = {} THEN base ELSE Took(h[s \ {Max(s)}], list[Max(s)])]
    BY <2>1, <2>2, <2>3
  <2>5. QED
    BY <2>4 DEF FoldsTook
<1>6. \A m \in Nat : \E g : FoldsTook(g, Small(m), base, list)
  <2>1. SUFFICES ASSUME \E m \in Nat : ~ \E g : FoldsTook(g, Small(m), base, list) PROVE FALSE
    OBVIOUS
  <2>2. PICK bad : bad = {m \in Nat : ~ \E g : FoldsTook(g, Small(m), base, list)}
    OBVIOUS
  <2>3. bad \in SUBSET Nat /\ bad # {}
    BY <2>1, <2>2
  <2>4. PICK m \in bad : \A k \in bad : m <= k
    BY <2>3, LeastExists
  <2>5. m \in Nat /\ m # 0
    BY <1>4, <2>2
  <2>6. PICK k \in Nat : m = k + 1
    BY <2>5
  <2>7. k \notin bad
    BY <2>4, <2>6
  <2>8. \E g : FoldsTook(g, Small(k), base, list)
    BY <2>2, <2>7
  <2>9. QED
    BY <1>5, <2>2, <2>6, <2>8
<1>7. Small(n) = SUBSET (1 .. n)
  BY <1>1
<1>8. PICK iter : /\ iter = CHOOSE g : FoldsTook(g, SUBSET (1 .. n), base, list)
                  /\ FoldsTook(iter, SUBSET (1 .. n), base, list)
  BY <1>6, <1>7
<1>9. TookAll(base, list) = iter[1 .. n]
  BY <1>8 DEF TookAll, FoldLeft, MapThenFoldSet, FoldsTook
<1>10. PICK f : f = [k \in 0 .. n |-> iter[1 .. k]]
  OBVIOUS
<1>11. f[0] = base /\ f[n] = iter[1 .. n]
  <2>1. f[0] = iter[1 .. 0] /\ f[n] = iter[1 .. n]
    BY <1>10
  <2>2. 1 .. 0 = {} /\ {} \in SUBSET (1 .. n)
    OBVIOUS
  <2>3. iter[{}] = base
    BY <1>8, <2>2 DEF FoldsTook
  <2>4. QED
    BY <2>1, <2>2, <2>3
<1>12. ASSUME NEW k \in 1 .. n
       PROVE  f[k] = Took(f[k - 1], list[k])
  <2>1. 1 .. k \in SUBSET (1 .. n) /\ 1 .. k # {} /\ k \in 1 .. k
    <3>1. k \in Nat /\ 1 <= k /\ k <= n
      OBVIOUS
    <3>2. \A i \in 1 .. k : i \in 1 .. n
      BY <3>1
    <3>3. k \in 1 .. k
      BY <3>1
    <3>4. QED
      BY <3>2, <3>3
  <2>2. Max(1 .. k) = k
    <3>1. PICK m : m = Max(1 .. k) /\ m \in 1 .. k /\ k <= m
      BY <2>1, MaxIs
    <3>2. QED
      BY <3>1
  <2>3. (1 .. k) \ {k} = 1 .. k - 1
    OBVIOUS
  <2>4. iter[1 .. k] = Took(iter[1 .. k - 1], list[k])
    BY <1>8, <2>1, <2>2, <2>3 DEF FoldsTook
  <2>5. QED
    BY <1>10, <2>4
<1>13. QED
  BY <1>9, <1>11, <1>12 DEF TookSteps

LEMMA PickedAll ==
    ASSUME NEW n \in Nat, NEW list, list = [i \in 1 .. n |-> list[i]]
    PROVE  Picked(list, 1 .. n) = list
<1>1. PICK at : at = Ranked(1 .. n, LAMBDA i, j : i < j)
  OBVIOUS
<1>2. \A x \in 1 .. n : Cardinality({y \in 1 .. n : y < x}) = x - 1
  <2>1. TAKE x \in 1 .. n
  <2>2. x - 1 \in Nat /\ {y \in 1 .. n : y < x} = 1 .. x - 1
    OBVIOUS
  <2>3. QED
    BY <2>2, IntervalSize
<1>3. Cardinality(1 .. n) = n
  BY IntervalSize
<1>4. at = [k \in 1 .. n |-> CHOOSE x \in 1 .. n : Cardinality({y \in 1 .. n : y < x}) = k - 1]
  BY <1>1, <1>3 DEF Ranked
<1>5. ASSUME NEW k \in 1 .. n
      PROVE  at[k] = k
  <2>1. Cardinality({y \in 1 .. n : y < k}) = k - 1
    BY <1>2
  <2>2. at[k] \in 1 .. n /\ Cardinality({y \in 1 .. n : y < at[k]}) = k - 1
    BY <1>4, <2>1
  <2>3. at[k] - 1 = k - 1
    BY <1>2, <2>2
  <2>4. QED
    BY <2>2, <2>3
<1>6. Picked(list, 1 .. n) = [k \in 1 .. n |-> list[at[k]]]
  BY <1>1, <1>3 DEF Picked
<1>7. [k \in 1 .. n |-> list[at[k]]] = [k \in 1 .. n |-> list[k]]
  BY <1>5
<1>8. QED
  BY <1>6, <1>7

\* The second list behind the first.
Joins(list, more, longer) == longer = list \o more

LEMMA ConcatAt ==
    ASSUME NEW list, Listed(list), NEW more, Listed(more), NEW longer, Joins(list, more, longer)
    PROVE  /\ Listed(longer) /\ Len(longer) = Len(list) + Len(more)
           /\ \A i \in DOMAIN list : longer[i] = list[i]
           /\ \A i \in DOMAIN more : longer[Len(list) + i] = more[i]
           /\ Range(longer) = Range(list) \cup Range(more)
<1>1. PICK S : S = Range(list) \cup Range(more)
  OBVIOUS
<1>2. list \in Seq(S) /\ more \in Seq(S)
  <2>1. PICK R, T : R = Range(list) /\ T = Range(more)
    OBVIOUS
  <2>2. list \in Seq(R) /\ more \in Seq(T) /\ R \subseteq S /\ T \subseteq S
    BY <1>1, <2>1 DEF Listed
  <2>3. QED
    BY <2>2
<1>3. PICK n \in Nat, m \in Nat :
          n = Len(list) /\ m = Len(more) /\ DOMAIN list = 1 .. n /\ DOMAIN more = 1 .. m
  BY <1>2
<1>4. longer \in Seq(S) /\ Len(longer) = n + m
  BY <1>2, <1>3 DEF Joins
<1>5. \A i \in 1 .. n : longer[i] = list[i]
  BY <1>2, <1>3 DEF Joins
<1>6. \A i \in 1 .. m : longer[n + i] = more[i]
  BY <1>2, <1>3 DEF Joins
<1>7. Listed(longer)
  BY <1>4, SequenceListed
<1>8. Range(longer) = Range(list) \cup Range(more)
  BY ConcatListed DEF Joins
<1>9. Len(longer) = Len(list) + Len(more)
  BY <1>3, <1>4
<1>10. \A i \in DOMAIN list : longer[i] = list[i]
  BY <1>3, <1>5
<1>11. \A i \in DOMAIN more : longer[Len(list) + i] = more[i]
  BY <1>3, <1>6
<1>12. QED
  BY <1>7, <1>8, <1>9, <1>10, <1>11

\* What came late: behind something that was sent after it.
CameLate(arrivals) == {arrivals[i] : i \in Late(arrivals)}
Behind(list, more, j) ==
    \/ \E i \in DOMAIN list : list[i] > more[j]
    \/ \E i \in 1 .. j - 1 : more[i] > more[j]

LEMMA LateOfBoth ==
    ASSUME NEW list, Listed(list), NEW more, Listed(more), NEW longer, Joins(list, more, longer)
    PROVE  CameLate(longer)
              = CameLate(list) \cup {more[j] : j \in {j \in DOMAIN more : Behind(list, more, j)}}
<1>1. PICK n, m : n = Len(list) /\ m = Len(more)
  OBVIOUS
<1>2. /\ n \in Nat /\ m \in Nat
      /\ DOMAIN list = 1 .. n /\ DOMAIN more = 1 .. m /\ DOMAIN longer = 1 .. n + m
      /\ \A i \in 1 .. n : longer[i] = list[i]
      /\ \A i \in 1 .. m : longer[n + i] = more[i]
  <2>1. n \in Nat /\ m \in Nat /\ DOMAIN list = 1 .. n /\ DOMAIN more = 1 .. m
    BY <1>1, ListedIs
  <2>2. /\ Listed(longer) /\ Len(longer) = Len(list) + Len(more)
        /\ \A i \in DOMAIN list : longer[i] = list[i]
        /\ \A i \in DOMAIN more : longer[Len(list) + i] = more[i]
    BY ConcatAt
  <2>3. Len(longer) = n + m
    BY <1>1, <2>2
  <2>4. DOMAIN longer = 1 .. n + m
    BY <2>2, <2>3, ListedIs
  <2>5. \A i \in 1 .. m : longer[n + i] = more[i]
    BY <1>1, <2>1, <2>2
  <2>6. QED
    BY <2>1, <2>2, <2>4, <2>5
<1>3. \A i \in 1 .. n : i \in Late(longer) <=> i \in Late(list)
  <2>1. TAKE i \in 1 .. n
  <2>2. i \in 1 .. n + m /\ \A j \in 1 .. i - 1 : j \in 1 .. n
    BY <1>2
  <2>3. \A j \in 1 .. i - 1 : longer[j] = list[j]
    BY <1>2, <2>2
  <2>4. QED
    BY <1>2, <2>2, <2>3 DEF Late
<1>4. \A j \in 1 .. m : n + j \in Late(longer) <=> Behind(list, more, j)
  <2>1. TAKE j \in 1 .. m
  <2>2. n + j \in 1 .. n + m /\ longer[n + j] = more[j]
    BY <1>2
  <2>3. n + j \in Late(longer) <=> \E i \in 1 .. n + j - 1 : longer[i] > more[j]
    BY <1>2, <2>2 DEF Late
  <2>4. ASSUME NEW i \in 1 .. n + j - 1, longer[i] > more[j]
        PROVE  Behind(list, more, j)
    <3>1. CASE i <= n
      <4>1. i \in 1 .. n
        BY <1>2, <3>1
      <4>2. QED
        BY <1>2, <2>4, <4>1 DEF Behind
    <3>2. CASE i > n
      <4>1. PICK k : k = i - n
        OBVIOUS
      <4>2. k \in 1 .. j - 1 /\ k \in 1 .. m /\ n + k = i
        BY <1>2, <3>2, <4>1
      <4>3. more[k] > more[j]
        BY <1>2, <2>4, <4>2
      <4>4. QED
        BY <4>2, <4>3 DEF Behind
    <3>3. QED
      BY <1>2, <3>1, <3>2
  <2>5. ASSUME Behind(list, more, j)
        PROVE  \E i \in 1 .. n + j - 1 : longer[i] > more[j]
    <3>1. CASE \E i \in DOMAIN list : list[i] > more[j]
      <4>1. PICK i \in 1 .. n : list[i] > more[j]
        BY <1>2, <3>1
      <4>2. i \in 1 .. n + j - 1 /\ longer[i] > more[j]
        BY <1>2, <4>1
      <4>3. QED
        BY <4>2
    <3>2. CASE \E i \in 1 .. j - 1 : more[i] > more[j]
      <4>1. PICK i \in 1 .. j - 1 : more[i] > more[j]
        BY <3>2
      <4>2. i \in 1 .. m /\ n + i \in 1 .. n + j - 1
        BY <1>2
      <4>3. longer[n + i] > more[j]
        BY <1>2, <4>1, <4>2
      <4>4. QED
        BY <4>2, <4>3
    <3>3. QED
      BY <2>5, <3>1, <3>2 DEF Behind
  <2>6. QED
    BY <2>3, <2>4, <2>5
<1>5. ASSUME NEW x \in CameLate(longer)
      PROVE  x \in CameLate(list)
                 \/ \E j \in {j \in DOMAIN more : Behind(list, more, j)} : x = more[j]
  <2>1. PICK i \in Late(longer) : x = longer[i]
    BY <1>5 DEF CameLate
  <2>2. i \in 1 .. n + m
    BY <1>2, <2>1 DEF Late
  <2>3. CASE i <= n
    <3>1. i \in 1 .. n
      BY <1>2, <2>2, <2>3
    <3>2. QED
      BY <1>2, <1>3, <2>1, <3>1 DEF CameLate
  <2>4. CASE i > n
    <3>1. PICK j : j = i - n
      OBVIOUS
    <3>2. j \in 1 .. m /\ n + j = i
      BY <1>2, <2>2, <2>4, <3>1
    <3>3. x = more[j] /\ Behind(list, more, j)
      BY <1>2, <1>4, <2>1, <3>2
    <3>4. QED
      BY <1>2, <3>2, <3>3
  <2>5. QED
    BY <1>2, <2>2, <2>3, <2>4
<1>6. ASSUME NEW x \in CameLate(list)
      PROVE  x \in CameLate(longer)
  <2>1. PICK i \in Late(list) : x = list[i]
    BY <1>6 DEF CameLate
  <2>2. i \in 1 .. n
    BY <1>2, <2>1 DEF Late
  <2>3. QED
    BY <1>2, <1>3, <2>1, <2>2 DEF CameLate
<1>7. ASSUME NEW j \in DOMAIN more, Behind(list, more, j)
      PROVE  more[j] \in CameLate(longer)
  <2>1. n + j \in Late(longer) /\ longer[n + j] = more[j]
    BY <1>2, <1>4, <1>7
  <2>2. QED
    BY <2>1 DEF CameLate
<1>8. QED
  BY <1>5, <1>6, <1>7

\* What has become of the first k deliveries of a batch.
Through(took, k) == {i \in 1 .. k : took[i] = Allow}
Deferred(took, k) == {i \in 1 .. k : took[i] = "reorder"}
Overtaken(took, k) == {i \in Deferred(took, k) : \E j \in Through(took, k) : j > i}

Arrives(state, took, k) ==
    /\ state = [deferred |-> state.deferred, arrived |-> state.arrived]
    /\ Listed(state.arrived) /\ Listed(state.deferred)
    /\ Range(state.arrived) = Through(took, k) \cup Overtaken(took, k)
    /\ Range(state.deferred) = Deferred(took, k) \ Overtaken(took, k)
    /\ CameLate(state.arrived) = Overtaken(took, k)
    /\ \A i \in DOMAIN state.deferred : \A j \in 1 .. i - 1 : state.deferred[j] > state.deferred[i]
    /\ Len(state.arrived) + Len(state.deferred) <= k
    /\ state.deferred # <<>> => Len(state.arrived) + Len(state.deferred) <= state.deferred[1]
    /\ state.arrived # <<>> => \E x \in Range(state.arrived) : Len(state.arrived) <= x

LEMMA OneListed ==
    ASSUME NEW x
    PROVE  /\ Listed(<<x>>) /\ Len(<<x>>) = 1 /\ DOMAIN <<x>> = 1 .. 1 /\ <<x>>[1] = x
           /\ Range(<<x>>) = {x}
<1>1. <<x>> \in Seq({x}) /\ Len(<<x>>) = 1 /\ DOMAIN <<x>> = 1 .. 1 /\ <<x>>[1] = x
  OBVIOUS
<1>2. Range(<<x>>) = {x}
  BY <1>1 DEF Range
<1>3. QED
  BY <1>1, <1>2, SequenceListed

LEMMA AppendJoins ==
    ASSUME NEW list, Listed(list), NEW x
    PROVE  Append(list, x) = list \o <<x>>
<1>1. PICK S : S = Range(list) \cup {x}
  OBVIOUS
<1>2. list \in Seq(S) /\ x \in S
  <2>1. PICK R : R = Range(list)
    OBVIOUS
  <2>2. list \in Seq(R) /\ R \subseteq S
    BY <1>1, <2>1 DEF Listed
  <2>3. QED
    BY <1>1, <2>2
<1>3. QED
  BY <1>2

\* A delivery that goes through takes the deferred ones with it.
LEMMA ThroughArrives ==
    ASSUME NEW k \in Nat, NEW took, took[k + 1] = Allow, NEW state, Arrives(state, took, k)
    PROVE  Arrives(Took(state, Record(<<1, k + 1>>, Allow)), took, k + 1)
<1>1. PICK p, a, d : p \in Nat /\ p = k + 1 /\ a = state.arrived /\ d = state.deferred
  OBVIOUS
<1>2. PICK T, D, O : T = Through(took, k) /\ D = Deferred(took, k) /\ O = Overtaken(took, k)
  OBVIOUS
<1>3. /\ Listed(a) /\ Listed(d) /\ Range(a) = T \cup O /\ Range(d) = D \ O /\ CameLate(a) = O
      /\ Len(a) + Len(d) <= k
  BY <1>1, <1>2 DEF Arrives
<1>4. T \in SUBSET (1 .. k) /\ D \in SUBSET (1 .. k) /\ O \in SUBSET D
  BY <1>2 DEF Through, Deferred, Overtaken
<1>5. Through(took, p) = T \cup {p} /\ Deferred(took, p) = D /\ Overtaken(took, p) = D
  <2>1. \A i : i \in 1 .. p <=> i \in 1 .. k \/ i = p
    BY <1>1
  <2>2. took[p] = Allow /\ Allow # "reorder"
    BY <1>1 DEF Allow
  <2>3. Through(took, p) = T \cup {p} /\ Deferred(took, p) = D
    BY <1>2, <2>1, <2>2 DEF Through, Deferred
  <2>4. \A i \in D : p > i
    BY <1>1, <1>4
  <2>5. QED
    BY <2>3, <2>4 DEF Overtaken
<1>6. PICK one, first, all : one = <<p>> /\ Joins(a, one, first) /\ Joins(first, d, all)
  BY DEF Joins
<1>7. Took(state, Record(<<1, k + 1>>, Allow)) = [deferred |-> <<>>, arrived |-> all]
  <2>1. Append(a, p) = first
    BY <1>3, <1>6, AppendJoins DEF Joins
  <2>2. PICK record : record = Record(<<1, k + 1>>, Allow)
    OBVIOUS
  <2>3. record.decision = Allow /\ record.key[2] = p
    BY <1>1, <2>2 DEF Record
  <2>4. Took(state, record) = [deferred |-> <<>>, arrived |-> Append(a, p) \o d]
    BY <1>1, <2>3 DEF Took, Allow
  <2>5. QED
    BY <1>6, <2>1, <2>2, <2>4 DEF Joins
<1>8. PICK n \in Nat, m \in Nat : n = Len(a) /\ m = Len(d) /\ DOMAIN a = 1 .. n /\ DOMAIN d = 1 .. m
  BY <1>3, ListedIs
<1>9. /\ Listed(one) /\ Len(one) = 1 /\ DOMAIN one = 1 .. 1 /\ one[1] = p /\ Range(one) = {p}
  BY <1>6, OneListed
<1>10. /\ Listed(first) /\ Len(first) = n + 1 /\ DOMAIN first = 1 .. n + 1 /\ first[n + 1] = p
       /\ Range(first) = T \cup O \cup {p}
  <2>1. Joins(a, one, first)
    BY <1>6
  <2>2. /\ Listed(first) /\ Len(first) = Len(a) + Len(one)
        /\ \A i \in DOMAIN one : first[Len(a) + i] = one[i]
        /\ Range(first) = Range(a) \cup Range(one)
    <3>1. Listed(one)
      BY <1>9
    <3>2. QED
      BY <1>3, <2>1, <3>1, ConcatAt
  <2>3. Len(first) = n + 1 /\ first[n + 1] = p
    BY <1>8, <1>9, <2>2
  <2>4. DOMAIN first = 1 .. n + 1
    BY <2>2, <2>3, ListedIs
  <2>5. QED
    BY <1>3, <1>9, <2>2, <2>3, <2>4
<1>11. Listed(all) /\ Len(all) = n + 1 + m /\ Range(all) = T \cup {p} \cup D
  <2>1. Joins(first, d, all)
    BY <1>6
  <2>2. Listed(all) /\ Len(all) = Len(first) + Len(d) /\ Range(all) = Range(first) \cup Range(d)
    BY <1>3, <1>10, <2>1, ConcatAt
  <2>3. Len(all) = n + 1 + m
    BY <1>8, <1>10, <2>2
  <2>4. QED
    BY <1>3, <1>4, <1>10, <2>2, <2>3
<1>12. CameLate(first) = O
  <2>1. CameLate(first)
            = CameLate(a) \cup {one[j] : j \in {j \in DOMAIN one : Behind(a, one, j)}}
    <3>1. Joins(a, one, first)
      BY <1>6
    <3>2. QED
      BY <1>3, <3>1, <1>9, LateOfBoth
  <2>2. \A i \in DOMAIN a : a[i] \in 1 .. k
    BY <1>3, <1>4 DEF Range
  <2>3. ~Behind(a, one, 1)
    BY <1>1, <1>9, <2>2 DEF Behind
  <2>4. {j \in DOMAIN one : Behind(a, one, j)} = {}
    BY <1>9, <2>3
  <2>5. QED
    BY <1>3, <2>1, <2>4
<1>13. CameLate(all) = D
  <2>1. CameLate(all)
            = CameLate(first) \cup {d[j] : j \in {j \in DOMAIN d : Behind(first, d, j)}}
    <3>1. Joins(first, d, all)
      BY <1>6
    <3>2. QED
      BY <1>3, <3>1, <1>10, LateOfBoth
  <2>2. \A j \in DOMAIN d : d[j] \in 1 .. k
    BY <1>3, <1>4 DEF Range
  <2>3. \A j \in DOMAIN d : Behind(first, d, j)
    <3>1. n + 1 \in DOMAIN first
      BY <1>10
    <3>2. \A j \in DOMAIN d : first[n + 1] > d[j]
      BY <1>1, <1>10, <2>2
    <3>3. QED
      BY <3>1, <3>2 DEF Behind
  <2>4. {d[j] : j \in {j \in DOMAIN d : Behind(first, d, j)}} = Range(d)
    BY <2>3 DEF Range
  <2>5. QED
    BY <1>3, <1>4, <1>12, <2>1, <2>4
<1>14. n + 1 + m <= p
  <2>1. n + m <= k
    BY <1>3, <1>8
  <2>2. QED
    BY <1>1, <2>1
<1>15. p \in Range(all) /\ Len(all) <= p
  BY <1>11, <1>14
<1>16. Listed(<<>>) /\ Len(<<>>) = 0 /\ Range(<<>>) = {} /\ DOMAIN <<>> = {}
  BY NothingListed DEF Range
<1>17. PICK after : after = [deferred |-> <<>>, arrived |-> all]
  OBVIOUS
<1>18. /\ after.deferred = <<>> /\ after.arrived = all
       /\ after = [deferred |-> after.deferred, arrived |-> after.arrived]
  BY <1>17
<1>19. Len(all) + 0 <= p /\ D \ D = {} /\ (T \cup {p}) \cup D = T \cup {p} \cup D
  BY <1>8, <1>11, <1>14
<1>20. Arrives(after, took, p)
  BY <1>5, <1>11, <1>13, <1>15, <1>16, <1>18, <1>19 DEF Arrives
<1>21. QED
  BY <1>1, <1>7, <1>17, <1>20

LEMMA DroppedArrives ==
    ASSUME NEW k \in Nat, NEW took, took[k + 1] = "drop", NEW state, Arrives(state, took, k)
    PROVE  Arrives(Took(state, Record(<<1, k + 1>>, "drop")), took, k + 1)
<1>1. Took(state, Record(<<1, k + 1>>, "drop")) = state
  BY DEF Took, Record
<1>2. \A i : i \in 1 .. k + 1 <=> i \in 1 .. k \/ i = k + 1
  OBVIOUS
<1>3. Through(took, k + 1) = Through(took, k) /\ Deferred(took, k + 1) = Deferred(took, k)
  BY <1>2 DEF Through, Deferred, Allow
<1>4. Overtaken(took, k + 1) = Overtaken(took, k)
  BY <1>3 DEF Overtaken
<1>5. PICK n \in Nat, m \in Nat : n = Len(state.arrived) /\ m = Len(state.deferred)
  BY ListedIs DEF Arrives
<1>6. n + m <= k
  BY <1>5 DEF Arrives
<1>7. Len(state.arrived) + Len(state.deferred) <= k + 1
  <2>1. n + m <= k + 1
    BY <1>6
  <2>2. QED
    BY <1>5, <2>1, Zenon
<1>8. QED
  BY <1>1, <1>3, <1>4, <1>7 DEF Arrives

\* A delivery that is deferred goes to the front of those that wait.
LEMMA DeferredArrives ==
    ASSUME NEW k \in Nat, NEW took, took[k + 1] = "reorder", NEW state, Arrives(state, took, k)
    PROVE  Arrives(Took(state, Record(<<1, k + 1>>, "reorder")), took, k + 1)
<1>1. PICK p, a, d : p \in Nat /\ p = k + 1 /\ a = state.arrived /\ d = state.deferred
  OBVIOUS
<1>2. PICK T, D, O : T = Through(took, k) /\ D = Deferred(took, k) /\ O = Overtaken(took, k)
  OBVIOUS
<1>3. /\ Listed(a) /\ Listed(d) /\ Range(a) = T \cup O /\ Range(d) = D \ O /\ CameLate(a) = O
      /\ Len(a) + Len(d) <= k /\ state = [deferred |-> d, arrived |-> a]
      /\ \A i \in DOMAIN d : \A j \in 1 .. i - 1 : d[j] > d[i]
      /\ a # <<>> => \E x \in Range(a) : Len(a) <= x
  BY <1>1, <1>2 DEF Arrives
<1>4. T \in SUBSET (1 .. k) /\ D \in SUBSET (1 .. k) /\ O \in SUBSET D
  BY <1>2 DEF Through, Deferred, Overtaken
<1>5. Through(took, p) = T /\ Deferred(took, p) = D \cup {p} /\ Overtaken(took, p) = O
  <2>1. \A i : i \in 1 .. p <=> i \in 1 .. k \/ i = p
    BY <1>1
  <2>2. took[p] = "reorder" /\ Allow # "reorder"
    BY <1>1 DEF Allow
  <2>3. Through(took, p) = T /\ Deferred(took, p) = D \cup {p}
    BY <1>2, <2>1, <2>2 DEF Through, Deferred
  <2>4. \A i \in T : ~(i > p)
    BY <1>1, <1>4
  <2>5. Overtaken(took, p) = {i \in D \cup {p} : \E j \in T : j > i}
    BY <2>3 DEF Overtaken
  <2>6. O = {i \in D : \E j \in T : j > i}
    BY <1>2 DEF Overtaken
  <2>7. QED
    BY <2>3, <2>4, <2>5, <2>6
<1>6. PICK one, all : one = <<p>> /\ Joins(one, d, all)
  BY DEF Joins
<1>7. Took(state, Record(<<1, k + 1>>, "reorder")) = [deferred |-> all, arrived |-> a]
  <2>1. PICK record : record = Record(<<1, k + 1>>, "reorder")
    OBVIOUS
  <2>2. record.decision = "reorder" /\ record.key[2] = p
    BY <1>1, <2>1 DEF Record
  <2>3. Took(state, record) = [state EXCEPT !.deferred = <<p>> \o @]
    BY <2>2 DEF Took
  <2>4. QED
    BY <1>1, <1>3, <1>6, <2>1, <2>3 DEF Joins
<1>8. PICK n \in Nat, m \in Nat : n = Len(a) /\ m = Len(d) /\ DOMAIN a = 1 .. n /\ DOMAIN d = 1 .. m
  BY <1>3, ListedIs
<1>9. /\ Listed(one) /\ Len(one) = 1 /\ DOMAIN one = 1 .. 1 /\ one[1] = p /\ Range(one) = {p}
  BY <1>6, OneListed
<1>10. /\ Listed(all) /\ Len(all) = 1 + m /\ DOMAIN all = 1 .. 1 + m
       /\ \A i \in 1 .. 1 : all[i] = one[i]
       /\ \A i \in 1 .. m : all[1 + i] = d[i]
       /\ Range(all) = Range(one) \cup Range(d)
  <2>1. Joins(one, d, all)
    BY <1>6
  <2>2. /\ Listed(all) /\ Len(all) = Len(one) + Len(d)
        /\ \A i \in DOMAIN one : all[i] = one[i]
        /\ \A i \in DOMAIN d : all[Len(one) + i] = d[i]
        /\ Range(all) = Range(one) \cup Range(d)
    <3>1. Listed(one)
      BY <1>9
    <3>2. QED
      BY <1>3, <2>1, <3>1, ConcatAt
  <2>3. Len(all) = 1 + m
    BY <1>8, <1>9, <2>2
  <2>4. DOMAIN all = 1 .. 1 + m
    BY <2>2, <2>3, ListedIs
  <2>5. QED
    BY <1>8, <1>9, <2>2, <2>3, <2>4
<1>11. all[1] = p
  BY <1>9, <1>10
<1>12. Range(all) = (D \cup {p}) \ O
  <2>1. Range(all) = {p} \cup (D \ O)
    BY <1>3, <1>9, <1>10
  <2>2. p \notin O
    BY <1>1, <1>4
  <2>3. QED
    BY <2>1, <2>2
<1>13. \A i \in DOMAIN all : \A j \in 1 .. i - 1 : all[j] > all[i]
  <2>1. TAKE i \in DOMAIN all
  <2>2. TAKE j \in 1 .. i - 1
  <2>3. PICK h : h = i - 1
    OBVIOUS
  <2>4. h \in 1 .. m /\ all[i] = d[h]
    BY <1>8, <1>10, <2>3
  <2>5. CASE j = 1
    <3>1. d[h] \in 1 .. k
      BY <1>3, <1>4, <1>8, <2>4 DEF Range
    <3>2. QED
      BY <1>1, <1>11, <2>4, <2>5, <3>1
  <2>6. CASE j # 1
    <3>1. PICK g : g = j - 1
      OBVIOUS
    <3>2. g \in 1 .. h - 1 /\ g \in 1 .. m /\ 1 + g = j
      BY <1>8, <2>3, <2>4, <2>6, <3>1
    <3>3. all[j] = d[g]
      BY <1>10, <3>2
    <3>4. QED
      BY <1>3, <1>8, <2>4, <3>2, <3>3
  <2>7. QED
    BY <2>5, <2>6
<1>14. n + (1 + m) <= p
  <2>1. n + m <= k
    BY <1>3, <1>8
  <2>2. QED
    BY <1>1, <2>1
<1>15. PICK after : after = [deferred |-> all, arrived |-> a]
  OBVIOUS
<1>16. /\ after.deferred = all /\ after.arrived = a
       /\ after = [deferred |-> after.deferred, arrived |-> after.arrived]
  BY <1>15
<1>17. Len(a) + Len(all) <= p
  BY <1>8, <1>10, <1>14
<1>18. Arrives(after, took, p)
  BY <1>3, <1>5, <1>10, <1>11, <1>12, <1>13, <1>16, <1>17 DEF Arrives
<1>19. QED
  BY <1>1, <1>7, <1>15, <1>18

\* A list of arrivals holds what got through and what followed, and what is late in it is
\* what was overtaken, by a delivery that went through or when the rest was flushed.
Comes(arrivals, through, overtaken, flushed) ==
    /\ Listed(arrivals)
    /\ Range(arrivals) = through \cup overtaken \cup flushed
    /\ CameLate(arrivals) = overtaken \cup {i \in flushed : \E j \in flushed : j > i}
    /\ arrivals # <<>> => \E x \in Range(arrivals) : Len(arrivals) <= x

LEMMA FlushedArrives ==
    ASSUME NEW n \in Nat, NEW took, NEW state, Arrives(state, took, n),
           NEW arrivals, Joins(state.arrived, state.deferred, arrivals)
    PROVE  Comes(arrivals, Through(took, n), Overtaken(took, n),
                 Deferred(took, n) \ Overtaken(took, n))
<1>1. PICK a, d : a = state.arrived /\ d = state.deferred
  OBVIOUS
<1>2. PICK T, D, O : T = Through(took, n) /\ D = Deferred(took, n) /\ O = Overtaken(took, n)
  OBVIOUS
<1>3. /\ Listed(a) /\ Listed(d) /\ Range(a) = T \cup O /\ Range(d) = D \ O /\ CameLate(a) = O
      /\ \A i \in DOMAIN d : \A j \in 1 .. i - 1 : d[j] > d[i]
      /\ d # <<>> => Len(a) + Len(d) <= d[1]
      /\ a # <<>> => \E x \in Range(a) : Len(a) <= x
  BY <1>1, <1>2 DEF Arrives
<1>4. T \in SUBSET (1 .. n) /\ D \in SUBSET (1 .. n) /\ O = {i \in D : \E j \in T : j > i}
  BY <1>2 DEF Through, Deferred, Overtaken
<1>5. /\ Listed(arrivals) /\ Len(arrivals) = Len(a) + Len(d)
      /\ Range(arrivals) = Range(a) \cup Range(d)
  <2>1. Joins(a, d, arrivals)
    BY <1>1
  <2>2. QED
    BY <1>3, <2>1, ConcatAt
<1>6. PICK p \in Nat, m \in Nat : p = Len(a) /\ DOMAIN a = 1 .. p /\ m = Len(d) /\ DOMAIN d = 1 .. m
  BY <1>3, ListedIs
<1>7. \A j \in DOMAIN d : d[j] \in D \ O /\ d[j] \in 1 .. n
  BY <1>3, <1>4 DEF Range
<1>8. \A x \in T \cup O, y \in D \ O : ~(x > y)
  <2>1. TAKE x \in T \cup O, y \in D \ O
  <2>2. x \in 1 .. n /\ y \in 1 .. n
    BY <1>4
  <2>3. \A t \in T : t \in 1 .. n /\ ~(t > y)
    BY <1>4
  <2>4. CASE x \in O
    <3>1. PICK t \in T : t > x
      BY <1>4, <2>4
    <3>2. QED
      BY <2>2, <2>3, <3>1
  <2>5. QED
    BY <2>3, <2>4
<1>9. \A i \in DOMAIN a, j \in DOMAIN d : ~(a[i] > d[j])
  <2>1. \A i \in DOMAIN a : a[i] \in T \cup O
    BY <1>3 DEF Range
  <2>2. QED
    BY <1>7, <1>8, <2>1
<1>10. ASSUME NEW j \in DOMAIN d
       PROVE  Behind(a, d, j) <=> \E y \in D \ O : y > d[j]
  <2>1. ASSUME Behind(a, d, j) PROVE \E y \in D \ O : y > d[j]
    <3>1. PICK i \in 1 .. j - 1 : d[i] > d[j]
      BY <1>9, <2>1 DEF Behind
    <3>2. i \in DOMAIN d
      BY <1>6
    <3>3. QED
      BY <1>7, <3>1, <3>2
  <2>2. ASSUME NEW y \in D \ O, y > d[j] PROVE Behind(a, d, j)
    <3>1. PICK i \in DOMAIN d : y = d[i]
      BY <1>3 DEF Range
    <3>2. i \in 1 .. m /\ j \in 1 .. m /\ d[i] \in 1 .. n /\ d[j] \in 1 .. n /\ d[i] > d[j]
      BY <1>6, <1>7, <2>2, <3>1
    <3>3. ~(j < i)
      <4>1. SUFFICES ASSUME j < i PROVE FALSE
        OBVIOUS
      <4>2. j \in 1 .. i - 1
        BY <3>2, <4>1
      <4>3. d[j] > d[i]
        BY <1>3, <3>1, <4>2
      <4>4. QED
        BY <3>2, <4>3
    <3>4. i # j
      BY <3>2
    <3>5. i \in 1 .. j - 1
      BY <3>2, <3>3, <3>4
    <3>6. QED
      BY <3>2, <3>5 DEF Behind
  <2>3. QED
    BY <2>1, <2>2
<1>11. {d[j] : j \in {j \in DOMAIN d : Behind(a, d, j)}}
          = {i \in D \ O : \E j \in D \ O : j > i}
  <2>1. \A j \in {j \in DOMAIN d : Behind(a, d, j)} :
            d[j] \in D \ O /\ \E y \in D \ O : y > d[j]
    BY <1>7, <1>10
  <2>2. \A x \in D \ O : (\E y \in D \ O : y > x) => \E j \in {j \in DOMAIN d : Behind(a, d, j)} : x = d[j]
    BY <1>3, <1>10 DEF Range
  <2>3. QED
    BY <2>1, <2>2
<1>12. CameLate(arrivals) = O \cup {i \in D \ O : \E j \in D \ O : j > i}
  <2>1. Joins(a, d, arrivals)
    BY <1>1
  <2>2. CameLate(arrivals) = CameLate(a) \cup {d[j] : j \in {j \in DOMAIN d : Behind(a, d, j)}}
    BY <1>3, <2>1, LateOfBoth
  <2>3. QED
    BY <1>3, <1>11, <2>2
<1>13. ASSUME arrivals # <<>>
       PROVE  \E x \in Range(arrivals) : Len(arrivals) <= x
  <2>1. CASE d # <<>>
    <3>1. 1 \in DOMAIN d
      <4>1. m # 0
        <5>1. SUFFICES ASSUME m = 0 PROVE FALSE
          OBVIOUS
        <5>2. d \in Seq(Range(d)) /\ Len(d) = 0
          BY <1>3, <1>6, <5>1 DEF Listed
        <5>3. QED
          BY <2>1, <5>2
      <4>2. QED
        BY <1>6, <4>1
    <3>2. d[1] \in Range(d)
      BY <3>1 DEF Range
    <3>3. QED
      BY <1>3, <1>5, <2>1, <3>2
  <2>2. CASE d = <<>>
    <3>1. Len(d) = 0 /\ Range(d) = {}
      BY <2>2 DEF Range
    <3>2. Len(arrivals) = Len(a)
      BY <1>5, <1>6, <3>1
    <3>3. a # <<>>
      <4>1. SUFFICES ASSUME a = <<>> PROVE FALSE
        OBVIOUS
      <4>2. Len(arrivals) = 0
        BY <3>2, <4>1
      <4>3. arrivals \in Seq(Range(arrivals))
        BY <1>5 DEF Listed
      <4>4. QED
        BY <1>13, <4>2, <4>3
    <3>4. QED
      BY <1>3, <1>5, <3>2, <3>3
  <2>3. QED
    BY <2>1, <2>2
<1>14. Range(arrivals) = T \cup O \cup (D \ O)
  BY <1>3, <1>5
<1>15. QED
  BY <1>2, <1>5, <1>12, <1>13, <1>14 DEF Comes

\* What a report says of such a list.
Tells(arrivals, length, through, deferred, overtook, flushed) ==
    LET there == through \cup overtook \cup flushed
    IN  /\ ToSet(arrivals) = there
        /\ {arrivals[i] : i \in Late(arrivals)}
               = overtook \cup {i \in flushed : \E j \in flushed : j > i}
        /\ there # {} => Dropped(arrivals) = (1 .. Max(there)) \ there
        /\ length > 1 /\ there = 1 .. length /\ SaysNothing(arrivals) => deferred \subseteq {length}

LEMMA ComesExactly ==
    ASSUME NEW length \in Nat, NEW through \in SUBSET (1 .. length),
           NEW deferred \in SUBSET (1 .. length),
           NEW overtook, overtook = {i \in deferred : \E j \in through : j > i},
           NEW flushed \in SUBSET (deferred \ overtook), NEW arrivals,
           Comes(arrivals, through, overtook, flushed),
           flushed = deferred \ overtook \/ length \notin through \cup deferred
    PROVE  Tells(arrivals, length, through, deferred, overtook, flushed)
<1> DEFINE there == through \cup overtook \cup flushed
<1>1. /\ Listed(arrivals) /\ Range(arrivals) = there
      /\ CameLate(arrivals) = overtook \cup {i \in flushed : \E j \in flushed : j > i}
      /\ arrivals # <<>> => \E x \in Range(arrivals) : Len(arrivals) <= x
  BY DEF Comes
<1>2. ToSet(arrivals) = there
  BY <1>1 DEF ToSet, Range
<1>3. PICK n \in Nat : n = Len(arrivals) /\ DOMAIN arrivals = 1 .. n
  BY <1>1, ListedIs
<1>4. there \in SUBSET (1 .. length)
  OBVIOUS
<1>5. ASSUME there # {}
      PROVE  Dropped(arrivals) = (1 .. Max(there)) \ there
  <2>1. PICK x \in there : n <= x
    <3>1. arrivals # <<>>
      BY <1>1, <1>5 DEF Range
    <3>2. QED
      BY <1>1, <1>3, <3>1
  <2>2. n # 0
    <3>1. DOMAIN arrivals # {}
      BY <1>1, <1>5 DEF Range
    <3>2. QED
      BY <1>3, <3>1
  <2>3. n \in 1 .. length
    <3>1. x \in 1 .. length
      BY <1>4
    <3>2. QED
      BY <2>1, <2>2, <3>1
  <2>4. PICK all, most, top :
            all = there \cup {n} /\ most = Max(all) /\ top = Max(there)
    OBVIOUS
  <2>5. all \in SUBSET (1 .. length) /\ all # {}
    BY <1>4, <2>3, <2>4
  <2>6. most \in all /\ \A y \in all : y <= most
    BY <2>4, <2>5, MaxIs
  <2>7. top \in there /\ \A y \in there : y <= top
    BY <1>4, <1>5, <2>4, MaxIs
  <2>8. most \in 1 .. length /\ top \in 1 .. length /\ top <= most
    BY <1>4, <2>4, <2>5, <2>6, <2>7
  <2>9. most <= top
    <3>1. CASE most = n
      <4>1. x \in 1 .. length /\ x <= top
        BY <1>4, <2>7
      <4>2. QED
        BY <2>1, <2>8, <3>1, <4>1
    <3>2. QED
      BY <2>4, <2>6, <2>7, <3>1
  <2>10. most = top
    BY <2>8, <2>9
  <2>11. Dropped(arrivals) = {position \in 1 .. most : position \notin there}
    BY <1>2, <1>3, <2>4 DEF Dropped
  <2>12. QED
    BY <2>4, <2>10, <2>11
<1>6. ASSUME length > 1, there = 1 .. length, SaysNothing(arrivals), NEW i \in deferred
      PROVE  i = length
  <2>1. n >= 2
    <3>1. 1 \in there /\ 2 \in there
      BY <1>6
    <3>2. PICK j, k \in 1 .. n : arrivals[j] = 1 /\ arrivals[k] = 2
      BY <1>1, <1>3, <3>1 DEF Range
    <3>3. j # k
      BY <3>2
    <3>4. QED
      BY <3>2, <3>3
  <2>2. Late(arrivals) = {}
    BY <1>3, <1>6, <2>1 DEF SaysNothing
  <2>3. CameLate(arrivals) = {}
    BY <2>2 DEF CameLate
  <2>4. overtook = {} /\ ~ \E k \in flushed : \E j \in flushed : j > k
    BY <1>1, <2>3
  <2>5. length \in there
    BY <1>6
  <2>6. flushed = deferred
    BY <2>4, <2>5
  <2>7. i \in 1 .. length /\ \A j \in deferred : j \in 1 .. length /\ ~(j > i)
    BY <2>4, <2>6
  <2>8. \A j \in through : j \in 1 .. length /\ ~(j > i)
    BY <2>4
  <2>9. \A j \in there : ~(j > i)
    BY <2>4, <2>6, <2>7, <2>8
  <2>10. QED
    BY <2>5, <2>7, <2>9
<1>7. {arrivals[i] : i \in Late(arrivals)}
          = overtook \cup {i \in flushed : \E j \in flushed : j > i}
  BY <1>1 DEF CameLate
<1>8. QED
  BY <1>2, <1>5, <1>6, <1>7 DEF Tells

LEMMA NothingArrived ==
    ASSUME NEW took, NEW start, start = [deferred |-> <<>>, arrived |-> <<>>]
    PROVE  Arrives(start, took, 0)
<1>1. Through(took, 0) = {} /\ Deferred(took, 0) = {} /\ Overtaken(took, 0) = {}
  BY DEF Through, Deferred, Overtaken
<1>2. start.deferred = <<>> /\ start.arrived = <<>>
      /\ start = [deferred |-> start.deferred, arrived |-> start.arrived]
  OBVIOUS
<1>3. Listed(<<>>) /\ Len(<<>>) = 0 /\ Range(<<>>) = {} /\ DOMAIN <<>> = {}
  BY NothingListed DEF Range
<1>4. CameLate(<<>>) = {}
  BY <1>3 DEF CameLate, Late
<1>5. Len(<<>>) + Len(<<>>) <= 0
  BY <1>3
<1>6. {} = {} \cup {} /\ {} = {} \ {}
  OBVIOUS
<1>7. QED
  BY <1>1, <1>2, <1>3, <1>4, <1>5, <1>6 DEF Arrives

Lasts == {Allow, "drop", "reorder"}

LEMMA AnyArrives ==
    ASSUME NEW k \in Nat, NEW took, took[k + 1] \in Lasts, NEW state, Arrives(state, took, k)
    PROVE  Arrives(Took(state, Record(<<1, k + 1>>, took[k + 1])), took, k + 1)
BY ThroughArrives, DroppedArrives, DeferredArrives DEF Lasts

\* The arrivals of a batch, of any length and whatever is decided of it.
LEMMA BatchArrives ==
    ASSUME NEW n \in Nat \ {0}, NEW took, \A i \in 1 .. n - 1 : took[i] \in Lasts,
           took[n] \in Lasts \cup {"close"},
           NEW records, records = [i \in 1 .. n |-> Record(<<1, i>>, took[i])]
    PROVE  Comes(ArrivedOn(records, 1), Through(took, n), Overtaken(took, n),
                 IF took[n] = "close" THEN {} ELSE Deferred(took, n) \ Overtaken(took, n))
<1>1. DOMAIN records = 1 .. n /\ \A i \in 1 .. n : records[i] = Record(<<1, i>>, took[i])
  OBVIOUS
<1>2. PICK start : start = [deferred |-> <<>>, arrived |-> <<>>]
  OBVIOUS
<1>3. Picked(records, {i \in DOMAIN records : records[i].key[1] = 1}) = records
  <2>1. \A i \in 1 .. n : records[i].key[1] = 1
    BY <1>1 DEF Record
  <2>2. {i \in DOMAIN records : records[i].key[1] = 1} = 1 .. n
    BY <1>1, <2>1
  <2>3. records = [i \in 1 .. n |-> records[i]]
    OBVIOUS
  <2>4. n \in Nat
    OBVIOUS
  <2>5. QED
    BY <2>2, <2>3, <2>4, PickedAll
<1>4. PICK f : /\ f[0] = start /\ TookAll(start, records) = f[n]
               /\ \A k \in 1 .. n : f[k] = Took(f[k - 1], records[k])
  <2>1. n \in Nat /\ DOMAIN records = 1 .. n
    BY <1>1
  <2>2. TookSteps(start, records, n)
    BY <2>1, TookFolds
  <2>3. QED
    BY <2>2 DEF TookSteps
<1>5. PICK arrivals : arrivals = ArrivedOn(records, 1)
  OBVIOUS
<1>6. Joins(f[n].arrived, f[n].deferred, arrivals)
  BY <1>2, <1>3, <1>4, <1>5 DEF ArrivedOn, Joins, TookAll
<1>7. \A k \in 0 .. n - 1 : f[k + 1] = Took(f[k], Record(<<1, k + 1>>, took[k + 1]))
  <2>1. TAKE k \in 0 .. n - 1
  <2>2. PICK j \in 1 .. n : j = k + 1 /\ j - 1 = k
    OBVIOUS
  <2>3. f[j] = Took(f[k], Record(<<1, j>>, took[j]))
    BY <1>1, <1>4, <2>2
  <2>4. QED
    BY <2>2, <2>3
<1>8. \A k \in Nat : k <= n - 1 => Arrives(f[k], took, k)
  <2>1. SUFFICES ASSUME \E k \in Nat : k <= n - 1 /\ ~Arrives(f[k], took, k) PROVE FALSE
    OBVIOUS
  <2>2. PICK bad : bad = {k \in Nat : k <= n - 1 /\ ~Arrives(f[k], took, k)}
    OBVIOUS
  <2>3. bad \in SUBSET Nat /\ bad # {}
    BY <2>1, <2>2
  <2>4. PICK m \in bad : \A k \in bad : m <= k
    BY <2>3, LeastExists
  <2>5. m \in Nat /\ m <= n - 1 /\ ~Arrives(f[m], took, m)
    BY <2>2
  <2>6. m # 0
    BY <1>2, <1>4, <2>5, NothingArrived
  <2>7. PICK k \in Nat : m = k + 1
    BY <2>5, <2>6
  <2>8. k <= n - 1 /\ k \in 0 .. n - 1 /\ k \notin bad
    BY <2>4, <2>5, <2>7
  <2>9. Arrives(f[k], took, k)
    BY <2>2, <2>8
  <2>10. took[k + 1] \in Lasts
    BY <2>5, <2>7
  <2>11. Arrives(f[k + 1], took, k + 1)
    BY <1>7, <2>8, <2>9, <2>10, AnyArrives
  <2>12. QED
    BY <2>5, <2>7, <2>11
<1>9. PICK k \in Nat : n = k + 1 /\ k = n - 1 /\ k \in 0 .. n - 1
  <2>1. n - 1 \in Nat /\ n = (n - 1) + 1 /\ n - 1 \in 0 .. n - 1
    OBVIOUS
  <2>2. QED
    BY <2>1
<1>10. Arrives(f[k], took, k) /\ f[n] = Took(f[k], Record(<<1, n>>, took[n]))
  BY <1>7, <1>8, <1>9
<1>11. CASE took[n] \in Lasts
  <2>1. took[k + 1] \in Lasts
    BY <1>9, <1>11
  <2>2. Arrives(Took(f[k], Record(<<1, k + 1>>, took[k + 1])), took, k + 1)
    BY <1>10, <2>1, AnyArrives
  <2>3. Arrives(f[n], took, n)
    BY <1>9, <1>10, <2>2
  <2>4. Comes(arrivals, Through(took, n), Overtaken(took, n),
              Deferred(took, n) \ Overtaken(took, n))
    BY <1>6, <2>3, FlushedArrives
  <2>5. took[n] # "close"
    BY <1>11 DEF Lasts, Allow
  <2>6. QED
    BY <1>5, <2>4, <2>5
<1>12. CASE took[n] = "close"
  <2>1. PICK a : a = f[k].arrived
    OBVIOUS
  <2>2. f[n] = [deferred |-> <<>>, arrived |-> a]
    <3>1. PICK record : record = Record(<<1, n>>, took[n])
      OBVIOUS
    <3>2. record.decision = "close"
      BY <1>12, <3>1 DEF Record
    <3>3. f[k] = [deferred |-> f[k].deferred, arrived |-> a]
      BY <1>10, <2>1 DEF Arrives
    <3>4. Took(f[k], record) = [f[k] EXCEPT !.deferred = <<>>]
      BY <3>2 DEF Took
    <3>5. QED
      BY <1>10, <3>1, <3>3, <3>4
  <2>3. \A i : i \in 1 .. n <=> i \in 1 .. k \/ i = n
    BY <1>9
  <2>4. Through(took, n) = Through(took, k) /\ Deferred(took, n) = Deferred(took, k)
    BY <1>12, <2>3 DEF Through, Deferred, Allow
  <2>5. Overtaken(took, n) = Overtaken(took, k)
    BY <2>4 DEF Overtaken
  <2>6. /\ Listed(a) /\ Range(a) = Through(took, n) \cup Overtaken(took, n)
        /\ CameLate(a) = Overtaken(took, n)
        /\ a # <<>> => \E x \in Range(a) : Len(a) <= x
    BY <1>10, <2>1, <2>4, <2>5 DEF Arrives
  <2>7. arrivals = a
    <3>1. arrivals = a \o <<>>
      BY <1>6, <2>2 DEF Joins
    <3>2. PICK R : R = Range(a)
      OBVIOUS
    <3>3. a \in Seq(R)
      BY <2>6, <3>2 DEF Listed
    <3>4. QED
      BY <3>1, <3>3
  <2>8. Comes(arrivals, Through(took, n), Overtaken(took, n), {})
    <3>1. {i \in {} : \E j \in {} : j > i} = {}
      OBVIOUS
    <3>2. QED
      BY <2>6, <2>7, <3>1 DEF Comes
  <2>9. QED
    BY <1>5, <1>12, <2>8
<1>13. QED
  BY <1>11, <1>12

LEMMA OrderOfAny ==
    ASSUME NEW length \in Nat \ {0}
    PROVE  OrderIsExact(length)
<1> SUFFICES ASSUME NEW last \in {Allow, "drop", "reorder", "close"},
                    NEW choice \in [1 .. length - 1 -> {Allow, "drop", "reorder"}]
             PROVE  LET took     == Append(choice, last)
                        through  == {i \in 1 .. length : took[i] = Allow}
                        deferred == {i \in 1 .. length : took[i] = "reorder"}
                        overtook == {i \in deferred : \E j \in through : j > i}
                        flushed  == IF last = "close" THEN {} ELSE deferred \ overtook
                    IN  Tells(ArrivedOn([i \in 1 .. length |-> Record(<<1, i>>, took[i])], 1),
                              length, through, deferred, overtook, flushed)
  BY DEF OrderIsExact, Tells
<1> DEFINE took     == Append(choice, last)
           through  == {i \in 1 .. length : took[i] = Allow}
           deferred == {i \in 1 .. length : took[i] = "reorder"}
           overtook == {i \in deferred : \E j \in through : j > i}
           flushed  == IF last = "close" THEN {} ELSE deferred \ overtook
           records  == [i \in 1 .. length |-> Record(<<1, i>>, took[i])]
<1>1. (\A i \in 1 .. length - 1 : took[i] \in Lasts) /\ took[length] = last
  <2>1. PICK k \in Nat : length = k + 1 /\ k = length - 1
    <3>1. length - 1 \in Nat /\ length = (length - 1) + 1
      OBVIOUS
    <3>2. QED
      BY <3>1
  <2>2. choice \in [1 .. k -> Lasts]
    BY <2>1 DEF Lasts
  <2>3. choice \in Seq(Lasts \cup {"close"}) /\ Len(choice) = k /\ last \in Lasts \cup {"close"}
    BY <2>2 DEF Lasts
  <2>4. took[k + 1] = last /\ \A i \in 1 .. k : took[i] = choice[i]
    BY <2>3
  <2>5. \A i \in 1 .. k : took[i] \in Lasts
    BY <2>2, <2>4
  <2>6. QED
    BY <2>1, <2>4, <2>5
<1> HIDE DEF took
<1>2. through = Through(took, length) /\ deferred = Deferred(took, length)
  BY DEF Through, Deferred
<1>3. overtook = Overtaken(took, length)
  BY <1>2 DEF Overtaken
<1>4. /\ through \in SUBSET (1 .. length) /\ deferred \in SUBSET (1 .. length)
      /\ flushed \in SUBSET (deferred \ overtook)
  OBVIOUS
<1>5. flushed = deferred \ overtook \/ length \notin through \cup deferred
  BY <1>1 DEF Allow
<1>6. overtook = {i \in deferred : \E j \in through : j > i}
  OBVIOUS
<1>7. flushed = IF last = "close" THEN {} ELSE deferred \ overtook
  OBVIOUS
<1>8. records = [i \in 1 .. length |-> Record(<<1, i>>, took[i])]
  OBVIOUS
<1> HIDE DEF through, deferred, overtook, flushed, records
<1>9. Comes(ArrivedOn(records, 1), through, overtook, flushed)
  <2>1. took[length] \in Lasts \cup {"close"}
    BY <1>1 DEF Lasts
  <2>2. Comes(ArrivedOn(records, 1), Through(took, length), Overtaken(took, length),
              IF took[length] = "close" THEN {}
              ELSE Deferred(took, length) \ Overtaken(took, length))
    BY <1>1, <1>8, <2>1, BatchArrives
  <2>3. QED
    BY <1>1, <1>2, <1>3, <1>7, <2>2
<1>10. Tells(ArrivedOn(records, 1), length, through, deferred, overtook, flushed)
  BY <1>4, <1>5, <1>6, <1>9, ComesExactly
<1>11. QED
  BY <1>10, Zenon DEF took, through, deferred, overtook, flushed, records

\* Reproducer::build and render_arrivals: what a report says came late or never of a batch, of
\* any length, is what the schedule deferred and something overtook, and what it dropped.
THEOREM OrdersAreExact ==
    /\ \A length \in Nat \ {0} : OrderIsExact(length)
    /\ Spec => []DeliveryOrderExact
<1>1. \A length \in Nat \ {0} : OrderIsExact(length)
  BY OrderOfAny
<1>2. DeliveryOrderExact
  BY <1>1 DEF DeliveryOrderExact
<1>3. QED
  BY <1>1, <1>2, PTL
=============================================================================
