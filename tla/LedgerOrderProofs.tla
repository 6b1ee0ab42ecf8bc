------------------------- MODULE LedgerOrderProofs -------------------------
(***************************************************************************)
(* A position computed by counting what precedes an entry, over a list in  *)
(* whatever order it was written, is the position of that entry in the     *)
(* ledger's enumeration of the same entries.                               *)
(***************************************************************************)
EXTENDS LedgerOrder, FiniteSetTheorems, TLAPS

Rank == Nat \X Nat

Entries(ranks) == {ranks[i] : i \in DOMAIN ranks}

\* The entries that precede r, as indices of the list.
Before(ranks, r) == {i \in DOMAIN ranks : Precedes(ranks[i], r)}

\* Ranks are ordered strictly,
LEMMA PrecedesIsStrict ==
    \A p, q \in Rank : Precedes(p, q) => p # q /\ ~Precedes(q, p)
  BY SMT DEF Rank, Precedes

\* and totally.
LEMMA PrecedesIsTotal ==
    /\ \A p, q \in Rank : p = q \/ Precedes(p, q) \/ Precedes(q, p)
    /\ \A p, q, r \in Rank : Precedes(p, q) /\ Precedes(q, r) => Precedes(p, r)
  BY SMT DEF Rank, Precedes

\* The entries before the k-th one are the first k - 1 of the enumeration, so
\* that there are as many of them as numbers from 1 to k - 1.
LEMMA BeforeCount ==
    ASSUME NEW ranks \in Seq(Rank), Distinct(ranks),
           NEW N \in Nat, NEW f \in Surjection(1..N, Entries(ranks)), ChainAscending(f),
           NEW k \in 1..N
    PROVE  Cardinality(Before(ranks, f[k])) = k - 1
  <1> DEFINE T == Before(ranks, f[k])
             g == [j \in 1..(k - 1) |-> CHOOSE i \in DOMAIN ranks : ranks[i] = f[j]]
  <1>1. f \in [1..N -> Entries(ranks)] /\ \A e \in Entries(ranks) : \E j \in 1..N : f[j] = e
    BY DEF Surjection
  <1>2. Entries(ranks) \subseteq Rank
    BY DEF Entries
  <1>3. \A j \in 1..N : \E i \in DOMAIN ranks : ranks[i] = f[j]
    BY <1>1 DEF Entries
  <1>4. \A j \in 1..(k - 1) : j \in 1..N /\ j < k
    OBVIOUS
  <1>5. \A j \in 1..(k - 1) : g[j] \in DOMAIN ranks /\ ranks[g[j]] = f[j]
    BY <1>3, <1>4
  <1>6. \A j \in 1..(k - 1) : Precedes(f[j], f[k])
    BY <1>1, <1>4 DEF ChainAscending
  <1>7. g \in [1..(k - 1) -> T]
    BY <1>5, <1>6 DEF Before
  <1>8. ASSUME NEW a \in 1..(k - 1), NEW b \in 1..(k - 1), g[a] = g[b]
        PROVE  a = b
    <2>1. f[a] = f[b]
      BY <1>5, <1>8
    <2>2. f[a] \in Rank /\ a \in DOMAIN f /\ b \in DOMAIN f
      BY <1>1, <1>2, <1>4
    <2>3. ~(a < b) /\ ~(b < a)
      BY <2>1, <2>2, PrecedesIsStrict DEF ChainAscending
    <2> QED
      BY <2>3
  <1>9. ASSUME NEW i \in T
        PROVE  \E j \in 1..(k - 1) : g[j] = i
    <2>1. i \in DOMAIN ranks /\ ranks[i] \in Entries(ranks) /\ Precedes(ranks[i], f[k])
      BY DEF Before, Entries
    <2>2. PICK j \in 1..N : f[j] = ranks[i]
      BY <1>1, <2>1
    <2>3. f[j] \in Rank /\ f[k] \in Rank /\ j \in DOMAIN f /\ k \in DOMAIN f
      BY <1>1, <1>2
    <2>4. j # k /\ ~(k < j)
      BY <2>1, <2>2, <2>3, PrecedesIsStrict DEF ChainAscending
    <2>5. j \in 1..(k - 1)
      BY <2>4
    <2>6. g[j] = i
      BY <1>5, <2>1, <2>2, <2>5 DEF Distinct
    <2> QED
      BY <2>5, <2>6
  <1>10. g \in Bijection(1..(k - 1), T)
    <2>1. g \in Injection(1..(k - 1), T)
      BY <1>7, <1>8 DEF Injection, IsInjective
    <2>2. g \in Surjection(1..(k - 1), T)
      BY <1>7, <1>9 DEF Surjection
    <2> QED
      BY <2>1, <2>2 DEF Bijection
  <1>11. ExistsBijection(1..(k - 1), T)
    BY <1>10 DEF ExistsBijection
  <1>12. IsFiniteSet(1..(k - 1)) /\ Cardinality(1..(k - 1)) = k - 1
    BY FS_Interval
  <1> QED
    BY <1>11, <1>12, FS_Bijection

\* ledger-order.ts:99 and :146: a position that the code computes for an entry
\* is, in every enumeration of the list's entries that ascends, that entry's.
THEOREM PositionResolves ==
    ASSUME NEW ranks \in Seq(Rank), Distinct(ranks), NEW r,
           NEW N \in Nat, NEW f \in Surjection(1..N, Entries(ranks)), ChainAscending(f),
           NEW n \in IndexOf(ranks, r)
    PROVE  n + 1 \in 1..N /\ f[n + 1] = r
  <1>1. r \in Entries(ranks) /\ n = Cardinality(Before(ranks, r))
    BY DEF IndexOf, Entries, Before
  <1>2. PICK k \in 1..N : f[k] = r
    BY <1>1 DEF Surjection
  <1>3. n = k - 1
    BY <1>1, <1>2, BeforeCount
  <1> QED
    BY <1>2, <1>3

-----------------------------------------------------------------------------
(* The two lists of a transaction.                                         *)

LEMMA IsSequence ==
    ASSUME NEW S, NEW n \in Nat, NEW g \in [1..n -> S]
    PROVE  g \in Seq(S) /\ DOMAIN g = 1..n
  OBVIOUS

LEMMA InputRanksType ==
    ASSUME NEW all \in Seq(Nat \X Nat)
    PROVE  InputRanks(all) \in Seq(Rank) /\ DOMAIN InputRanks(all) = DOMAIN all
  <1>1. \A i \in DOMAIN all : all[i] \in Nat \X Nat
    OBVIOUS
  <1>2. \A i \in DOMAIN all : InputRank(all[i]) \in Rank
    BY <1>1 DEF InputRank, Bytes, Rank
  <1>3. DOMAIN all = 1..Len(all) /\ Len(all) \in Nat
    OBVIOUS
  <1>4. InputRanks(all) \in [1..Len(all) -> Rank]
    BY <1>2, <1>3 DEF InputRanks
  <1> QED
    BY <1>3, <1>4, IsSequence

LEMMA KeyRanksType ==
    ASSUME NEW all \in Seq({0, 1} \X Nat)
    PROVE  KeyRanks(all) \in Seq(Rank) /\ DOMAIN KeyRanks(all) = DOMAIN all
  <1>1. \A i \in DOMAIN all : all[i] \in {0, 1} \X Nat
    OBVIOUS
  <1>2. \A i \in DOMAIN all : KeyRank(all[i]) \in Rank
    BY <1>1 DEF KeyRank, Bytes, Rank
  <1>3. DOMAIN all = 1..Len(all) /\ Len(all) \in Nat
    OBVIOUS
  <1>4. KeyRanks(all) \in [1..Len(all) -> Rank]
    BY <1>2, <1>3 DEF KeyRanks
  <1> QED
    BY <1>3, <1>4, IsSequence

\* However a builder lists its reference inputs and however their ids are
\* spelled, the index it writes for one of them is the one at which a script
\* finds it.
THEOREM ReferenceInputResolves ==
    ASSUME NEW all \in Seq(Nat \X Nat), Distinct(InputRanks(all)), NEW target,
           NEW N \in Nat, NEW f \in Surjection(1..N, Entries(InputRanks(all))),
           ChainAscending(f),
           NEW n \in referenceInputIndexOf(all, target)
    PROVE  n + 1 \in 1..N /\ f[n + 1] = InputRank(target)
  BY InputRanksType, PositionResolves DEF referenceInputIndexOf

\* The same of withdrawals, of scripts and of keys.
THEOREM WithdrawalResolves ==
    ASSUME NEW all \in Seq({0, 1} \X Nat), Distinct(KeyRanks(all)), NEW target,
           NEW N \in Nat, NEW f \in Surjection(1..N, Entries(KeyRanks(all))),
           ChainAscending(f),
           NEW n \in withdrawalIndexOf(all, target)
    PROVE  n + 1 \in 1..N /\ f[n + 1] = KeyRank(target)
  BY KeyRanksType, PositionResolves DEF withdrawalIndexOf

\* A transfer's dispatcher sits where its redeemer says, whatever the hashes
\* of the other withdrawals.
THEOREM PlgIdxResolves ==
    ASSUME NEW plg \in {0, 1} \X Nat, NEW others \in Seq({0, 1} \X Nat),
           NEW plan \in plbWithdrawalPlan(plg, others),
           NEW N \in Nat, NEW f \in Surjection(1..N, Entries(KeyRanks(plan.all))),
           ChainAscending(f)
    PROVE  plan.plgIdx + 1 \in 1..N /\ f[plan.plgIdx + 1] = KeyRank(plg)
  <1> DEFINE all == <<plg>> \o others
  <1>1. all \in Seq({0, 1} \X Nat)
    OBVIOUS
  <1>2. plan.all = all /\ Distinct(KeyRanks(all)) /\ plan.plgIdx \in withdrawalIndexOf(all, plg)
    BY DEF plbWithdrawalPlan
  <1>3. f \in Surjection(1..N, Entries(KeyRanks(all)))
    BY <1>2
  <1> HIDE DEF all
  <1> QED
    BY <1>1, <1>2, <1>3, WithdrawalResolves

-----------------------------------------------------------------------------
(* The order itself.                                                       *)

Earlier(inputs, i) == {j \in inputs : Precedes(InputRank(j), InputRank(i))}

\* No two of the inputs are one input spelled twice.
Apart(inputs) == \A i, j \in inputs : InputRank(i) = InputRank(j) => i = j

\* What comes before an input is fewer than what comes before a later one.
LEMMA EarlierGrows ==
    ASSUME NEW inputs \in SUBSET (Nat \X Nat), IsFiniteSet(inputs),
           NEW i \in inputs, NEW j \in inputs, Precedes(InputRank(i), InputRank(j))
    PROVE  Cardinality(Earlier(inputs, i)) < Cardinality(Earlier(inputs, j))
  <1>1. \A k \in inputs : InputRank(k) \in Rank
    BY DEF InputRank, Bytes, Rank
  <1>2. Earlier(inputs, i) \cup {i} \in SUBSET Earlier(inputs, j)
    BY <1>1, PrecedesIsTotal DEF Earlier
  <1>3. i \notin Earlier(inputs, i)
    BY <1>1, PrecedesIsStrict DEF Earlier
  <1>4. IsFiniteSet(Earlier(inputs, i)) /\ IsFiniteSet(Earlier(inputs, j))
    <2>1. Earlier(inputs, i) \in SUBSET inputs /\ Earlier(inputs, j) \in SUBSET inputs
      BY DEF Earlier
    <2> QED
      BY <2>1, FS_Subset
  <1>5. Cardinality(Earlier(inputs, i) \cup {i}) = Cardinality(Earlier(inputs, i)) + 1
    BY <1>3, <1>4, FS_AddElement
  <1>6. Cardinality(Earlier(inputs, i) \cup {i}) <= Cardinality(Earlier(inputs, j))
    BY <1>2, <1>4, FS_Subset
  <1>7. Cardinality(Earlier(inputs, i)) \in Nat /\ Cardinality(Earlier(inputs, j)) \in Nat
    BY <1>4, FS_CardinalityType
  <1> QED
    BY <1>5, <1>6, <1>7

\* registry.ts, sortTxInputs: each input has the place that the number of
\* those before it gives, and each place has one input.
LEMMA SortPlaces ==
    ASSUME NEW inputs \in SUBSET (Nat \X Nat), IsFiniteSet(inputs), Apart(inputs)
    PROVE  LET sorted == sortTxInputs(inputs)
               N == Cardinality(inputs)
           IN  /\ N \in Nat
               /\ sorted \in Surjection(1..N, inputs)
               /\ \A n \in 1..N : Cardinality(Earlier(inputs, sorted[n])) = n - 1
               /\ \A m, n \in 1..N :
                     m < n => Precedes(InputRank(sorted[m]), InputRank(sorted[n]))
  <1> DEFINE N == Cardinality(inputs)
             place == [i \in inputs |-> Cardinality(Earlier(inputs, i)) + 1]
             sorted == sortTxInputs(inputs)
  <1>1. N \in Nat
    BY FS_CardinalityType
  <1>2. \A i \in inputs : InputRank(i) \in Rank
    BY DEF InputRank, Bytes, Rank
  <1>3. ASSUME NEW i \in inputs
        PROVE  Cardinality(Earlier(inputs, i)) \in 0..(N - 1)
    <2>1. Earlier(inputs, i) \in SUBSET (inputs \ {i})
      BY <1>2, PrecedesIsStrict DEF Earlier
    <2>2. IsFiniteSet(inputs \ {i}) /\ Cardinality(inputs \ {i}) = N - 1
      BY FS_RemoveElement
    <2>3. /\ Cardinality(Earlier(inputs, i)) \in Nat
          /\ Cardinality(Earlier(inputs, i)) <= N - 1
      BY <2>1, <2>2, FS_Subset, FS_CardinalityType
    <2> QED
      BY <1>1, <2>3
  <1>4. ASSUME NEW i \in inputs, NEW j \in inputs,
               Cardinality(Earlier(inputs, i)) = Cardinality(Earlier(inputs, j))
        PROVE  i = j
    <2>1. ~Precedes(InputRank(i), InputRank(j)) /\ ~Precedes(InputRank(j), InputRank(i))
      BY <1>1, <1>3, <1>4, EarlierGrows
    <2> QED
      BY <1>2, <2>1, PrecedesIsTotal DEF Apart
  <1>5. place \in Surjection(inputs, 1..N)
    <2>1. place \in [inputs -> 1..N]
      BY <1>1, <1>3
    <2>2. \A i, j \in inputs : place[i] = place[j] => i = j
      BY <1>1, <1>3, <1>4
    <2>3. place \in Injection(inputs, 1..N)
      BY <2>1, <2>2 DEF Injection, IsInjective
    <2>4. IsFiniteSet(1..N) /\ Cardinality(1..N) = N
      BY <1>1, FS_Interval
    <2> QED
      BY <2>3, <2>4, FS_Injection
  <1>6. sorted = [n \in 1..N |-> CHOOSE i \in inputs : Cardinality(Earlier(inputs, i)) = n - 1]
    BY DEF sortTxInputs, Earlier
  <1>7. ASSUME NEW n \in 1..N
        PROVE  sorted[n] \in inputs /\ Cardinality(Earlier(inputs, sorted[n])) = n - 1
    <2>1. PICK i \in inputs : place[i] = n
      BY <1>5 DEF Surjection
    <2>2. Cardinality(Earlier(inputs, i)) = n - 1
      BY <1>3, <2>1
    <2> QED
      BY <1>6, <2>2
  <1>8. sorted \in Surjection(1..N, inputs)
    <2>1. sorted \in [1..N -> inputs]
      BY <1>6, <1>7
    <2>2. ASSUME NEW i \in inputs
          PROVE  \E n \in 1..N : sorted[n] = i
      <3>1. place[i] \in 1..N /\ Cardinality(Earlier(inputs, i)) = place[i] - 1
        BY <1>1, <1>3
      <3>2. sorted[place[i]] = i
        BY <1>4, <1>7, <3>1
      <3> QED
        BY <3>1, <3>2
    <2> QED
      BY <2>1, <2>2 DEF Surjection
  <1>9. ASSUME NEW m \in 1..N, NEW n \in 1..N, m < n
        PROVE  Precedes(InputRank(sorted[m]), InputRank(sorted[n]))
    <2>1. InputRank(sorted[m]) # InputRank(sorted[n])
      BY <1>7, <1>9 DEF Apart
    <2>2. ~Precedes(InputRank(sorted[n]), InputRank(sorted[m]))
      BY <1>7, <1>9, EarlierGrows
    <2> QED
      BY <1>2, <1>7, <2>1, <2>2, PrecedesIsTotal
  <1> QED
    BY <1>1, <1>7, <1>8, <1>9

\* Any finite set of ranks has an order, in which each sits once.
LEMMA ChainOrders ==
    ASSUME NEW ranks \in SUBSET Rank, IsFiniteSet(ranks)
    PROVE  /\ Cardinality(ranks) \in Nat
           /\ ChainOrder(ranks) \in Surjection(1..Cardinality(ranks), ranks)
           /\ ChainAscending(ChainOrder(ranks))
  <1> DEFINE N == Cardinality(ranks)
             spelled == [r \in ranks |-> <<2 * r[1], r[2]>>]
             inputs == {spelled[r] : r \in ranks}
             f == [n \in 1..N |-> InputRank(sortTxInputs(inputs)[n])]
  <1>1. \A r \in ranks : spelled[r] \in Nat \X Nat /\ InputRank(spelled[r]) = r
    BY DEF Rank, InputRank, Bytes
  <1>2. IsFiniteSet(inputs) /\ Cardinality(inputs) = N
    <2>1. spelled \in Bijection(ranks, inputs)
      <3>1. spelled \in [ranks -> inputs]
        OBVIOUS
      <3>2. \A r, q \in ranks : spelled[r] = spelled[q] => r = q
        BY <1>1
      <3> QED
        BY <3>1, <3>2 DEF Bijection, Injection, IsInjective, Surjection
    <2>2. ExistsBijection(ranks, inputs)
      BY <2>1 DEF ExistsBijection
    <2> QED
      BY <2>2, FS_Bijection
  <1>3. inputs \in SUBSET (Nat \X Nat) /\ Apart(inputs)
    BY <1>1 DEF Apart
  <1>4. \A i \in inputs : InputRank(i) \in ranks
    BY <1>1
  <1> HIDE DEF inputs
  <1>5. /\ N \in Nat
        /\ sortTxInputs(inputs) \in [1..N -> inputs]
        /\ \A m, n \in 1..N : m < n => Precedes(InputRank(sortTxInputs(inputs)[m]),
                                                  InputRank(sortTxInputs(inputs)[n]))
    BY <1>2, <1>3, SortPlaces DEF Surjection
  <1>6. f \in [1..N -> ranks] /\ ChainAscending(f)
    BY <1>4, <1>5 DEF ChainAscending
  <1> DEFINE order == ChainOrder(ranks)
  <1>7. order \in [1..N -> ranks] /\ ChainAscending(order)
    <2> HIDE DEF f
    <2> QED
      BY <1>6 DEF ChainOrder
  <1> HIDE DEF order, f
  <1>8. order \in Injection(1..N, ranks)
    <2>1. ASSUME NEW m \in 1..N, NEW n \in 1..N, order[m] = order[n]
          PROVE  m = n
      <3>1. order[m] \in Rank /\ order[n] \in Rank /\ m \in DOMAIN order /\ n \in DOMAIN order
        BY <1>7
      <3>2. ~(m < n) /\ ~(n < m)
        BY <1>7, <2>1, <3>1, PrecedesIsStrict DEF ChainAscending
      <3> QED
        BY <1>5, <3>2
    <2> QED
      BY <1>7, <2>1 DEF Injection, IsInjective
  <1>9. Cardinality(1..N) = N
    BY <1>5, FS_Interval
  <1>10. order \in Surjection(1..N, ranks)
    BY <1>8, <1>9, FS_Injection
  <1> QED
    BY <1>5, <1>7, <1>10 DEF order

\* ledger-order.ts:99 and :146: an index that the code computes is the
\* position at which a script finds the entry among those of the list.
THEOREM PositionFound ==
    ASSUME NEW ranks \in Seq(Rank), Distinct(ranks), NEW r, NEW n \in IndexOf(ranks, r)
    PROVE  ChainFinds(Entries(ranks), n, r)
  <1>1. DOMAIN ranks = 1..Len(ranks) /\ Len(ranks) \in Nat
    OBVIOUS
  <1>2. Entries(ranks) \in SUBSET Rank
    BY DEF Entries
  <1>3. IsFiniteSet(Entries(ranks))
    <2>1. ranks \in Surjection(1..Len(ranks), Entries(ranks))
      BY <1>1 DEF Surjection, Entries
    <2>2. IsFiniteSet(1..Len(ranks))
      BY <1>1, FS_Interval
    <2> QED
      BY <2>1, <2>2, FS_Surjection
  <1> DEFINE N == Cardinality(Entries(ranks))
             f == ChainOrder(Entries(ranks))
  <1>4. N \in Nat /\ f \in Surjection(1..N, Entries(ranks)) /\ ChainAscending(f)
    BY <1>2, <1>3, ChainOrders
  <1> HIDE DEF N, f
  <1>5. n + 1 \in 1..N /\ f[n + 1] = r
    BY <1>4, PositionResolves
  <1> QED
    BY <1>5 DEF ChainFinds, N, f

\* registry.ts, sortTxInputs: the n-th of the inputs it sorts is the n-th that
\* a script sees.
THEOREM SortedFound ==
    ASSUME NEW inputs \in SUBSET (Nat \X Nat), IsFiniteSet(inputs), Apart(inputs)
    PROVE  LET ranks == {InputRank(i) : i \in inputs}
           IN  /\ Cardinality(ranks) = Cardinality(inputs)
               /\ \A n \in 1..Cardinality(inputs) :
                     ChainFinds(ranks, n - 1, InputRank(sortTxInputs(inputs)[n]))
  <1> DEFINE ranks == {InputRank(i) : i \in inputs}
             N == Cardinality(inputs)
             sorted == sortTxInputs(inputs)
             list == InputRanks(sorted)
  <1>1. /\ N \in Nat /\ sorted \in Surjection(1..N, inputs)
        /\ \A m, n \in 1..N : m < n => Precedes(InputRank(sorted[m]), InputRank(sorted[n]))
    BY SortPlaces
  <1>2. sorted \in [1..N -> inputs] /\ \A i \in inputs : \E n \in 1..N : sorted[n] = i
    BY <1>1 DEF Surjection
  <1>3. Cardinality(ranks) = N
    <2> DEFINE rank == [i \in inputs |-> InputRank(i)]
    <2>1. rank \in Bijection(inputs, ranks)
      BY DEF Bijection, Injection, IsInjective, Surjection, Apart
    <2>2. ExistsBijection(inputs, ranks)
      BY <2>1 DEF ExistsBijection
    <2> QED
      BY <2>2, FS_Bijection
  <1>4. \A i \in inputs : InputRank(i) \in Rank
    BY DEF InputRank, Bytes, Rank
  <1> HIDE DEF sorted
  <1>5. list = [n \in 1..N |-> InputRank(sorted[n])]
    BY <1>2 DEF InputRanks
  <1>6. list \in Seq(Rank) /\ DOMAIN list = 1..N
    <2>1. list \in [1..N -> Rank]
      BY <1>2, <1>4, <1>5
    <2> QED
      BY <1>1, <2>1, IsSequence
  <1>7. Entries(list) = ranks
    BY <1>2, <1>5 DEF Entries
  <1>8. \A m, n \in 1..N : m < n => Precedes(list[m], list[n])
    BY <1>1, <1>5
  <1>9. \A n \in 1..N : list[n] \in Rank
    BY <1>2, <1>4, <1>5
  <1> HIDE DEF list, N
  <1>10. Distinct(list)
    <2> SUFFICES ASSUME NEW m \in 1..N, NEW n \in 1..N, list[m] = list[n] PROVE m = n
      BY <1>6 DEF Distinct
    <2>1. ~(m < n) /\ ~(n < m)
      BY <1>8, <1>9, PrecedesIsStrict
    <2> QED
      BY <1>1, <2>1
  <1>11. ASSUME NEW n \in 1..N
         PROVE  n - 1 \in IndexOf(list, list[n])
    <2>1. {i \in 1..N : Precedes(list[i], list[n])} = 1..(n - 1)
      <3>1. ASSUME NEW i \in 1..N PROVE Precedes(list[i], list[n]) <=> i < n
        <4>1. i < n => Precedes(list[i], list[n])
          BY <1>8
        <4>2. n < i => ~Precedes(list[i], list[n])
          BY <1>8, <1>9, PrecedesIsStrict
        <4>3. i = n => ~Precedes(list[i], list[n])
          BY <1>9, PrecedesIsStrict
        <4> QED
          BY <1>1, <4>1, <4>2, <4>3
      <3> QED
        BY <1>1, <3>1
    <2>2. Cardinality(1..(n - 1)) = n - 1
      BY FS_Interval
    <2>3. IndexOf(list, list[n]) = {n - 1}
      BY <1>6, <2>1, <2>2 DEF IndexOf
    <2> QED
      BY <2>3
  <1>12. ASSUME NEW n \in 1..N PROVE ChainFinds(ranks, n - 1, InputRank(sorted[n]))
    <2>1. ChainFinds(Entries(list), n - 1, list[n])
      BY <1>6, <1>10, <1>11, PositionFound
    <2>2. list[n] = InputRank(sorted[n])
      BY <1>5
    <2> QED
      BY <1>7, <2>1, <2>2
  <1> QED
    BY <1>3, <1>12 DEF N, sorted
=============================================================================
