--------------------------- MODULE QuantityProofs ---------------------------
(***************************************************************************)
(* The value of a finite set of outputs does not depend on the order in    *)
(* which they are added up, is what each output brings to it, and adds up  *)
(* over disjoint sets.                                                     *)
(*                                                                         *)
(* A sum is a function over the subsets of a set, defined by recursion.    *)
(* Induction is by a smallest counterexample: a subset that violates the   *)
(* claim while all of its proper subsets satisfy it.                       *)
(***************************************************************************)
EXTENDS Quantities, FiniteSetTheorems, TLAPS

Some(s) == CHOOSE x \in s : TRUE

\* sum adds up f over every subset of S, one chosen element at a time.
SumsUp(sum, f, S) ==
    sum = [s \in SUBSET S |-> IF s = {} THEN 0 ELSE f[Some(s)] + sum[s \ {Some(s)}]]

\* The member that the recursion takes away next.
LEMMA SomeIsMember == ASSUME NEW s, s # {} PROVE Some(s) \in s
  BY DEF Some

\* A non-empty collection of finite sets has a smallest member.
LEMMA Smallest ==
    ASSUME NEW S, IsFiniteSet(S), NEW C \in SUBSET (SUBSET S), C # {}
    PROVE  \E s \in C : \A t \in C : ~(t \subseteq s /\ t # s)
  <1>1. C \subseteq FiniteSubsetsOf(S)
    BY FS_Subset DEF FiniteSubsetsOf
  <1>2. IsWellFoundedOn(StrictSubsetOrdering(S), FiniteSubsetsOf(S))
    BY FS_StrictSubsetOrderingWellFounded
  <1>3. PICK s \in C : \A t \in C : <<t, s>> \notin StrictSubsetOrdering(S)
    BY <1>1, <1>2, WFMin
  <1> QED
    BY <1>3 DEF StrictSubsetOrdering

\* A set of natural numbers has a least element.
LEMMA LeastNatural ==
    ASSUME NEW C \in SUBSET Nat, C # {}
    PROVE  \E k \in C : \A j \in C : k <= j
  <1>1. PICK m \in C : TRUE
    OBVIOUS
  <1> DEFINE D == {0..k : k \in {k \in C : k <= m}}
  <1>2. D \in SUBSET (SUBSET (0..m))
    <2>1. \A k \in C : k <= m => 0..k \in SUBSET (0..m)
      OBVIOUS
    <2> QED
      BY <2>1
  <1>3. 0..m \in D
    OBVIOUS
  <1>4. IsFiniteSet(0..m)
    <2>1. 0 \in Int /\ m \in Int
      OBVIOUS
    <2> QED
      BY <2>1, FS_Interval
  <1>5. PICK u \in D : \A v \in D : ~(v \subseteq u /\ v # u)
    <2> DEFINE S == 0..m
    <2>1. D \in SUBSET (SUBSET S) /\ D # {} /\ IsFiniteSet(S)
      BY <1>2, <1>3, <1>4
    <2> HIDE DEF D, S
    <2> QED
      BY <2>1, Smallest
  <1>6. PICK k \in C : k <= m /\ u = 0..k
    OBVIOUS
  <1>7. ASSUME NEW j \in C PROVE k <= j
    <2> SUFFICES ASSUME j < k PROVE FALSE
      OBVIOUS
    <2>1. 0..j \in D
      BY <1>6
    <2>2. 0..j \subseteq 0..k /\ k \in 0..k /\ k \notin 0..j
      OBVIOUS
    <2> HIDE DEF D
    <2> QED
      BY <1>5, <1>6, <2>1, <2>2
  <1> QED
    BY <1>7

\* Two sums of one function agree wherever both are defined.
LEMMA SumsAgree ==
    ASSUME NEW f, NEW S, NEW T, IsFiniteSet(S), NEW g, NEW h,
           SumsUp(g, f, S), SumsUp(h, f, T), NEW r \in SUBSET (S \cap T)
    PROVE  g[r] = h[r]
  <1> SUFFICES ASSUME g[r] # h[r] PROVE FALSE
    OBVIOUS
  <1> DEFINE C == {s \in SUBSET (S \cap T) : g[s] # h[s]}
  <1>1. PICK s \in C : \A t \in C : ~(t \subseteq s /\ t # s)
    <2>1. r \in C /\ C \in SUBSET (SUBSET S)
      OBVIOUS
    <2> HIDE DEF C
    <2> QED
      BY <2>1, Smallest
  <1>2. s # {}
    BY <1>1 DEF SumsUp
  <1> DEFINE u == s \ {Some(s)}
  <1>3. u \subseteq s /\ u # s
    BY <1>2, SomeIsMember
  <1>4. g[u] = h[u]
    BY <1>1, <1>3
  <1>5. g[s] = f[Some(s)] + g[u] /\ h[s] = f[Some(s)] + h[u]
    BY <1>1, <1>2 DEF SumsUp
  <1> QED
    BY <1>1, <1>4, <1>5

\* The recursion has a solution.
LEMMA SumExists ==
    ASSUME NEW f, NEW S, IsFiniteSet(S)
    PROVE  \E sum : SumsUp(sum, f, S)
  <1> SUFFICES ASSUME ~\E sum : SumsUp(sum, f, S) PROVE FALSE
    OBVIOUS
  <1> DEFINE C == {s \in SUBSET S : ~\E sum : SumsUp(sum, f, s)}
             of(s) == CHOOSE sum : SumsUp(sum, f, s)
             value(s) == of(s)[s]
  <1>1. PICK s \in C : \A t \in C : ~(t \subseteq s /\ t # s)
    <2>1. S \in C /\ C \in SUBSET (SUBSET S)
      OBVIOUS
    <2> HIDE DEF C
    <2> QED
      BY <2>1, Smallest
  <1>2. \A t \in SUBSET s : t # s => SumsUp(of(t), f, t)
    <2> SUFFICES ASSUME NEW t \in SUBSET s, t # s PROVE SumsUp(of(t), f, t)
      OBVIOUS
    <2>1. \E sum : SumsUp(sum, f, t)
      BY <1>1
    <2> QED
      BY <2>1
  <1> HIDE DEF of
  <1> DEFINE g == [t \in SUBSET s |->
                      IF t = {} THEN 0 ELSE f[Some(t)] + value(t \ {Some(t)})]
  <1>3. ASSUME NEW t \in SUBSET s, t # s PROVE g[t] = value(t)
    <2>1. CASE t = {}
      <3>1. SumsUp(of(t), f, t)
        BY <1>2, <1>3
      <3>2. of(t)[t] = 0
        BY <2>1, <3>1 DEF SumsUp
      <3> QED
        BY <2>1, <3>2
    <2>2. CASE t # {}
      <3> DEFINE u == t \ {Some(t)}
      <3>1. u \subseteq t /\ u # t /\ u \in SUBSET s /\ u # s
        BY <2>2, SomeIsMember
      <3>2. SumsUp(of(t), f, t) /\ SumsUp(of(u), f, u)
        BY <1>2, <1>3, <3>1
      <3>3. IsFiniteSet(t)
        BY FS_Subset
      <3>4. of(t)[u] = of(u)[u]
        <4>1. u \in SUBSET (t \cap u)
          BY <3>1
        <4> HIDE DEF u
        <4> QED
          BY <3>2, <3>3, <4>1, SumsAgree
      <3>5. of(t)[t] = f[Some(t)] + of(t)[u]
        BY <2>2, <3>2 DEF SumsUp
      <3> QED
        BY <2>2, <3>4, <3>5
    <2> QED
      BY <2>1, <2>2
  <1>4. SumsUp(g, f, s)
    <2>1. ASSUME NEW t \in SUBSET s, t # {}
          PROVE  g[t] = f[Some(t)] + g[t \ {Some(t)}]
      <3>1. t \ {Some(t)} \in SUBSET s /\ t \ {Some(t)} # s
        BY <2>1, SomeIsMember
      <3>2. g[t \ {Some(t)}] = value(t \ {Some(t)})
        BY <1>3, <3>1
      <3> HIDE DEF value
      <3> QED
        BY <2>1, <3>2
    <2>2. g[{}] = 0
      OBVIOUS
    <2>3. g = [t \in SUBSET s |-> g[t]]
      OBVIOUS
    <2> HIDE DEF g
    <2> QED
      BY <2>1, <2>2, <2>3 DEF SumsUp
  <1> QED
    BY <1>1, <1>4

-----------------------------------------------------------------------------
(* Laws of a sum.                                                          *)

\* A sum of integers is an integer,
LEMMA SumIsInteger ==
    ASSUME NEW S, IsFiniteSet(S), NEW f, \A x \in S : f[x] \in Int,
           NEW sum, SumsUp(sum, f, S), NEW r \in SUBSET S
    PROVE  sum[r] \in Int
  <1> SUFFICES ASSUME sum[r] \notin Int PROVE FALSE
    OBVIOUS
  <1> DEFINE C == {s \in SUBSET S : sum[s] \notin Int}
  <1>1. PICK s \in C : \A t \in C : ~(t \subseteq s /\ t # s)
    <2>1. r \in C /\ C \in SUBSET (SUBSET S)
      OBVIOUS
    <2> HIDE DEF C
    <2> QED
      BY <2>1, Smallest
  <1>2. s # {}
    BY <1>1 DEF SumsUp
  <1> DEFINE u == s \ {Some(s)}
  <1>3. u \subseteq s /\ u # s /\ Some(s) \in S
    BY <1>2, SomeIsMember
  <1>4. sum[u] \in Int
    BY <1>1, <1>3
  <1>5. sum[s] = f[Some(s)] + sum[u]
    BY <1>1, <1>2 DEF SumsUp
  <1> QED
    BY <1>1, <1>3, <1>4, <1>5

\* and one of naturals is a natural.
LEMMA SumIsNatural ==
    ASSUME NEW S, IsFiniteSet(S), NEW f, \A x \in S : f[x] \in Nat,
           NEW sum, SumsUp(sum, f, S), NEW r \in SUBSET S
    PROVE  sum[r] \in Nat
  <1> SUFFICES ASSUME sum[r] \notin Nat PROVE FALSE
    OBVIOUS
  <1> DEFINE C == {s \in SUBSET S : sum[s] \notin Nat}
  <1>1. PICK s \in C : \A t \in C : ~(t \subseteq s /\ t # s)
    <2>1. r \in C /\ C \in SUBSET (SUBSET S)
      OBVIOUS
    <2> HIDE DEF C
    <2> QED
      BY <2>1, Smallest
  <1>2. s # {}
    BY <1>1 DEF SumsUp
  <1> DEFINE u == s \ {Some(s)}
  <1>3. u \subseteq s /\ u # s /\ Some(s) \in S
    BY <1>2, SomeIsMember
  <1>4. sum[u] \in Nat
    BY <1>1, <1>3
  <1>5. sum[s] = f[Some(s)] + sum[u]
    BY <1>1, <1>2 DEF SumsUp
  <1> QED
    BY <1>1, <1>3, <1>4, <1>5

\* Any element may be the one that is added last.
LEMMA SumRemoves ==
    ASSUME NEW S, IsFiniteSet(S), NEW f, \A x \in S : f[x] \in Int,
           NEW sum, SumsUp(sum, f, S), NEW r \in SUBSET S, NEW x \in r
    PROVE  sum[r] = f[x] + sum[r \ {x}]
  <1> SUFFICES ASSUME sum[r] # f[x] + sum[r \ {x}] PROVE FALSE
    OBVIOUS
  <1> DEFINE C == {s \in SUBSET S : \E y \in s : sum[s] # f[y] + sum[s \ {y}]}
  <1>1. PICK s \in C : \A t \in C : ~(t \subseteq s /\ t # s)
    <2>1. r \in C /\ C \in SUBSET (SUBSET S)
      OBVIOUS
    <2> HIDE DEF C
    <2> QED
      BY <2>1, Smallest
  <1>2. PICK y \in s : sum[s] # f[y] + sum[s \ {y}]
    BY <1>1
  <1> DEFINE c == Some(s)
             u == s \ {c}
             v == s \ {y}
  <1>3. c \in s /\ s \subseteq S
    BY <1>1, SomeIsMember
  <1>4. sum[s] = f[c] + sum[u]
    BY <1>1 DEF SumsUp
  <1>5. c # y
    BY <1>2, <1>4
  <1>6. sum[u] = f[y] + sum[u \ {y}]
    <2>1. u \in SUBSET S /\ u \subseteq s /\ u # s /\ y \in u
      BY <1>3, <1>5
    <2> QED
      BY <1>1, <2>1
  <1>7. sum[v] = f[c] + sum[v \ {c}]
    <2>1. v \in SUBSET S /\ v \subseteq s /\ v # s /\ c \in v
      BY <1>3, <1>5
    <2> QED
      BY <1>1, <2>1
  <1>8. sum[v \ {c}] = sum[u \ {y}]
    <2>1. v \ {c} = u \ {y}
      OBVIOUS
    <2> QED
      BY <2>1
  <1>9. f[y] \in Int /\ f[c] \in Int /\ sum[u \ {y}] \in Int
    BY <1>3, SumIsInteger
  <1> HIDE DEF c, u, v
  <1>10. sum[s] = f[y] + sum[v]
    BY <1>4, <1>6, <1>7, <1>8, <1>9
  <1> QED
    BY <1>2, <1>10 DEF v

-----------------------------------------------------------------------------
(* The value of a set of outputs.                                          *)

\* The quantities of the outputs, as a function.
Quantities(outputs) == [t \in outputs |-> t.qty]

\* Quantity is such a sum: it folds over the set in some order.
LEMMA QuantityIsSum ==
    ASSUME NEW S, IsFiniteSet(S), NEW sum, SumsUp(sum, Quantities(S), S), NEW r \in SUBSET S
    PROVE  Quantity(r) = sum[r]
  <1> DEFINE Adds(iter) == iter = [s \in SUBSET r |->
                              IF s = {} THEN 0 ELSE Some(s).qty + iter[s \ {Some(s)}]]
             g == CHOOSE iter : Adds(iter)
  <1>1. Quantity(r) = g[r]
    BY DEF Quantity, MapThenSumSet, MapThenFoldSet, Some
  <1>2. \A iter : Adds(iter) <=> SumsUp(iter, Quantities(r), r)
    <2>1. \A s \in SUBSET r : s # {} => Quantities(r)[Some(s)] = Some(s).qty
      BY SomeIsMember DEF Quantities
    <2> QED
      BY <2>1 DEF SumsUp
  <1>3. IsFiniteSet(r)
    BY FS_Subset
  <1>4. \E iter : Adds(iter)
    BY <1>2, <1>3, SumExists
  <1>5. SumsUp(g, Quantities(r), r)
    <2>1. Adds(g)
      <3> HIDE DEF Adds
      <3> QED
        BY <1>4
    <2> QED
      BY <1>2, <2>1
  <1> HIDE DEF g
  <1>6. SumsUp(g, Quantities(S), r)
    <2>1. \A s \in SUBSET r : s # {} => Quantities(r)[Some(s)] = Quantities(S)[Some(s)]
      BY SomeIsMember DEF Quantities
    <2> QED
      BY <1>5, <2>1 DEF SumsUp
  <1> QED
    BY <1>1, <1>3, <1>6, SumsAgree

\* No outputs are worth nothing.
LEMMA QuantityOfNone == Quantity({}) = 0
  <1>1. IsFiniteSet({})
    BY FS_EmptySet
  <1>2. PICK sum : SumsUp(sum, Quantities({}), {})
    BY <1>1, SumExists
  <1>3. sum[{}] = 0
    BY <1>2 DEF SumsUp
  <1> QED
    BY <1>1, <1>2, <1>3, QuantityIsSum

\* What outputs are worth is an integer,
LEMMA QuantityIsInteger ==
    ASSUME NEW S, IsFiniteSet(S), \A t \in S : t.qty \in Int
    PROVE  Quantity(S) \in Int
  <1>1. PICK sum : SumsUp(sum, Quantities(S), S)
    BY SumExists
  <1>2. \A t \in S : Quantities(S)[t] \in Int
    BY DEF Quantities
  <1> QED
    BY <1>1, <1>2, SumIsInteger, QuantityIsSum

\* and a natural where no output is worth less than nothing.
LEMMA QuantityIsNatural ==
    ASSUME NEW S, IsFiniteSet(S), \A t \in S : t.qty \in Nat
    PROVE  Quantity(S) \in Nat
  <1>1. PICK sum : SumsUp(sum, Quantities(S), S)
    BY SumExists
  <1>2. \A t \in S : Quantities(S)[t] \in Nat
    BY DEF Quantities
  <1> QED
    BY <1>1, <1>2, SumIsNatural, QuantityIsSum

\* Each output counts once, whenever it is added.
LEMMA QuantityRemoves ==
    ASSUME NEW S, IsFiniteSet(S), \A t \in S : t.qty \in Int, NEW x \in S
    PROVE  Quantity(S) = x.qty + Quantity(S \ {x})
  <1>1. PICK sum : SumsUp(sum, Quantities(S), S)
    BY SumExists
  <1>2. \A t \in S : Quantities(S)[t] \in Int /\ Quantities(S)[t] = t.qty
    BY DEF Quantities
  <1>3. sum[S] = Quantities(S)[x] + sum[S \ {x}]
    BY <1>1, <1>2, SumRemoves
  <1>4. Quantity(S) = sum[S] /\ Quantity(S \ {x}) = sum[S \ {x}]
    BY <1>1, QuantityIsSum
  <1> QED
    BY <1>2, <1>3, <1>4

\* One more output adds what it holds.
LEMMA QuantityAdds ==
    ASSUME NEW S, IsFiniteSet(S), \A t \in S : t.qty \in Int,
           NEW x, x \notin S, x.qty \in Int
    PROVE  Quantity(S \cup {x}) = Quantity(S) + x.qty
  <1>1. IsFiniteSet(S \cup {x}) /\ (S \cup {x}) \ {x} = S
    BY FS_AddElement
  <1>2. Quantity(S \cup {x}) = x.qty + Quantity(S)
    BY <1>1, QuantityRemoves
  <1> QED
    BY <1>2, QuantityIsInteger

\* One output is worth what it holds.
LEMMA QuantityOfOne ==
    ASSUME NEW x, x.qty \in Int
    PROVE  Quantity({x}) = x.qty
  <1>1. IsFiniteSet({}) /\ {} \cup {x} = {x}
    BY FS_EmptySet
  <1>2. Quantity({x}) = Quantity({}) + x.qty
    BY <1>1, QuantityAdds
  <1> QED
    BY <1>2, QuantityOfNone

\* What is held in two places is the sum of what is held in each.
THEOREM QuantityOfUnion ==
    ASSUME NEW S, IsFiniteSet(S), NEW T, IsFiniteSet(T), S \cap T = {},
           \A t \in S \cup T : t.qty \in Int
    PROVE  Quantity(S \cup T) = Quantity(S) + Quantity(T)
  <1> SUFFICES ASSUME Quantity(S \cup T) # Quantity(S) + Quantity(T) PROVE FALSE
    OBVIOUS
  <1> DEFINE C == {u \in SUBSET T : Quantity(S \cup u) # Quantity(S) + Quantity(u)}
  <1>1. PICK u \in C : \A v \in C : ~(v \subseteq u /\ v # u)
    <2>1. T \in C /\ C \in SUBSET (SUBSET T)
      OBVIOUS
    <2> HIDE DEF C
    <2> QED
      BY <2>1, Smallest
  <1>2. IsFiniteSet(u) /\ IsFiniteSet(S \cup u)
    BY <1>1, FS_Subset, FS_Union
  <1>3. Quantity(S) \in Int
    BY QuantityIsInteger
  <1>4. u # {}
    <2>1. Quantity(S \cup {}) = Quantity(S) + Quantity({})
      <3>1. S \cup {} = S
        OBVIOUS
      <3> QED
        BY <1>3, <3>1, QuantityOfNone
    <2> QED
      BY <1>1, <2>1
  <1>5. PICK x \in u : TRUE
    BY <1>4
  <1> DEFINE v == u \ {x}
  <1>6. v \in SUBSET T /\ v \subseteq u /\ v # u
    BY <1>1, <1>5
  <1>7. Quantity(S \cup v) = Quantity(S) + Quantity(v)
    BY <1>1, <1>6
  <1>8. Quantity(u) = x.qty + Quantity(v)
    BY <1>1, <1>2, <1>5, QuantityRemoves
  <1>9. Quantity(S \cup u) = x.qty + Quantity(S \cup v)
    <2>1. (S \cup u) \ {x} = S \cup v
      BY <1>1, <1>5
    <2>2. Quantity(S \cup u) = x.qty + Quantity((S \cup u) \ {x})
      BY <1>1, <1>2, <1>5, QuantityRemoves
    <2> QED
      BY <2>1, <2>2
  <1>10. x.qty \in Int /\ Quantity(v) \in Int
    <2>1. IsFiniteSet(v)
      BY <1>2, FS_Subset
    <2> QED
      BY <1>1, <1>5, <2>1, QuantityIsInteger
  <1> HIDE DEF v
  <1>11. Quantity(S \cup u) = Quantity(S) + Quantity(u)
    BY <1>3, <1>7, <1>8, <1>9, <1>10
  <1> QED
    BY <1>1, <1>11
=============================================================================
