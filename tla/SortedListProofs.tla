-------------------------- MODULE SortedListProofs --------------------------
(***************************************************************************)
(* Splitting a covering node and merging a node into its predecessor keep  *)
(* a list sound, whatever its length, and a key some node brackets is not  *)
(* listed.                                                                 *)
(***************************************************************************)
EXTENDS SortedList, TLAPS

(* A node that a transfer cites as its proof does prove what it is cited   *)
(* for: no node of a sound list holds a key that another one brackets.     *)
LEMMA BracketedIsNotMember ==
    ASSUME NEW list \in SUBSET Node, Sound(list), NEW n \in list,
           NEW k \in Keys, Brackets(n, k)
    PROVE  k \notin Members(list)
<1>1. SUFFICES ASSUME NEW m \in list, m.key = k PROVE FALSE
  BY DEF Members
<1>2. m # n
  BY <1>1 DEF Brackets, Node, Keys
<1>3. m.next <= n.key \/ n.next <= m.key
  BY <1>2 DEF Sound, Disjoint
<1> QED
  BY <1>1, <1>3, MaxNextAssumption DEF Sound, Increasing, Brackets, Node, Keys

(* The list compliance.init() creates is sound: its one node spans all.    *)
LEMMA OriginSound == {Origin} \in SUBSET Node /\ Sound({Origin})
BY MaxNextAssumption
   DEF Sound, Increasing, Disjoint, Complete, Linked, Brackets, Keys, Node, Origin

\* What Split writes are nodes.
LEMMA SplitTyped ==
    ASSUME NEW c \in Node, NEW k \in Keys
    PROVE  Split(c, k) \in SUBSET Node
<1>1. k \in 0..(MaxNext - 1) /\ k \in 1..MaxNext
  BY MaxNextAssumption DEF Keys
<1> QED
  BY <1>1 DEF Split, Node

\* So is the node that Merge writes.
LEMMA MergeTyped ==
    ASSUME NEW p \in Node, NEW r \in Node
    PROVE  Merge(p, r) \in SUBSET Node
BY DEF Merge, Node

\* Two nodes of a sound list have two keys.
LEMMA KeysDistinct ==
    ASSUME NEW list \in SUBSET Node, Sound(list), NEW m \in list, NEW n \in list, m.key = n.key
    PROVE  m = n
<1>1. SUFFICES ASSUME m # n PROVE FALSE
  OBVIOUS
<1>2. m.next <= n.key \/ n.next <= m.key
  BY <1>1 DEF Sound, Disjoint
<1> QED
  BY <1>2 DEF Sound, Increasing, Node

(* freeze: the two nodes that replace the covering one divide its span at  *)
(* the target, so the verdict changes for the target alone.                *)
LEMMA SplitSound ==
    ASSUME NEW list \in SUBSET Node, Sound(list), NEW c \in list,
           NEW k \in Keys, Brackets(c, k)
    PROVE  LET new == (list \ {c}) \cup Split(c, k)
           IN  new \in SUBSET Node /\ Sound(new)
<1> DEFINE low == [c EXCEPT !.next = k]
           high == [key |-> k, next |-> c.next]
           new == (list \ {c}) \cup Split(c, k)
<1>1. /\ low \in Node /\ low.key = c.key /\ low.next = k
      /\ high \in Node /\ high.key = k /\ high.next = c.next
      /\ c.key < k /\ k < c.next
  BY MaxNextAssumption DEF Node, Keys, Brackets
<1>2. new = (list \ {c}) \cup {low, high}
  BY DEF Split
<1> HIDE DEF low, high, new
<1>3. new \in SUBSET Node
  BY <1>1, <1>2
<1>4. \A m \in list \ {c} : m.next <= c.key \/ c.next <= m.key
  BY DEF Sound, Disjoint
<1>5. Increasing(new)
  BY <1>1, <1>2 DEF Increasing, Sound
<1>6. Disjoint(new)
  <2>1. SUFFICES ASSUME NEW m \in new, NEW n \in new, m # n
                 PROVE  m.next <= n.key \/ n.next <= m.key
    BY DEF Disjoint
  <2>2. CASE m \in list \ {c} /\ n \in list \ {c}
    BY <2>1, <2>2 DEF Sound, Disjoint
  <2>3. CASE m \in list \ {c} /\ n \in {low, high}
    BY <2>3, <1>1, <1>4 DEF Node, Keys
  <2>4. CASE m \in {low, high} /\ n \in list \ {c}
    BY <2>4, <1>1, <1>4 DEF Node, Keys
  <2>5. CASE m \in {low, high} /\ n \in {low, high}
    BY <2>1, <2>5, <1>1 DEF Node, Keys
  <2> QED
    BY <1>2, <2>2, <2>3, <2>4, <2>5
<1>7. Complete(new)
  <2>1. SUFFICES ASSUME NEW j \in Keys
                 PROVE  \E n \in new : n.key = j \/ Brackets(n, j)
    BY DEF Complete
  <2>2. PICK n \in list : n.key = j \/ Brackets(n, j)
    BY DEF Sound, Complete
  <2>3. CASE n # c
    BY <2>2, <2>3, <1>2
  <2>4. CASE n = c /\ j < k
    <3>1. low.key = j \/ Brackets(low, j)
      BY <2>2, <2>4, <1>1 DEF Brackets
    <3> QED
      BY <3>1, <1>2
  <2>5. CASE n = c /\ ~(j < k)
    <3>1. high.key = j \/ Brackets(high, j)
      BY <2>2, <2>5, <1>1 DEF Brackets, Keys, Node
    <3> QED
      BY <3>1, <1>2
  <2> QED
    BY <2>3, <2>4, <2>5
<1>8. Linked(new)
  <2>1. SUFFICES ASSUME NEW n \in new, n.key # 0
                 PROVE  \E p \in new : p.next = n.key
    BY DEF Linked
  <2>2. CASE n = high
    BY <2>2, <1>1, <1>2
  <2>3. CASE n # high
    <3>1. PICK m \in list : m.key = n.key
      BY <2>3, <1>1, <1>2
    <3>2. PICK p \in list : p.next = n.key
      BY <3>1, <2>1 DEF Sound, Linked
    <3>3. CASE p = c
      BY <3>2, <3>3, <1>1, <1>2
    <3>4. CASE p # c
      BY <3>2, <3>4, <1>2
    <3> QED
      BY <3>3, <3>4
  <2> QED
    BY <2>2, <2>3
<1> QED
  BY <1>3, <1>5, <1>6, <1>7, <1>8 DEF Sound, new

(* unfreeze: the predecessor takes over the span of the removed node.      *)
LEMMA MergeSound ==
    ASSUME NEW list \in SUBSET Node, Sound(list), NEW p \in list, NEW r \in list,
           r.key # 0, p.next = r.key
    PROVE  LET new == (list \ {r, p}) \cup Merge(p, r)
           IN  new \in SUBSET Node /\ Sound(new)
<1> DEFINE wide == [p EXCEPT !.next = r.next]
           new == (list \ {r, p}) \cup Merge(p, r)
<1>1. /\ wide \in Node /\ wide.key = p.key /\ wide.next = r.next
      /\ p.key < p.next /\ r.key < r.next /\ p.next = r.key
  BY MaxNextAssumption DEF Node, Sound, Increasing
<1>2. new = (list \ {r, p}) \cup {wide}
  BY DEF Merge
<1> HIDE DEF wide, new
<1>3. new \in SUBSET Node
  BY <1>1, <1>2
<1>4. Increasing(new)
  BY <1>1, <1>2 DEF Increasing, Sound, Node
<1>5. \A m \in list \ {r, p} : m.next <= wide.key \/ wide.next <= m.key
  <2>1. SUFFICES ASSUME NEW m \in list \ {r, p}
                 PROVE  m.next <= p.key \/ r.next <= m.key
    BY <1>1
  <2>2. m.next <= p.key \/ p.next <= m.key
    BY DEF Sound, Disjoint
  <2>3. m.next <= r.key \/ r.next <= m.key
    BY DEF Sound, Disjoint
  <2>4. m.key < m.next
    BY DEF Sound, Increasing
  <2> QED
    BY <2>2, <2>3, <2>4, <1>1 DEF Node
<1>6. Disjoint(new)
  BY <1>2, <1>5 DEF Disjoint, Sound
<1>7. Complete(new)
  <2>1. SUFFICES ASSUME NEW j \in Keys
                 PROVE  \E n \in new : n.key = j \/ Brackets(n, j)
    BY DEF Complete
  <2>2. PICK n \in list : n.key = j \/ Brackets(n, j)
    BY DEF Sound, Complete
  <2>3. CASE n \notin {r, p}
    BY <2>2, <2>3, <1>2
  <2>4. CASE n \in {r, p}
    <3>1. wide.key = j \/ Brackets(wide, j)
      BY <2>2, <2>4, <1>1, MaxNextAssumption DEF Brackets, Keys, Node
    <3> QED
      BY <3>1, <1>2
  <2> QED
    BY <2>3, <2>4
<1>8. Linked(new)
  <2>1. SUFFICES ASSUME NEW n \in new, n.key # 0
                 PROVE  \E q \in new : q.next = n.key
    BY DEF Linked
  <2>2. PICK m \in list : m.key = n.key /\ m # r
    <3>1. CASE n = wide
      BY <3>1, <1>1, MaxNextAssumption DEF Node
    <3>2. CASE n # wide
      BY <3>2, <1>2
    <3> QED
      BY <3>1, <3>2
  <2>3. PICK q \in list : q.next = m.key
    BY <2>1, <2>2 DEF Sound, Linked
  <2>4. q # p
    <3>1. SUFFICES ASSUME m.key = r.key PROVE FALSE
      BY <2>3, <1>1
    <3>2. m.next <= r.key \/ r.next <= m.key
      BY <2>2 DEF Sound, Disjoint
    <3>3. m.key < m.next
      BY DEF Sound, Increasing
    <3> QED
      BY <3>1, <3>2, <3>3, <1>1 DEF Node
  <2>5. CASE q = r
    BY <2>2, <2>3, <2>5, <1>1, <1>2
  <2>6. CASE q # r
    BY <2>2, <2>3, <2>4, <2>6, <1>2
  <2> QED
    BY <2>5, <2>6
<1> QED
  BY <1>3, <1>4, <1>6, <1>7, <1>8 DEF Sound, new

(* Of the members, freeze adds its target and nothing else.                *)
LEMMA MembersAfterSplit ==
    ASSUME NEW list \in SUBSET Node, Sound(list), NEW c \in list,
           NEW k \in Keys, Brackets(c, k)
    PROVE  Members((list \ {c}) \cup Split(c, k)) = Members(list) \cup {k}
<1> DEFINE low == [c EXCEPT !.next = k]
           high == [key |-> k, next |-> c.next]
           new == (list \ {c}) \cup Split(c, k)
<1>1. low.key = c.key /\ high.key = k /\ k # 0
  BY DEF Node, Keys
<1>2. \A n : n \in new <=> (n \in list /\ n # c) \/ n = low \/ n = high
  BY DEF Split
<1> HIDE DEF low, high, new
<1>3. \A j : j \in {n.key : n \in new} <=> j \in {n.key : n \in list} \/ j = k
  BY <1>1, <1>2
<1> QED
  BY <1>1, <1>3 DEF Members, new

(* And unfreeze takes away its target: no other node holds that key.       *)
LEMMA MembersAfterMerge ==
    ASSUME NEW list \in SUBSET Node, Sound(list), NEW p \in list, NEW r \in list,
           p.next = r.key
    PROVE  Members((list \ {r, p}) \cup Merge(p, r)) = Members(list) \ {r.key}
<1> DEFINE wide == [p EXCEPT !.next = r.next]
           new == (list \ {r, p}) \cup Merge(p, r)
<1>1. wide.key = p.key /\ p # r
  BY DEF Node, Sound, Increasing
<1>2. \A n : n \in new <=> (n \in list /\ n # r /\ n # p) \/ n = wide
  BY DEF Merge
<1>3. \A n \in list : n.key = r.key => n = r
  BY KeysDistinct
<1> HIDE DEF wide, new
<1>4. \A j : j \in {n.key : n \in new} <=> j \in {n.key : n \in list} /\ j # r.key
  BY <1>1, <1>2, <1>3
<1> QED
  BY <1>4 DEF Members, new
=============================================================================
