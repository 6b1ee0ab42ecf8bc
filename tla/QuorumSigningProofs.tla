------------------------ MODULE QuorumSigningProofs ------------------------
(***************************************************************************)
(* For trees of any depth and any number of signers: what the checks of    *)
(* the encoder are worth, and that counting witnesses is enough, as far as *)
(* a count can see.                                                        *)
(*                                                                         *)
(* The code's functions on trees are recursive functions here.  They exist *)
(* because a tree ends: RecursionOnTrees.  Induction over trees is by a    *)
(* shallowest counterexample, no member of which is one: ShallowestTree.   *)
(***************************************************************************)
EXTENDS QuorumSigning, QuantityProofs, SequenceTheorems

-----------------------------------------------------------------------------
(* The strengthening of the invariants of QuorumSigning.                   *)

Bodies == [ref : Nat, newTree : Trees, signers : SUBSET KeyHashes]

\* A wallet signs only what is required of it.
WitnessSets ==
    {set \in SUBSET [key : KeyHashes, over : Bodies] : \A w \in set : w.key \in Required(w.over)}

\* A rotation writes a tree that passes; and as long as its config UTxO is
\* there, the tree in it accepts the signers.
Sound(body) ==
    /\ body \in Bodies
    /\ multisigScriptDatum(body.newTree)
    /\ body.ref <= moves
    /\ body.ref = moves => satisfiesMultisigTree(tree, Signed(body.signers))

Counted(tx) ==
    /\ tx.sets \in Seq(WitnessSets)
    /\ countVKeyWitnesses(tx) = Cardinality(Required(tx.body))

TreeInv == tree \in Trees /\ multisigScriptDatum(tree)

IInv ==
    /\ TreeInv
    /\ moves \in Nat
    /\ built # None => Sound(built)
    /\ collected \in Seq(WitnessSets)
    /\ sent # None => Sound(sent.body) /\ Counted(sent)

-----------------------------------------------------------------------------
(* Recursion over trees.                                                   *)

Members(t) == IF IsList(t) THEN t.scripts ELSE << >>

\* What f says of the members of a tree.
OfMembers(f, t) == [n \in DOMAIN Members(t) |-> f[Members(t)[n]]]

Below(k) == {t \in Trees : Depth[t] < k}

\* f follows step on the trees of S: its value on a tree is what step makes of
\* its values on the members.
Follows(f, step, S) == \A t \in S : f[t] = step[<<t, OfMembers(f, t)>>]

\* A tree is made of trees that are less deep.
LEMMA MembersOfTree ==
    ASSUME NEW t \in Trees
    PROVE  /\ Members(t) \in Seq(Trees)
           /\ \A n \in DOMAIN Members(t) : Members(t)[n] \in Trees /\ Depth[Members(t)[n]] < Depth[t]
           /\ Depth[t] \in Nat
  BY TreesAssumption DEF Members, IsList

\* Of the trees that are not as claimed, one has no such member.
LEMMA ShallowestTree ==
    ASSUME NEW C \in SUBSET Trees, C # {}
    PROVE  \E t \in C : \A n \in DOMAIN Members(t) : Members(t)[n] \notin C
  <1> DEFINE D == {Depth[t] : t \in C}
  <1>1. D \in SUBSET Nat /\ D # {}
    BY MembersOfTree
  <1>2. PICK d \in D : \A e \in D : d <= e
    <2> HIDE DEF D
    <2> QED
      BY <1>1, LeastNatural
  <1>3. PICK t \in C : d = Depth[t]
    BY <1>2
  <1>4. ASSUME NEW n \in DOMAIN Members(t), Members(t)[n] \in C PROVE FALSE
    <2>1. d <= Depth[Members(t)[n]]
      BY <1>2, <1>4
    <2>2. Depth[Members(t)[n]] \in Nat /\ d \in Nat
      BY <1>1, <1>4, MembersOfTree
    <2> QED
      BY <1>3, <2>1, <2>2, MembersOfTree
  <1> QED
    BY <1>4

\* Functions that agree on the members say the same of them.
LEMMA OfMembersAgree ==
    ASSUME NEW t \in Trees, NEW g, NEW h,
           \A n \in DOMAIN Members(t) : g[Members(t)[n]] = h[Members(t)[n]]
    PROVE  OfMembers(g, t) = OfMembers(h, t)
  BY DEF OfMembers

\* Two functions that follow one step agree on the trees of both.
LEMMA FollowersAgree ==
    ASSUME NEW step, NEW k \in Nat, NEW j \in Nat, NEW g, NEW h,
           Follows(g, step, Below(k)), Follows(h, step, Below(j)),
           NEW t \in Below(k) \cap Below(j)
    PROVE  g[t] = h[t]
  <1> SUFFICES ASSUME g[t] # h[t] PROVE FALSE
    OBVIOUS
  <1> DEFINE C == {u \in Below(k) \cap Below(j) : g[u] # h[u]}
  <1>1. C \in SUBSET Trees /\ C # {}
    BY DEF Below
  <1>2. PICK u \in C : \A n \in DOMAIN Members(u) : Members(u)[n] \notin C
    <2> HIDE DEF C
    <2> QED
      BY <1>1, ShallowestTree
  <1>3. u \in Trees /\ u \in Below(k) /\ u \in Below(j)
    BY DEF Below
  <1>4. ASSUME NEW n \in DOMAIN Members(u) PROVE g[Members(u)[n]] = h[Members(u)[n]]
    <2>1. Members(u)[n] \in Below(k) \cap Below(j)
      BY <1>3, <1>4, MembersOfTree DEF Below
    <2> QED
      BY <1>2, <1>4, <2>1
  <1>5. OfMembers(g, u) = OfMembers(h, u)
    BY <1>3, <1>4, OfMembersAgree
  <1> QED
    BY <1>2, <1>3, <1>5 DEF Follows

\* What a tree and the values of its members make.
Steps(V) == [Trees \X Seq(V) -> V]

\* The values of the members are a sequence,
LEMMA OfMembersType ==
    ASSUME NEW V, NEW t \in Trees, NEW f, \A n \in DOMAIN Members(t) : f[Members(t)[n]] \in V
    PROVE  OfMembers(f, t) \in Seq(V)
  <1>1. Members(t) \in Seq(Trees)
    BY MembersOfTree
  <1> QED
    BY <1>1 DEF OfMembers

\* from which a step makes a value.
LEMMA StepTaken ==
    ASSUME NEW V, NEW step \in Steps(V), NEW t \in Trees, NEW f,
           \A n \in DOMAIN Members(t) : f[Members(t)[n]] \in V
    PROVE  step[<<t, OfMembers(f, t)>>] \in V
  <1>1. OfMembers(f, t) \in Seq(V)
    BY OfMembersType
  <1> QED
    BY <1>1 DEF Steps

\* Trees are finite, so that every step can be followed,
LEMMA FollowedBelow ==
    ASSUME NEW V, NEW step \in Steps(V), NEW k \in Nat
    PROVE  \E g \in [Below(k) -> V] : Follows(g, step, Below(k))
  <1> DEFINE Solved(i) == \E g \in [Below(i) -> V] : Follows(g, step, Below(i))
             C == {i \in Nat : ~Solved(i)}
  <1> SUFFICES ASSUME ~Solved(k) PROVE FALSE
    OBVIOUS
  <1>1. PICK i \in C : \A j \in C : i <= j
    <2>1. C \in SUBSET Nat /\ C # {}
      OBVIOUS
    <2> HIDE DEF C
    <2> QED
      BY <2>1, LeastNatural
  <1>2. i # 0
    <2>1. Below(0) = {}
      BY MembersOfTree DEF Below
    <2>2. Solved(0)
      <3>1. [t \in {} |-> t] \in [Below(0) -> V] /\ Follows([t \in {} |-> t], step, Below(0))
        BY <2>1 DEF Follows
      <3> QED
        BY <3>1
    <2> HIDE DEF Solved
    <2> QED
      BY <2>2
  <1>3. PICK g \in [Below(i - 1) -> V] : Follows(g, step, Below(i - 1))
    <2>1. i - 1 \in Nat /\ i - 1 < i
      BY <1>2
    <2>2. Solved(i - 1)
      <3> HIDE DEF Solved
      <3> QED
        BY <1>1, <2>1
    <2> QED
      BY <2>2
  <1> DEFINE h == [t \in Below(i) |-> step[<<t, OfMembers(g, t)>>]]
  <1>4. ASSUME NEW t \in Below(i), NEW n \in DOMAIN Members(t)
        PROVE  /\ t \in Trees
               /\ Members(t)[n] \in Below(i - 1) /\ Members(t)[n] \in Below(i)
               /\ g[Members(t)[n]] \in V
               /\ h[Members(t)[n]] = g[Members(t)[n]]
    <2>1. t \in Trees /\ Depth[t] < i
      BY DEF Below
    <2>2. Members(t)[n] \in Trees /\ Depth[Members(t)[n]] < Depth[t] /\ Depth[t] \in Nat
          /\ Depth[Members(t)[n]] \in Nat
      BY <2>1, MembersOfTree
    <2>3. Members(t)[n] \in Below(i - 1) /\ Members(t)[n] \in Below(i)
      BY <2>1, <2>2 DEF Below
    <2>4. g[Members(t)[n]] = step[<<Members(t)[n], OfMembers(g, Members(t)[n])>>]
      BY <1>3, <2>3 DEF Follows
    <2> QED
      BY <1>3, <2>1, <2>3, <2>4
  <1>5. ASSUME NEW t \in Below(i) PROVE h[t] \in V /\ h[t] = step[<<t, OfMembers(h, t)>>]
    <2>1. t \in Trees
      BY DEF Below
    <2>2. step[<<t, OfMembers(g, t)>>] \in V
      <3>1. \A n \in DOMAIN Members(t) : g[Members(t)[n]] \in V
        BY <1>4
      <3> QED
        BY <2>1, <3>1, StepTaken
    <2>3. OfMembers(h, t) = OfMembers(g, t)
      <3>1. \A n \in DOMAIN Members(t) : h[Members(t)[n]] = g[Members(t)[n]]
        BY <1>4
      <3> HIDE DEF h
      <3> QED
        BY <2>1, <3>1, OfMembersAgree
    <2>4. h[t] = step[<<t, OfMembers(g, t)>>]
      OBVIOUS
    <2> HIDE DEF h
    <2> QED
      BY <2>2, <2>3, <2>4
  <1>6. h = [t \in Below(i) |-> h[t]]
    OBVIOUS
  <1>7. h \in [Below(i) -> V] /\ Follows(h, step, Below(i))
    <2> HIDE DEF h
    <2> QED
      BY <1>5, <1>6 DEF Follows
  <1>8. Solved(i)
    <2> HIDE DEF h
    <2> QED
      BY <1>7
  <1> HIDE DEF Solved
  <1> QED
    BY <1>1, <1>8

\* in one way.
LEMMA RecursionOnTrees ==
    ASSUME NEW V, NEW step \in Steps(V)
    PROVE  \E f \in [Trees -> V] : Follows(f, step, Trees)
  <1> DEFINE of(k) == CHOOSE g \in [Below(k) -> V] : Follows(g, step, Below(k))
  <1>1. ASSUME NEW k \in Nat PROVE of(k) \in [Below(k) -> V] /\ Follows(of(k), step, Below(k))
    BY FollowedBelow
  <1> HIDE DEF of
  <1> DEFINE f == [t \in Trees |-> of(Depth[t] + 1)[t]]
  <1>2. ASSUME NEW t \in Trees
        PROVE  Depth[t] + 1 \in Nat /\ t \in Below(Depth[t] + 1) /\ f[t] = of(Depth[t] + 1)[t]
    BY MembersOfTree DEF Below
  <1>3. ASSUME NEW t \in Trees PROVE f[t] \in V /\ f[t] = step[<<t, OfMembers(f, t)>>]
    <2> DEFINE g == of(Depth[t] + 1)
    <2>1. g \in [Below(Depth[t] + 1) -> V] /\ Follows(g, step, Below(Depth[t] + 1))
      BY <1>1, <1>2
    <2>2. ASSUME NEW n \in DOMAIN Members(t) PROVE f[Members(t)[n]] = g[Members(t)[n]]
      <3> DEFINE u == Members(t)[n]
      <3>1. u \in Trees /\ Depth[u] < Depth[t] /\ Depth[u] \in Nat /\ Depth[t] \in Nat
        BY MembersOfTree
      <3>2. u \in Below(Depth[t] + 1) \cap Below(Depth[u] + 1)
        BY <3>1 DEF Below
      <3>3. Depth[u] + 1 \in Nat /\ Depth[t] + 1 \in Nat
        BY <3>1
      <3>4. Follows(of(Depth[u] + 1), step, Below(Depth[u] + 1))
        BY <1>1, <3>3
      <3>5. f[u] = of(Depth[u] + 1)[u]
        BY <1>2, <3>1
      <3> HIDE DEF f, g, u
      <3>6. g[u] = of(Depth[u] + 1)[u]
        BY <2>1, <3>2, <3>3, <3>4, FollowersAgree
      <3> QED
        BY <3>5, <3>6 DEF u
    <2>3. OfMembers(f, t) = OfMembers(g, t)
      <3> HIDE DEF f, g
      <3> QED
        BY <2>2, OfMembersAgree
    <2>4. f[t] = g[t]
      BY <1>2
    <2> HIDE DEF f, g
    <2> QED
      BY <1>2, <2>1, <2>3, <2>4 DEF Follows
  <1>4. f = [t \in Trees |-> f[t]]
    OBVIOUS
  <1>5. f \in [Trees -> V] /\ Follows(f, step, Trees)
    <2> HIDE DEF f
    <2> QED
      BY <1>3, <1>4 DEF Follows
  <1> HIDE DEF f
  <1> QED
    BY <1>5

-----------------------------------------------------------------------------
(* What the code's recursive functions compute for a tree from what they   *)
(* compute for its members.                                                *)

\* The checks of encodeMultisigNode on a node, given those on its members.
NodeOk(t, kids) ==
    IF IsList(t)
    THEN /\ t.type = "at-least" => ThresholdOk(t)
         /\ ChildrenOk(t.scripts)
         /\ \A n \in DOMAIN t.scripts : kids[n]
    ELSE t.type \in {"signature", "script"} => t.hash \notin BadHashes

\* A node passes encodeMultisigNode as NodeOk says.
LEMMA EncodedNode ==
    ASSUME NEW t \in Trees
    PROVE  /\ encodeMultisigNode[t] \in BOOLEAN
           /\ encodeMultisigNode[t] = NodeOk(t, OfMembers(encodeMultisigNode, t))
  <1> DEFINE Body(f, u) ==
                IF IsList(u)
                THEN /\ u.type = "at-least" => ThresholdOk(u)
                     /\ ChildrenOk(u.scripts)
                     /\ \A n \in DOMAIN u.scripts : f[u.scripts[n]]
                ELSE u.type \in {"signature", "script"} => u.hash \notin BadHashes
             step == [a \in Trees \X Seq(BOOLEAN) |-> NodeOk(a[1], a[2])]
  <1>1. step \in Steps(BOOLEAN)
    BY DEF Steps, NodeOk
  <1>2. PICK f \in [Trees -> BOOLEAN] : Follows(f, step, Trees)
    <2> HIDE DEF step
    <2> QED
      BY <1>1, RecursionOnTrees
  <1>3. ASSUME NEW g, NEW u \in Trees PROVE NodeOk(u, OfMembers(g, u)) = Body(g, u)
    BY DEF NodeOk, OfMembers, Members
  <1>4. ASSUME NEW u \in Trees PROVE f[u] = Body(f, u)
    <2>1. OfMembers(f, u) \in Seq(BOOLEAN)
      <3>1. \A n \in DOMAIN Members(u) : f[Members(u)[n]] \in BOOLEAN
        BY MembersOfTree
      <3> QED
        BY <3>1, OfMembersType
    <2>2. step[<<u, OfMembers(f, u)>>] = NodeOk(u, OfMembers(f, u))
      BY <2>1
    <2> HIDE DEF Body, step
    <2> QED
      BY <1>2, <1>3, <2>2 DEF Follows
  <1>5. f = [u \in Trees |-> Body(f, u)]
    <2>1. f = [u \in Trees |-> f[u]]
      OBVIOUS
    <2> HIDE DEF Body
    <2> QED
      BY <1>4, <2>1
  <1>6. encodeMultisigNode = [u \in Trees |-> Body(encodeMultisigNode, u)]
    BY <1>5 DEF encodeMultisigNode
  <1>7. encodeMultisigNode[t] = Body(encodeMultisigNode, t)
    <2> HIDE DEF Body
    <2> QED
      BY <1>6
  <1>8. Body(encodeMultisigNode, t) \in BOOLEAN
    OBVIOUS
  <1> HIDE DEF Body
  <1> QED
    BY <1>3, <1>7, <1>8

\* Where a list is met.
MetMembers(t, evidence) ==
    {n \in DOMAIN Members(t) : satisfiesMultisigTree(Members(t)[n], evidence)}

\* A bare verdict is one of two.
LEMMA MetIsVerdict ==
    ASSUME NEW t \in Trees, NEW met, NEW evidence
    PROVE  Met(t, met, evidence) \in BOOLEAN
  <1>1. t.type \in {"signature", "script", "before", "after", "all-of", "any-of", "at-least"}
    BY TreesAssumption
  <1>2. CASE t.type = "before"
    BY <1>2 DEF Met, Within
  <1>3. CASE t.type = "after"
    BY <1>3 DEF Met, Within
  <1>4. CASE t.type = "signature"
    BY <1>4 DEF Met
  <1>5. CASE t.type = "script"
    BY <1>5 DEF Met
  <1>6. CASE t.type = "all-of"
    BY <1>6 DEF Met
  <1>7. CASE t.type = "any-of"
    BY <1>7 DEF Met
  <1>8. CASE t.type = "at-least"
    BY <1>8 DEF Met
  <1> QED
    BY <1>1, <1>2, <1>3, <1>4, <1>5, <1>6, <1>7, <1>8

\* The go of satisfiesMultisigTree.
LEMMA SatisfiedNode ==
    ASSUME NEW evidence, NEW t \in Trees
    PROVE  /\ satisfiesMultisigTree(t, evidence) \in BOOLEAN
           /\ satisfiesMultisigTree(t, evidence) = Met(t, MetMembers(t, evidence), evidence)
  <1> DEFINE Of(f, u) == IF IsList(u) THEN {n \in DOMAIN u.scripts : f[u.scripts[n]]} ELSE {}
             Body(f, u) == Met(u, Of(f, u), evidence)
             step == [a \in Trees \X Seq(BOOLEAN) |->
                         Met(a[1], {n \in DOMAIN Members(a[1]) : a[2][n]}, evidence)]
  <1>1. step \in Steps(BOOLEAN)
    <2>1. ASSUME NEW a \in Trees \X Seq(BOOLEAN)
          PROVE  Met(a[1], {n \in DOMAIN Members(a[1]) : a[2][n]}, evidence) \in BOOLEAN
      BY MetIsVerdict
    <2> QED
      BY <2>1 DEF Steps
  <1>2. PICK f \in [Trees -> BOOLEAN] : Follows(f, step, Trees)
    <2> HIDE DEF step
    <2> QED
      BY <1>1, RecursionOnTrees
  <1>3. ASSUME NEW u \in Trees PROVE f[u] = Body(f, u)
    <2> DEFINE kids == OfMembers(f, u)
    <2>1. kids \in Seq(BOOLEAN)
      <3>1. \A n \in DOMAIN Members(u) : f[Members(u)[n]] \in BOOLEAN
        BY MembersOfTree
      <3> QED
        BY <3>1, OfMembersType
    <2>2. {n \in DOMAIN Members(u) : kids[n]} = Of(f, u)
      BY DEF OfMembers, Members
    <2>3. step[<<u, kids>>] = Met(u, {n \in DOMAIN Members(u) : kids[n]}, evidence)
      <3> HIDE DEF kids
      <3> QED
        BY <2>1
    <2>4. f[u] = step[<<u, kids>>]
      <3> HIDE DEF step
      <3> QED
        BY <1>2 DEF Follows
    <2> HIDE DEF Of, kids, step
    <2> QED
      BY <2>2, <2>3, <2>4
  <1>4. f = [u \in Trees |-> Body(f, u)]
    <2>1. f = [u \in Trees |-> f[u]]
      OBVIOUS
    <2> HIDE DEF Body
    <2> QED
      BY <1>3, <2>1
  <1> DEFINE go == CHOOSE g : g = [u \in Trees |-> Body(g, u)]
  <1>5. go = [u \in Trees |-> Body(go, u)]
    <2> HIDE DEF Body
    <2> QED
      BY <1>4
  <1>6. \A u : satisfiesMultisigTree(u, evidence) = go[u]
    BY DEF satisfiesMultisigTree
  <1> HIDE DEF go
  <1>7. Of(go, t) = MetMembers(t, evidence)
    BY <1>6 DEF MetMembers, Members
  <1>8. go[t] = Met(t, Of(go, t), evidence)
    <2> HIDE DEF Of
    <2> QED
      BY <1>5
  <1> HIDE DEF Of
  <1> QED
    BY <1>6, <1>7, <1>8, MetIsVerdict

\* The walk of unsupportedLeafKinds.
LEMMA LeafKindsOfNode ==
    ASSUME NEW t \in Trees
    PROVE  LeafKinds[t] =
              IF IsList(t) THEN UNION {LeafKinds[t.scripts[n]] : n \in DOMAIN t.scripts}
              ELSE {t.type}
  <1> DEFINE kinds == {"signature", "script", "before", "after"}
             Body(f, u) == IF IsList(u) THEN UNION {f[u.scripts[n]] : n \in DOMAIN u.scripts}
                           ELSE {u.type}
             step == [a \in Trees \X Seq(SUBSET kinds) |->
                         IF IsList(a[1]) THEN UNION {a[2][n] : n \in DOMAIN a[2]} ELSE {a[1].type}]
  <1>1. step \in Steps(SUBSET kinds)
    <2>1. ASSUME NEW a \in Trees \X Seq(SUBSET kinds)
          PROVE  (IF IsList(a[1]) THEN UNION {a[2][n] : n \in DOMAIN a[2]} ELSE {a[1].type})
                    \in SUBSET kinds
      <3>1. CASE IsList(a[1])
        BY <3>1
      <3>2. CASE ~IsList(a[1])
        BY <3>2, TreesAssumption DEF IsList
      <3> QED
        BY <3>1, <3>2
    <2> QED
      BY <2>1 DEF Steps
  <1>2. PICK f \in [Trees -> SUBSET kinds] : Follows(f, step, Trees)
    <2> DEFINE V == SUBSET kinds
    <2>1. step \in Steps(V)
      BY <1>1
    <2> HIDE DEF step, V
    <2>2. \E f \in [Trees -> V] : Follows(f, step, Trees)
      BY <2>1, RecursionOnTrees
    <2> QED
      BY <2>2 DEF V
  <1>3. ASSUME NEW u \in Trees PROVE f[u] = Body(f, u)
    <2> DEFINE kids == OfMembers(f, u)
               V == SUBSET kinds
    <2>1. kids \in Seq(V)
      <3>1. \A n \in DOMAIN Members(u) : f[Members(u)[n]] \in V
        BY MembersOfTree
      <3> HIDE DEF V
      <3> QED
        BY <3>1, OfMembersType
    <2>2. DOMAIN kids = DOMAIN Members(u) /\ \A n \in DOMAIN kids : kids[n] = f[Members(u)[n]]
      BY DEF OfMembers
    <2>3. f[u] = step[<<u, kids>>]
      <3> HIDE DEF step
      <3> QED
        BY <1>2 DEF Follows
    <2>4. step[<<u, kids>>] = IF IsList(u) THEN UNION {kids[n] : n \in DOMAIN kids} ELSE {u.type}
      <3> HIDE DEF kids
      <3> QED
        BY <2>1
    <2> HIDE DEF kids, step
    <2>5. CASE IsList(u)
      <3>1. DOMAIN kids = DOMAIN u.scripts /\ \A n \in DOMAIN kids : kids[n] = f[u.scripts[n]]
        BY <2>2, <2>5 DEF Members
      <3>2. {kids[n] : n \in DOMAIN kids} = {f[u.scripts[n]] : n \in DOMAIN u.scripts}
        BY <3>1
      <3> QED
        BY <2>3, <2>4, <2>5, <3>2
    <2>6. CASE ~IsList(u)
      BY <2>3, <2>4, <2>6
    <2> QED
      BY <2>5, <2>6
  <1>4. f = [u \in Trees |-> Body(f, u)]
    <2>1. f = [u \in Trees |-> f[u]]
      OBVIOUS
    <2> HIDE DEF Body
    <2> QED
      BY <1>3, <2>1
  <1>5. LeafKinds = [u \in Trees |-> Body(LeafKinds, u)]
    BY <1>4 DEF LeafKinds
  <1> QED
    BY <1>5

-----------------------------------------------------------------------------
(* What the checks of the encoder are worth.                               *)

TimeLeaves == {"before", "after"}

\* The checks on a list go through to its members.
LEMMA EncodedList ==
    ASSUME NEW t \in Trees, encodeMultisigNode[t], IsList(t)
    PROVE  /\ DOMAIN Members(t) # {} /\ ChildrenOk(t.scripts)
           /\ t.type = "at-least" => ThresholdOk(t)
           /\ Members(t) = t.scripts
           /\ DOMAIN Members(t) = 1..Len(t.scripts) /\ Len(t.scripts) \in Nat
           /\ \A n \in DOMAIN Members(t) :
                 /\ Members(t)[n] \in Trees
                 /\ encodeMultisigNode[Members(t)[n]]
                 /\ LeafKinds[Members(t)[n]] \subseteq LeafKinds[t]
  <1>1. NodeOk(t, OfMembers(encodeMultisigNode, t))
    BY EncodedNode
  <1>2. Members(t) = t.scripts /\ Members(t) \in Seq(Trees)
    BY MembersOfTree DEF Members
  <1>3. ASSUME NEW n \in DOMAIN Members(t) PROVE encodeMultisigNode[Members(t)[n]]
    BY <1>1, <1>2 DEF NodeOk, OfMembers
  <1>4. ASSUME NEW n \in DOMAIN Members(t) PROVE LeafKinds[Members(t)[n]] \subseteq LeafKinds[t]
    <2>1. LeafKinds[t] = UNION {LeafKinds[t.scripts[m]] : m \in DOMAIN t.scripts}
      BY LeafKindsOfNode
    <2> QED
      BY <1>2, <2>1
  <1>5. ChildrenOk(t.scripts) /\ (t.type = "at-least" => ThresholdOk(t))
    BY <1>1 DEF NodeOk
  <1>6. DOMAIN Members(t) # {}
    <2>1. Members(t) # << >>
      BY <1>2, <1>5 DEF ChildrenOk
    <2>2. Len(Members(t)) \in Nat \ {0}
      BY <1>2, <2>1, EmptySeq
    <2>3. DOMAIN Members(t) = 1..Len(Members(t))
      BY <1>2
    <2>4. 1 \in 1..Len(Members(t))
      BY <2>2
    <2> QED
      BY <2>3, <2>4
  <1> QED
    BY <1>2, <1>3, <1>4, <1>5, <1>6, MembersOfTree

\* A leaf that passes names a key or a script of the right length, or a time.
LEMMA EncodedLeaf ==
    ASSUME NEW t \in Trees, encodeMultisigNode[t], ~IsList(t)
    PROVE  /\ t.type \in {"signature", "script", "before", "after"}
           /\ LeafKinds[t] = {t.type}
           /\ t.type = "signature" => t.hash \in KeyHashes
           /\ t.type = "script" => t.hash \in ScriptHashes
  <1>1. NodeOk(t, OfMembers(encodeMultisigNode, t))
    BY EncodedNode
  <1>2. t.type \in {"signature", "script", "before", "after"}
    BY TreesAssumption DEF IsList
  <1>3. t.type \in {"signature", "script"} => t.hash \notin BadHashes
    BY <1>1 DEF NodeOk
  <1>4. t.type = "signature" => t.hash \in KeyHashes
    BY <1>3, TreesAssumption
  <1>5. t.type = "script" => t.hash \in ScriptHashes
    BY <1>3, TreesAssumption
  <1> QED
    BY <1>2, <1>4, <1>5, LeafKindsOfNode

\* No tree that passes is satisfied by nobody: of the shallowest that were, no
\* member would be met, and a list of which no member is met holds only if it
\* is empty or its threshold is none.
LEMMA NobodySatisfies ==
    ASSUME NEW t \in Trees, encodeMultisigNode[t], NEW evidence,
           evidence.signatories = {}, evidence.withdrawals = {},
           \/ evidence.lower = << >> /\ evidence.upper = << >>
           \/ LeafKinds[t] \cap TimeLeaves = {}
    PROVE  ~satisfiesMultisigTree(t, evidence)
  <1> DEFINE Untimed(u) == \/ evidence.lower = << >> /\ evidence.upper = << >>
                           \/ LeafKinds[u] \cap TimeLeaves = {}
             C == {u \in Trees : /\ encodeMultisigNode[u] /\ Untimed(u)
                                 /\ satisfiesMultisigTree(u, evidence)}
  <1> SUFFICES ASSUME t \in C PROVE FALSE
    OBVIOUS
  <1>1. PICK u \in C : \A n \in DOMAIN Members(u) : Members(u)[n] \notin C
    <2>1. C \in SUBSET Trees /\ C # {}
      OBVIOUS
    <2> HIDE DEF C
    <2> QED
      BY <2>1, ShallowestTree
  <1>2. u \in Trees /\ encodeMultisigNode[u] /\ Untimed(u) /\ satisfiesMultisigTree(u, evidence)
    BY <1>1
  <1>3. Met(u, MetMembers(u, evidence), evidence)
    BY <1>2, SatisfiedNode
  <1>4. CASE IsList(u)
    <2>1. \A n \in DOMAIN Members(u) :
             Members(u)[n] \in Trees /\ encodeMultisigNode[Members(u)[n]] /\ Untimed(Members(u)[n])
      BY <1>2, <1>4, EncodedList
    <2>2. MetMembers(u, evidence) = {}
      BY <1>1, <2>1 DEF MetMembers
    <2>3. Cardinality({}) = 0
      BY FS_EmptySet
    <2>4. CASE u.type = "all-of"
      BY <1>2, <1>3, <1>4, <2>2, <2>4, EncodedList DEF Met
    <2>5. CASE u.type = "any-of"
      BY <1>3, <2>2, <2>5 DEF Met
    <2>6. CASE u.type = "at-least"
      <3>1. u.required >= 1 /\ u.required \in Int
        BY <1>2, <1>4, <2>6, EncodedList, TreesAssumption DEF ThresholdOk
      <3> QED
        BY <1>3, <2>2, <2>3, <2>6, <3>1 DEF Met
    <2> QED
      BY <1>4, <2>4, <2>5, <2>6 DEF IsList
  <1>5. CASE ~IsList(u)
    <2>1. u.type \in {"signature", "script", "before", "after"} /\ LeafKinds[u] = {u.type}
      BY <1>2, <1>5, EncodedLeaf
    <2>2. CASE u.type \in {"before", "after"}
      BY <1>2, <1>3, <2>1, <2>2 DEF Met, TimeLeaves
    <2>3. CASE u.type \in {"signature", "script"}
      BY <1>3, <2>3 DEF Met
    <2> QED
      BY <2>1, <2>2, <2>3
  <1> QED
    BY <1>4, <1>5

\* No tree that passes is out of everybody's reach.
LEMMA EverybodySatisfies ==
    ASSUME NEW t \in Trees, encodeMultisigNode[t], NEW evidence,
           LeafKinds[t] \cap TimeLeaves = {},
           KeyHashes \subseteq evidence.signatories,
           "script" \in LeafKinds[t] => ScriptHashes \subseteq evidence.withdrawals
    PROVE  satisfiesMultisigTree(t, evidence)
  <1> DEFINE Reached(u) == /\ LeafKinds[u] \cap TimeLeaves = {}
                           /\ "script" \in LeafKinds[u] => ScriptHashes \subseteq evidence.withdrawals
             C == {u \in Trees : /\ encodeMultisigNode[u] /\ Reached(u)
                                 /\ ~satisfiesMultisigTree(u, evidence)}
  <1> SUFFICES ASSUME t \in C PROVE FALSE
    OBVIOUS
  <1>1. PICK u \in C : \A n \in DOMAIN Members(u) : Members(u)[n] \notin C
    <2>1. C \in SUBSET Trees /\ C # {}
      OBVIOUS
    <2> HIDE DEF C
    <2> QED
      BY <2>1, ShallowestTree
  <1>2. u \in Trees /\ encodeMultisigNode[u] /\ Reached(u) /\ ~satisfiesMultisigTree(u, evidence)
    BY <1>1
  <1>3. ~Met(u, MetMembers(u, evidence), evidence)
    BY <1>2, SatisfiedNode
  <1>4. CASE IsList(u)
    <2>1. \A n \in DOMAIN Members(u) :
             Members(u)[n] \in Trees /\ encodeMultisigNode[Members(u)[n]] /\ Reached(Members(u)[n])
      BY <1>2, <1>4, EncodedList
    <2>2. MetMembers(u, evidence) = DOMAIN u.scripts /\ DOMAIN u.scripts = 1..Len(u.scripts)
          /\ Len(u.scripts) \in Nat /\ DOMAIN u.scripts # {}
      BY <1>1, <1>2, <1>4, <2>1, EncodedList DEF MetMembers
    <2>3. CASE u.type = "all-of"
      BY <1>3, <2>2, <2>3 DEF Met
    <2>4. CASE u.type = "any-of"
      BY <1>3, <2>2, <2>4 DEF Met
    <2>5. CASE u.type = "at-least"
      <3>1. u.required <= Len(u.scripts) /\ u.required \in Int
        BY <1>2, <1>4, <2>5, EncodedList, TreesAssumption DEF ThresholdOk
      <3>2. Cardinality(1..Len(u.scripts)) = Len(u.scripts)
        <4>1. 1 \in Int /\ Len(u.scripts) \in Int
          BY <2>2
        <4> QED
          BY <2>2, <4>1, FS_Interval
      <3> QED
        BY <1>3, <2>2, <2>5, <3>1, <3>2 DEF Met
    <2> QED
      BY <1>4, <2>3, <2>4, <2>5 DEF IsList
  <1>5. CASE ~IsList(u)
    <2>1. /\ u.type \in {"signature", "script", "before", "after"} /\ LeafKinds[u] = {u.type}
          /\ u.type = "signature" => u.hash \in KeyHashes
          /\ u.type = "script" => u.hash \in ScriptHashes
      BY <1>2, <1>5, EncodedLeaf
    <2>2. u.type \in {"signature", "script"}
      BY <1>2, <2>1 DEF TimeLeaves
    <2>3. CASE u.type = "signature"
      BY <1>3, <2>1, <2>3 DEF Met
    <2>4. CASE u.type = "script"
      BY <1>2, <1>3, <2>1, <2>4 DEF Met
    <2> QED
      BY <2>2, <2>3, <2>4
  <1> QED
    BY <1>4, <1>5

\* A quorum of signature leaves that passes counts every signer once: from the
\* leaves that are met to the keys that signed there is an injection.
LEMMA QuorumCountsOnce ==
    ASSUME NEW t \in Trees, encodeMultisigNode[t], t.type = "at-least",
           \A n \in DOMAIN t.scripts : t.scripts[n].type = "signature",
           NEW s \in SUBSET KeyHashes, satisfiesMultisigTree(t, Signed(s))
    PROVE  Cardinality(s \cap {t.scripts[n].hash : n \in DOMAIN t.scripts}) >= t.required
  <1> DEFINE met == MetMembers(t, Signed(s))
             signing == s \cap {t.scripts[n].hash : n \in DOMAIN t.scripts}
             signer == [n \in met |-> t.scripts[n].hash]
  <1>1. IsList(t) /\ Members(t) = t.scripts /\ ChildrenOk(t.scripts)
        /\ \A n \in DOMAIN t.scripts : t.scripts[n] \in Trees
    BY EncodedList DEF IsList
  <1>2. Cardinality(met) >= t.required
    BY SatisfiedNode DEF Met
  <1>3. ASSUME NEW n \in met
        PROVE  /\ n \in DOMAIN t.scripts /\ t.scripts[n].hash \in s
               /\ t.scripts[n] = Signature(t.scripts[n].hash)
    <2>1. n \in DOMAIN t.scripts /\ satisfiesMultisigTree(t.scripts[n], Signed(s))
      BY <1>1, <1>3 DEF MetMembers
    <2>2. t.scripts[n].type = "signature" /\ t.scripts[n] \in Trees
      BY <1>1, <2>1
    <2>3. t.scripts[n].hash \in Signed(s).signatories
      BY <2>1, <2>2, SatisfiedNode DEF Met
    <2>4. t.scripts[n] = Signature(t.scripts[n].hash)
      BY <2>2, TreesAssumption DEF Signature
    <2> QED
      BY <2>1, <2>3, <2>4 DEF Signed, MultisigEvidence
  <1>4. signer \in Injection(met, signing)
    <2>1. signer \in [met -> signing]
      BY <1>3
    <2>2. ASSUME NEW m \in met, NEW n \in met, signer[m] = signer[n] PROVE m = n
      <3>1. t.scripts[m] = t.scripts[n] /\ m \in DOMAIN t.scripts /\ n \in DOMAIN t.scripts
        BY <1>3, <2>2
      <3> QED
        BY <1>1, <3>1 DEF ChildrenOk, IsInjective
    <2> HIDE DEF signer, met, signing
    <2> QED
      BY <2>1, <2>2 DEF Injection, IsInjective
  <1>5. IsFiniteSet(signing)
    BY SigningAssumption, FS_Subset
  <1>6. Cardinality(met) <= Cardinality(signing)
    <2> HIDE DEF signer, met, signing
    <2> QED
      BY <1>4, <1>5, FS_Injection
  <1>7. Cardinality(met) \in Nat /\ Cardinality(signing) \in Nat /\ t.required \in Int
    <2>1. IsFiniteSet(met)
      <3> HIDE DEF signer, met, signing
      <3> QED
        BY <1>4, <1>5, FS_Injection
    <2>2. Cardinality(met) \in Nat /\ Cardinality(signing) \in Nat
      <3> HIDE DEF signer, met, signing
      <3> QED
        BY <1>5, <2>1, FS_CardinalityType
    <2>3. t.required \in Int
      BY TreesAssumption
    <2> QED
      BY <2>2, <2>3
  <1> QED
    BY <1>2, <1>6, <1>7

\* More signatures and withdrawals never make a tree reject what it accepted,
\* whether it passes the encoder or not: a quorum that the preflight of
\* buildRotateMultisigTx (upgrade.ts:591) accepts is one for the ledger, whoever
\* else signs.
THEOREM MoreEvidenceSuffices ==
    ASSUME NEW t \in Trees, NEW less, NEW more,
           less.signatories \subseteq more.signatories,
           less.withdrawals \subseteq more.withdrawals,
           less.lower = more.lower, less.upper = more.upper,
           satisfiesMultisigTree(t, less)
    PROVE  satisfiesMultisigTree(t, more)
  <1> DEFINE C == {u \in Trees : satisfiesMultisigTree(u, less) /\ ~satisfiesMultisigTree(u, more)}
  <1> SUFFICES ASSUME t \in C PROVE FALSE
    OBVIOUS
  <1>1. PICK u \in C : \A n \in DOMAIN Members(u) : Members(u)[n] \notin C
    <2>1. C \in SUBSET Trees /\ C # {}
      OBVIOUS
    <2> HIDE DEF C
    <2> QED
      BY <2>1, ShallowestTree
  <1> DEFINE before == MetMembers(u, less)
             after == MetMembers(u, more)
  <1>2. u \in Trees /\ Met(u, before, less) /\ ~Met(u, after, more)
    BY <1>1, SatisfiedNode
  <1>3. before \subseteq after /\ after \subseteq DOMAIN Members(u)
    BY <1>1, MembersOfTree DEF MetMembers
  <1>4. u.type \in {"signature", "script", "before", "after", "all-of", "any-of", "at-least"}
    BY <1>2, TreesAssumption
  <1> HIDE DEF before, after
  <1>5. CASE u.type = "signature"
    BY <1>2, <1>5 DEF Met
  <1>6. CASE u.type = "script"
    BY <1>2, <1>6 DEF Met
  <1>7. CASE u.type = "before"
    BY <1>2, <1>7 DEF Met
  <1>8. CASE u.type = "after"
    BY <1>2, <1>8 DEF Met
  <1>9. CASE u.type = "all-of"
    BY <1>2, <1>3, <1>9 DEF Met, Members, IsList
  <1>10. CASE u.type = "any-of"
    BY <1>2, <1>3, <1>10 DEF Met
  <1>11. CASE u.type = "at-least"
    <2>1. IsFiniteSet(after)
      <3>1. Members(u) \in Seq(Trees)
        BY <1>2, MembersOfTree
      <3>2. DOMAIN Members(u) = 1..Len(Members(u)) /\ 1 \in Int /\ Len(Members(u)) \in Int
        BY <3>1
      <3>3. IsFiniteSet(1..Len(Members(u)))
        BY <3>2, FS_Interval
      <3> QED
        BY <1>3, <3>2, <3>3, FS_Subset
    <2>2. IsFiniteSet(before) /\ Cardinality(before) <= Cardinality(after)
      BY <1>3, <2>1, FS_Subset
    <2>3. Cardinality(before) \in Nat /\ Cardinality(after) \in Nat /\ u.required \in Int
      BY <1>2, <1>11, <2>1, <2>2, FS_CardinalityType, TreesAssumption
    <2> QED
      BY <1>2, <1>11, <2>2, <2>3 DEF Met
  <1> QED
    BY <1>4, <1>5, <1>6, <1>7, <1>8, <1>9, <1>10, <1>11

-----------------------------------------------------------------------------
(* Every step keeps the strengthening.                                     *)

\* The founding tree was let through as well.
LEMMA InitInv == Init => IInv
  BY DEF Init, IInv, TreeInv

\* A body that is sound stays so, whether its config UTxO moves or not.
LEMMA SoundStays ==
    ASSUME NEW body, Sound(body), moves \in Nat,
           \/ moves' = moves + 1
           \/ moves' = moves /\ tree' = tree
    PROVE  Sound(body)'
  BY DEF Sound, Bodies

LEMMA BuildStep ==
    ASSUME IInv, NEW t \in NewTrees, NEW s \in SUBSET KeyHashes, buildRotateMultisigTx(t, s)
    PROVE  IInv'
  <1> USE DEF buildRotateMultisigTx
  <1>1. t \in Trees
    BY SigningAssumption
  <1>2. Sound(built)'
    BY <1>1 DEF IInv, Sound, Bodies
  <1>3. sent # None => Sound(sent.body)' /\ Counted(sent)
    BY SoundStays DEF IInv
  <1> QED
    BY <1>2, <1>3 DEF IInv, TreeInv, Counted

LEMMA SignStep ==
    ASSUME IInv, NEW w \in Wallets, signTx(w)
    PROVE  IInv'
  <1> USE DEF signTx
  <1> DEFINE set == {[key |-> k, over |-> built] : k \in Holds[w] \cap Required(built)}
  <1>1. built \in Bodies
    BY DEF IInv, Sound
  <1>2. Holds[w] \subseteq KeyHashes
    BY SigningAssumption
  <1>3. set \in WitnessSets
    BY <1>1, <1>2 DEF WitnessSets
  <1>4. collected' \in Seq(WitnessSets)
    <2>1. collected' = Append(collected, set) /\ collected \in Seq(WitnessSets)
      BY DEF IInv
    <2> HIDE DEF set, signTx
    <2> QED
      BY <1>3, <2>1
  <1>5. built # None => Sound(built)'
    BY SoundStays DEF IInv
  <1>6. sent # None => Sound(sent.body)' /\ Counted(sent)
    BY SoundStays DEF IInv
  <1> QED
    BY <1>4, <1>5, <1>6 DEF IInv, TreeInv, Counted

LEMMA SubmitStep ==
    ASSUME IInv, Submit
    PROVE  IInv'
  <1> USE DEF Submit
  <1>1. PICK body : body = built
    OBVIOUS
  <1>2. sent'.body = body /\ sent'.sets = collected
    BY <1>1 DEF assembleMultiSignedTx
  <1>3. Sound(body)'
    <2>1. Sound(body)
      BY <1>1 DEF IInv
    <2> QED
      BY <2>1, SoundStays DEF IInv
  <1>4. Sound(sent.body)'
    BY <1>2, <1>3 DEF Sound
  <1>5. Counted(sent')
    BY <1>1, <1>2 DEF IInv, Counted, assertVKeyWitnessCount
  <1>6. << >> \in Seq(WitnessSets)
    OBVIOUS
  <1> QED
    BY <1>4, <1>5, <1>6 DEF IInv, TreeInv, Counted

LEMMA SettleStep ==
    ASSUME IInv, ChainSettles
    PROVE  IInv'
  <1> USE DEF ChainSettles
  <1>1. moves' = moves + 1 \/ (moves' = moves /\ tree' = tree)
    OBVIOUS
  <1>2. built # None => Sound(built)'
    BY <1>1, SoundStays DEF IInv
  <1>3. TreeInv'
    BY DEF IInv, TreeInv, Sound, Bodies
  <1>4. moves' \in Nat
    BY DEF IInv
  <1> QED
    BY <1>2, <1>3, <1>4 DEF IInv

LEMMA RotateStep ==
    ASSUME IInv, NEW t \in NewTrees, ChainRotates(t)
    PROVE  IInv'
  <1> USE DEF ChainRotates
  <1>1. moves' = moves + 1 /\ moves' \in Nat
    BY DEF IInv
  <1>2. built # None => Sound(built)'
    BY <1>1, SoundStays DEF IInv
  <1>3. sent # None => Sound(sent.body)' /\ Counted(sent)
    BY <1>1, SoundStays DEF IInv
  <1>4. TreeInv'
    BY SigningAssumption DEF TreeInv
  <1> QED
    BY <1>1, <1>2, <1>3, <1>4 DEF IInv

\* The tree that sits was let through by the encoder, and so was the one of any
\* rotation in hand, which the sitting tree accepts for as long as its config
\* UTxO is there; every witness set is of keys required of what it is made for.
THEOREM Invariance == Spec => []IInv
  <1>1. IInv /\ [Next]_vars => IInv'
    <2> SUFFICES ASSUME IInv, [Next]_vars PROVE IInv'
      OBVIOUS
    <2>1. CASE \E t \in NewTrees, s \in SUBSET KeyHashes : buildRotateMultisigTx(t, s)
      BY <2>1, BuildStep
    <2>2. CASE \E w \in Wallets : signTx(w)
      BY <2>2, SignStep
    <2>3. CASE StartOver
      <3> USE <2>3 DEF StartOver
      <3>1. << >> \in Seq(WitnessSets)
        OBVIOUS
      <3>2. built # None => Sound(built)'
        BY SoundStays DEF IInv
      <3>3. sent # None => Sound(sent.body)' /\ Counted(sent)
        BY SoundStays DEF IInv
      <3> QED
        BY <3>1, <3>2, <3>3 DEF IInv, TreeInv, Counted
    <2>4. CASE Submit
      BY <2>4, SubmitStep
    <2>5. CASE ChainSettles
      BY <2>5, SettleStep
    <2>6. CASE \E t \in NewTrees : ChainRotates(t)
      BY <2>6, RotateStep
    <2>7. CASE UNCHANGED vars
      BY <2>7 DEF vars, IInv, TreeInv, Sound, Counted
    <2> QED
      BY <2>1, <2>2, <2>3, <2>4, <2>5, <2>6, <2>7 DEF Next
  <1> QED
    BY <1>1, InitInv, PTL DEF Spec

-----------------------------------------------------------------------------
(* What the runs check.                                                    *)

\* For trees of any depth: no authority that encodeMultisigNode
\* (evo-utils.ts:1000) lets through acts on no evidence at all, and none without
\* a time leaf on a validity interval alone.
THEOREM NobodyActsAlone == Spec => []NeverPermissionless
  <1>1. IInv => NeverPermissionless
    <2> SUFFICES ASSUME IInv PROVE NeverPermissionless
      OBVIOUS
    <2> DEFINE bound == [time |-> 1, inclusive |-> TRUE]
               timed == MultisigEvidence({}, {}, bound, bound)
    <2>1. tree \in Trees /\ encodeMultisigNode[tree]
      BY DEF IInv, TreeInv, multisigScriptDatum
    <2>2. ~satisfiesMultisigTree(tree, Signed({}))
      <3>1. Signed({}).signatories = {} /\ Signed({}).withdrawals = {}
            /\ Signed({}).lower = << >> /\ Signed({}).upper = << >>
        BY DEF Signed, MultisigEvidence
      <3> QED
        BY <2>1, <3>1, NobodySatisfies
    <2>3. ASSUME LeafKinds[tree] \cap {"before", "after"} = {}
          PROVE  ~satisfiesMultisigTree(tree, timed)
      <3>1. timed.signatories = {} /\ timed.withdrawals = {}
        BY DEF MultisigEvidence
      <3>2. LeafKinds[tree] \cap TimeLeaves = {}
        BY <2>3 DEF TimeLeaves
      <3> HIDE DEF timed
      <3> QED
        BY <2>1, <3>1, <3>2, NobodySatisfies
    <2> QED
      BY <2>2, <2>3 DEF NeverPermissionless
  <1> QED
    BY <1>1, Invariance, PTL

\* For trees of any depth: every authority that encodeMultisigNode lets through
\* is within reach of all keys and scripts together, unless it has a time leaf;
\* "an authority nobody can satisfy is a permanent brick" (evo-utils.ts:993).
THEOREM SomebodyCanAct == Spec => []NeverUnsatisfiable
  <1>1. IInv => NeverUnsatisfiable
    <2> SUFFICES ASSUME IInv, LeafKinds[tree] \cap {"before", "after"} = {}
                 PROVE  satisfiesMultisigTree(tree,
                           MultisigEvidence(KeyHashes,
                               IF unsupportedLeafKinds(tree) = {} THEN {} ELSE ScriptHashes,
                               << >>, << >>))
      BY DEF NeverUnsatisfiable
    <2> DEFINE everybody == MultisigEvidence(KeyHashes,
                               IF unsupportedLeafKinds(tree) = {} THEN {} ELSE ScriptHashes,
                               << >>, << >>)
    <2>1. tree \in Trees /\ encodeMultisigNode[tree] /\ LeafKinds[tree] \cap TimeLeaves = {}
      BY DEF IInv, TreeInv, multisigScriptDatum, TimeLeaves
    <2>2. KeyHashes \subseteq everybody.signatories
      BY DEF MultisigEvidence
    <2>3. "script" \in LeafKinds[tree] => ScriptHashes \subseteq everybody.withdrawals
      BY DEF MultisigEvidence, unsupportedLeafKinds
    <2> HIDE DEF everybody
    <2>4. satisfiesMultisigTree(tree, everybody)
      BY <2>1, <2>2, <2>3, EverybodySatisfies
    <2> QED
      BY <2>4 DEF everybody
  <1> QED
    BY <1>1, Invariance, PTL

\* For quorums of any length: because encodeChildren (evo-utils.ts:1033) refuses
\* a child listed twice, as many keys have to sign as the threshold says.
THEOREM QuorumsCountPeople == Spec => []SignersCountOnce
  <1>1. IInv => SignersCountOnce
    <2>1. IInv => tree \in Trees /\ encodeMultisigNode[tree]
      BY DEF IInv, TreeInv, multisigScriptDatum
    <2> QED
      BY <2>1, QuorumCountsOnce DEF SignersCountOnce
  <1> QED
    BY <1>1, Invariance, PTL

\* If no witness is there twice and all are over the body, then as many witnesses
\* as there are keys required are one of each.
LEMMA CountedSuffices ==
    ASSUME NEW tx, Counted(tx), tx.body \in Bodies,
           \A w \in Merged(tx) : w.over = tx.body,
           \A i, j \in DOMAIN tx.sets : i # j => tx.sets[i] \cap tx.sets[j] = {}
    PROVE  Required(tx.body) \subseteq {w.key : w \in Merged(tx)}
  <1> DEFINE given == UNION {{n} \X tx.sets[n] : n \in DOMAIN tx.sets}
             signer == [g \in given |-> g[2].key]
             R == Required(tx.body)
  <1>1. IsFiniteSet(R)
    <2>1. R \in SUBSET KeyHashes
      BY SigningAssumption DEF Required, Bodies
    <2> QED
      BY <2>1, SigningAssumption, FS_Subset
  <1>2. ASSUME NEW g \in given
        PROVE  /\ g[1] \in DOMAIN tx.sets /\ g[2] \in tx.sets[g[1]] /\ g = <<g[1], g[2]>>
               /\ g[2] \in Merged(tx)
               /\ g[2] = [key |-> g[2].key, over |-> tx.body]
               /\ g[2].key \in R
    <2>1. PICK n \in DOMAIN tx.sets : g \in {n} \X tx.sets[n]
      OBVIOUS
    <2>2. g[1] = n /\ g[2] \in tx.sets[n] /\ g = <<g[1], g[2]>>
      BY <2>1
    <2>3. g[2] \in Merged(tx)
      BY <2>2 DEF Merged
    <2>4. tx.sets[n] \in WitnessSets
      BY DEF Counted
    <2>5. g[2] \in [key : KeyHashes, over : Bodies] /\ g[2].key \in Required(g[2].over)
      BY <2>2, <2>4 DEF WitnessSets
    <2>6. g[2].over = tx.body
      BY <2>3
    <2> QED
      BY <2>2, <2>3, <2>5, <2>6
  <1>3. signer \in Injection(given, R)
    <2>1. signer \in [given -> R]
      BY <1>2
    <2>2. ASSUME NEW g \in given, NEW h \in given, signer[g] = signer[h] PROVE g = h
      <3>1. g[2] = h[2]
        BY <1>2, <2>2
      <3>2. g[1] = h[1]
        <4>1. g[1] \in DOMAIN tx.sets /\ h[1] \in DOMAIN tx.sets
              /\ g[2] \in tx.sets[g[1]] /\ g[2] \in tx.sets[h[1]]
          BY <1>2, <3>1
        <4> QED
          BY <4>1
      <3> QED
        BY <1>2, <3>1, <3>2
    <2> HIDE DEF signer, given, R
    <2> QED
      BY <2>1, <2>2 DEF Injection, IsInjective
  <1>4. Cardinality(given) = Cardinality(R)
    BY DEF Counted, countVKeyWitnesses
  <1>5. signer \in Surjection(given, R)
    <2> HIDE DEF signer, given, R
    <2> QED
      BY <1>1, <1>3, <1>4, FS_Injection
  <1>6. ASSUME NEW k \in R PROVE k \in {w.key : w \in Merged(tx)}
    <2>1. PICK g \in given : signer[g] = k
      <3> HIDE DEF signer, given, R
      <3> QED
        BY <1>5 DEF Surjection
    <2> QED
      BY <1>2, <2>1
  <1> QED
    BY <1>6

\* For any number of signers and sets: what assertVKeyWitnessCount
\* (tx-utils.ts:91) lets through is refused only for a set merged twice or one
\* made for an earlier build.
THEOREM CountingSuffices == Spec => []RefusalsUnderstood
  <1>1. IInv => RefusalsUnderstood
    <2> SUFFICES ASSUME IInv, sent # None, sent.body.ref = moves,
                        \A i, j \in DOMAIN sent.sets : i # j => sent.sets[i] \cap sent.sets[j] = {},
                        \A w \in Merged(sent) : w.over = sent.body
                 PROVE  ChainValidates(sent)
      BY DEF RefusalsUnderstood
    <2>1. Sound(sent.body) /\ Counted(sent)
      BY DEF IInv
    <2>2. Required(sent.body) \subseteq {w.key : w \in Merged(sent)}
      BY <2>1, CountedSuffices DEF Sound
    <2>3. satisfiesMultisigTree(tree, Signed(sent.body.signers))
      BY <2>1 DEF Sound
    <2> QED
      BY <2>2, <2>3 DEF ChainValidates
  <1> QED
    BY <1>1, Invariance, PTL
=============================================================================
