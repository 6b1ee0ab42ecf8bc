----------------------------- MODULE SortedList -----------------------------
(***************************************************************************)
(* The linked list that a CIP-113 deployment keeps on chain as one UTxO    *)
(* per node: a node holds its key and the key of the next node.  The       *)
(* freeze-and-seize blacklist is such a list of staking credential hashes. *)
(* Only the order of the hex strings matters, so a key is a number: 0 is   *)
(* the empty key of the origin node and MaxNext the 30-byte sentinel,      *)
(* which is above every 28-byte hash.                                      *)
(***************************************************************************)
EXTENDS Integers

CONSTANT MaxNext

ASSUME MaxNextAssumption == MaxNext \in Nat \ {0}

Keys == 1..(MaxNext - 1)
Node == [key : 0..(MaxNext - 1), next : 1..MaxNext]

Origin == [key |-> 0, next |-> MaxNext]

\* Variant: the lower bound is inclusive, so a listed key brackets itself.
BracketsItself(n, k) == n.key <= k /\ k < n.next

Brackets(n, k) == n.key < k /\ k < n.next

Covering(list, k) == {n \in list : Brackets(n, k)}

\* Variant: the new node does not take over the pointer it was split from.
SplitLosingTail(c, k) == {[c EXCEPT !.next = k], [key |-> k, next |-> MaxNext]}

\* Inserting k: the covering node now points to k, and k to its successor.
Split(c, k) == {[c EXCEPT !.next = k], [key |-> k, next |-> c.next]}

\* Variant: the two fields of the rewritten datum are swapped.
MergeSwapped(p, r) == {[key |-> r.next, next |-> p.key]}

\* Removing r, which p precedes: p takes over its pointer.
Merge(p, r) == {[p EXCEPT !.next = r.next]}

Members(list) == {n.key : n \in list} \ {0}

-----------------------------------------------------------------------------
(* A sound list gives every key exactly one verdict.                       *)

Increasing(list) == \A n \in list : n.key < n.next

\* No two nodes span a common key.
Disjoint(list) ==
    \A m, n \in list : m # n => (m.next <= n.key \/ n.next <= m.key)

\* Every key is listed or spanned by a node.
Complete(list) == \A k \in Keys : \E n \in list : n.key = k \/ Brackets(n, k)

\* Every listed key has a node that points to it.
Linked(list) == \A n \in list : n.key # 0 => \E p \in list : p.next = n.key

Sound(list) ==
    /\ Increasing(list)
    /\ Disjoint(list)
    /\ Complete(list)
    /\ Linked(list)
=============================================================================
