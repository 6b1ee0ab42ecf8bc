------------------------- MODULE MCUpgradeLifecycle -------------------------
(***************************************************************************)
(* A small instance: two keys, the founding authority and a successor, a   *)
(* key credential that may take over, and trees for every case the         *)
(* builders tell apart.                                                    *)
(***************************************************************************)
EXTENDS UpgradeLifecycle

CONSTANTS k1, k2

T(n, s, g) == [required |-> n, signers |-> s, gate |-> g]

MCKeys == {k1, k2}
MCFounderTree == T(1, {k1}, "none")

\* One of one, two of two (dearer than the genesis deposit), both gates, two
\* trees no quorum can satisfy or any can, and one over the size limit of four.
MCTrees == {T(1, {k2}, "none"), T(2, {k1, k2}, "none"), T(1, {k1}, "and"),
            T(1, {k1}, "or"), T(2, {k1}, "none"), T(0, {k1}, "none"),
            T(2, {k1, k2}, "or")}

\* For races: the other key alone, and a tree dearer than the first deposit.
MCRaceTrees == {T(1, {k2}, "none"), T(2, {k1, k2}, "none")}

=============================================================================
