-------------------------- MODULE MCQuorumSigning --------------------------
(***************************************************************************)
(* An instance of QuorumSigning for TLC: every tree of two levels over     *)
(* leaves of each kind, two signers, and a wallet that holds no key.       *)
(***************************************************************************)
EXTENDS QuorumSigning

CONSTANTS k1, k2, hash, short, w1, w2, idle

MCHolds == w1 :> {k1} @@ w2 :> {k2} @@ idle :> {}

Leaves == {Signature(k1), Signature(k2), Signature(short), Script(hash), Before(1), After(1)}

Lists(members, length) ==
    LET seqs == UNION {[1..n -> members] : n \in 0..length}
    IN  UNION {{AllOf(s) : s \in seqs}, {AnyOf(s) : s \in seqs},
               {AtLeast(n, s) : n \in 0..(length + 1), s \in seqs}}

Signatures == {Signature(k1), Signature(k2)}

TwoLevels == UNION {Leaves, Lists(Leaves, 2), Lists(Signatures, 3),
                    Lists({Signature(k1), After(1)} \cup Lists(Signatures, 2), 2)}

SomeTrees == {Signature(k2), AnyOf(<<Signature(k1), Signature(k2)>>),
              AtLeast(0, <<Signature(k1)>>), AllOf(<< >>)}

Height(t) ==
    CASE ~IsList(t) -> 0
      [] IsList(t) /\ (\A n \in DOMAIN t.scripts : ~IsList(t.scripts[n])) -> 1
      [] OTHER -> 2

Heights == [t \in TwoLevels |-> Height(t)]

\* TLC evaluates a definition once, and what a constant stands for each time.
AllTrees == TwoLevels
AllDepths == Heights
=============================================================================
