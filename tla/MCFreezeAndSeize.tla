-------------------------- MODULE MCFreezeAndSeize --------------------------
(***************************************************************************)
(* Instances of FreezeAndSeize for TLC.                                    *)
(***************************************************************************)
EXTENDS FreezeAndSeize

TwoHolders == {1, 2}
FourHolders == 1..4

OneToken == {1}
TwoTokens == {1, 2}
ThreeTokens == 1..3
=============================================================================
