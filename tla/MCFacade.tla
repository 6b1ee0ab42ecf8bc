------------------------------ MODULE MCFacade ------------------------------
(***************************************************************************)
(* Instances of Facade for TLC: a freeze-and-seize instance, a dummy and   *)
(* one whose blueprint is bare of publish handlers; or two                 *)
(* freeze-and-seize instances of one process.  Hashes and ids are          *)
(* scattered, so that no order they are listed in is that of the ledger.   *)
(***************************************************************************)
EXTENDS Facade

TwoDummies == {"dummy", "bare"}
OneFES == {"fesA"}
TwoFES == {"fesA", "fesB"}
Both == {"dummy", "fesA"}
None == {}

PolicyNumbers == [dummy |-> 2, fesA |-> 1, bare |-> 3]
TwoPolicies == [fesA |-> 1, fesB |-> 2]
MintingHashes == [dummy |-> 20, fesA |-> 14, bare |-> 26]
TransferHashes == [dummy |-> 4, fesA |-> 24, bare |-> 28]

TwoMintingHashes == [fesA |-> 14, fesB |-> 20]
TwoTransferHashes == [fesA |-> 24, fesB |-> 4]

Two == {1, 2}
One == {1}

MCParams == <<4, 0>>
MCCbor == <<4, 1>>
MCLogicRef == <<6, 0>>
MCThirdRef == <<6, 1>>
MCOrigin == <<4, 2>>
MCLists == [fesA |-> <<2, 0>>]
Registrations == {"register"}
TwoLists == [fesA |-> <<2, 0>>, fesB |-> <<10, 1>>]
MCTxIds == {0, 8, 14}
=============================================================================
