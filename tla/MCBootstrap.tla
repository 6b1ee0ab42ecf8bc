---------------------------- MODULE MCBootstrap ----------------------------
(***************************************************************************)
(* Instances of Bootstrap for TLC.                                         *)
(***************************************************************************)
EXTENDS Bootstrap

CONSTANTS o0, o1, o2, o3, k1, k2

FourOutputs == <<o0, o1, o2, o3>>
AllOutputs == {o0, o1, o2, o3}
TwoTrees == {{k1}, {k1, k2}}

\* What the notes of BootstrapBuildContext ask for: the seeds not consumed yet.
DocumentedReserves ==
    [step \in Steps |->
        CASE step = "multisig-genesis"    -> {"protocolParams", "issuance"}
          [] step = "stake-registrations" -> {"protocolParams", "issuance"}
          [] OTHER                        -> {}]

\* What test/harness/bootstrap.ts passes: spendable() in steps 3 to 5.
HarnessReserves ==
    [step \in Steps |->
        IF step = "multisig-genesis" THEN {"protocolParams", "issuance"} ELSE {}]
=============================================================================
