--------------------------- MODULE BootstrapProofs ---------------------------
(***************************************************************************)
(* What the load-time assertion of src/standard/scripts.ts is worth, for   *)
(* every bootstrap configuration and every record; and, for every seed     *)
(* transaction, set of trees and number of retries, that the irreversible  *)
(* step activates the authority last asked for, and that a caller that     *)
(* holds back the seeds it has not consumed never loses one; that the      *)
(* record it ends with says what the chain did, and the state keeps its    *)
(* shape.                                                                  *)
(*                                                                         *)
(* The invariants are not inductive: a transaction in flight was built by  *)
(* an earlier step, perhaps for another tree.  The strengthening says      *)
(* which seeds it may spend and which tree a genesis in flight reads; and, *)
(* as the record is written from the plan and never from the chain, what   *)
(* a transaction in flight carries of the plan.                            *)
(***************************************************************************)
EXTENDS Bootstrap, FiniteSetTheorems, TLAPS

-----------------------------------------------------------------------------
(* The assertion accepts all that a bootstrap assembles, and leaves a      *)
(* record only one way to describe what hangs off a dispatcher hash.       *)

(* A hash tells its title and its parameters apart.                        *)
LEMMA HashInjective ==
    \A t1, t2, p1, p2 : Hash(t1, p1) = Hash(t2, p2) => t1 = t2 /\ p1 = p2
BY DEF Hash

(* assembleDeploymentParams writes nothing that buildDeploymentScripts     *)
(* refuses later: every parameter a derivation starts from is the one the  *)
(* plan used.                                                              *)
THEOREM AssembledReproduces ==
    \A setup, configRef :
        assertDeploymentScripts(assembleDeploymentParams(planBootstrap(setup), configRef))
<1> SUFFICES ASSUME NEW setup, NEW configRef
             PROVE  assertDeploymentScripts(
                        assembleDeploymentParams(planBootstrap(setup), configRef))
  OBVIOUS
<1> DEFINE plan == planBootstrap(setup)
           d == assembleDeploymentParams(plan, configRef)
<1>1. /\ d.protocolParams.txInput = setup.seeds["protocolParams"]
      /\ d.protocolParams.policyId = plan.scripts.protocolParams
      /\ d.programmableLogicBase = plan.scripts.programmableLogicBase
      /\ d.transfer = plan.scripts.transfer
      /\ d.thirdParty = plan.scripts.thirdParty
      /\ d.unfracking = plan.scripts.unfracking
      /\ d.programmableLogicGlobal.scriptHash = plan.scripts.programmableLogicGlobal
      /\ d.programmableLogicGlobal.unfrackingParameter = plan.unfrackingParameter
      /\ d.maxInlineDatumBytes = setup.maxInlineDatumBytes
      /\ d.issuanceLogic = plan.scripts.issuanceLogic
      /\ d.upgradeMultisig.scriptHash = plan.scripts.upgradeMultisig
      /\ d.upgradeMultisig.txInput = setup.seeds["upgradeMultisig"]
      /\ d.issuance.txInput = setup.seeds["issuance"]
      /\ d.issuance.policyId = plan.scripts.issuanceCborHexMint
      /\ d.issuance.alwaysFailScriptHash = plan.scripts.alwaysFail
      /\ d.registry.txInput = setup.seeds["protocolParams"]
      /\ d.registry.issuanceScriptHash = plan.scripts.issuanceCborHexMint
      /\ d.registry.scriptHash = plan.scripts.registry
  BY DEF assembleDeploymentParams, planBootstrap
<1>2. /\ plan.scripts.alwaysFail = alwaysFail(setup.alwaysFailNonce)
      /\ plan.scripts.protocolParams = protocolParams(setup.seeds["protocolParams"])
      /\ plan.scripts.programmableLogicBase
             = programmableLogicBase(plan.scripts.protocolParams)
      /\ plan.scripts.issuanceCborHexMint
             = issuanceCborHexMint(setup.seeds["issuance"], plan.scripts.alwaysFail)
      /\ plan.scripts.registry
             = registry(setup.seeds["protocolParams"], plan.scripts.issuanceCborHexMint)
      /\ plan.scripts.upgradeMultisig = upgradeMultisig(setup.seeds["upgradeMultisig"])
  BY DEF planBootstrap
<1>3. /\ plan.scripts.transfer
             = transfer(plan.scripts.programmableLogicBase, plan.scripts.registry,
                        setup.maxInlineDatumBytes)
      /\ plan.scripts.thirdParty
             = thirdParty(plan.scripts.programmableLogicBase, plan.scripts.registry,
                          setup.maxInlineDatumBytes)
      /\ plan.scripts.unfracking
             = unfracking(plan.scripts.programmableLogicBase, plan.scripts.registry,
                          setup.maxInlineDatumBytes)
      /\ plan.scripts.programmableLogicGlobal
             = programmableLogicGlobal(plan.scripts.transfer, plan.scripts.thirdParty,
                                       plan.unfrackingParameter)
      /\ plan.scripts.issuanceLogic
             = issuanceLogic(plan.scripts.programmableLogicBase, plan.scripts.registry,
                             plan.scripts.protocolParams, setup.maxInlineDatumBytes)
      /\ plan.unfrackingParameter \in {plan.scripts.unfracking, UNFRACKING_DISABLED}
  BY DEF planBootstrap
<1> HIDE DEF plan, d
<1>4. \A c \in deriveDeploymentScripts(d) : c.derived = c.deployed
  BY <1>1, <1>2, <1>3 DEF deriveDeploymentScripts
<1>5. ~refuseOnUnfrackingParameter(d)
  BY <1>1, <1>3 DEF refuseOnUnfrackingParameter
<1>6. assertDeploymentScripts(d)
  BY <1>4, <1>5 DEF assertDeploymentScripts
<1> QED
  BY <1>6 DEF d, plan

(* Two records that pass assertDeploymentScripts and name the same         *)
(* dispatcher are parts of one instance: the same delegates, base, params  *)
(* seed, registry, datum limit, issuance logic and unfracking choice.  The *)
(* issuance policy and the upgrade authority are not among them: no        *)
(* comparison ties those sections to the rest of the record.               *)
THEOREM DispatcherIdentifies ==
    ASSUME NEW d, NEW e,
           assertDeploymentScripts(d), assertDeploymentScripts(e),
           d.programmableLogicGlobal.scriptHash = e.programmableLogicGlobal.scriptHash
    PROVE  /\ d.transfer = e.transfer
           /\ d.thirdParty = e.thirdParty
           /\ d.unfracking = e.unfracking
           /\ d.programmableLogicGlobal.unfrackingParameter
                  = e.programmableLogicGlobal.unfrackingParameter
           /\ d.programmableLogicBase = e.programmableLogicBase
           /\ d.maxInlineDatumBytes = e.maxInlineDatumBytes
           /\ d.protocolParams.policyId = e.protocolParams.policyId
           /\ d.protocolParams.txInput = e.protocolParams.txInput
           /\ d.registry.scriptHash = e.registry.scriptHash
           /\ d.registry.txInput = e.registry.txInput
           /\ d.issuanceLogic = e.issuanceLogic
<1> DEFINE Consistent(r) ==
        /\ r.protocolParams.policyId = protocolParams(r.protocolParams.txInput)
        /\ r.programmableLogicBase = programmableLogicBase(r.protocolParams.policyId)
        /\ r.transfer = transfer(r.programmableLogicBase, r.registry.scriptHash,
                                 r.maxInlineDatumBytes)
        /\ r.thirdParty = thirdParty(r.programmableLogicBase, r.registry.scriptHash,
                                     r.maxInlineDatumBytes)
        /\ r.unfracking = unfracking(r.programmableLogicBase, r.registry.scriptHash,
                                     r.maxInlineDatumBytes)
        /\ r.programmableLogicGlobal.scriptHash =
               programmableLogicGlobal(r.transfer, r.thirdParty,
                                       r.programmableLogicGlobal.unfrackingParameter)
        /\ r.registry.scriptHash = registry(r.registry.txInput,
                                            r.registry.issuanceScriptHash)
        /\ r.issuanceLogic = issuanceLogic(r.programmableLogicBase,
               r.registry.scriptHash, r.protocolParams.policyId, r.maxInlineDatumBytes)
<1>1. Consistent(d)
  BY DEF assertDeploymentScripts, deriveDeploymentScripts
<1>2. Consistent(e)
  BY DEF assertDeploymentScripts, deriveDeploymentScripts
<1>3. /\ d.transfer = e.transfer
      /\ d.thirdParty = e.thirdParty
      /\ d.programmableLogicGlobal.unfrackingParameter
             = e.programmableLogicGlobal.unfrackingParameter
  <2>1. <<d.transfer, d.thirdParty, d.programmableLogicGlobal.unfrackingParameter>>
          = <<e.transfer, e.thirdParty, e.programmableLogicGlobal.unfrackingParameter>>
    <3>1. programmableLogicGlobal(d.transfer, d.thirdParty,
                                  d.programmableLogicGlobal.unfrackingParameter)
            = programmableLogicGlobal(e.transfer, e.thirdParty,
                                      e.programmableLogicGlobal.unfrackingParameter)
      BY <1>1, <1>2
    <3> QED
      BY <3>1, HashInjective DEF programmableLogicGlobal
  <2> QED
    BY <2>1
<1>4. /\ d.programmableLogicBase = e.programmableLogicBase
      /\ d.registry.scriptHash = e.registry.scriptHash
      /\ d.maxInlineDatumBytes = e.maxInlineDatumBytes
  <2>1. <<d.programmableLogicBase, d.registry.scriptHash, d.maxInlineDatumBytes>>
          = <<e.programmableLogicBase, e.registry.scriptHash, e.maxInlineDatumBytes>>
    BY <1>1, <1>2, <1>3, HashInjective DEF transfer
  <2> QED
    BY <2>1
<1>5. d.protocolParams.policyId = e.protocolParams.policyId
  <2>1. <<d.protocolParams.policyId>> = <<e.protocolParams.policyId>>
    BY <1>1, <1>2, <1>4, HashInjective DEF programmableLogicBase
  <2> QED
    BY <2>1
<1>6. d.protocolParams.txInput = e.protocolParams.txInput
  <2>1. <<d.protocolParams.txInput>> = <<e.protocolParams.txInput>>
    BY <1>1, <1>2, <1>5, HashInjective DEF protocolParams
  <2> QED
    BY <2>1
<1>7. d.registry.txInput = e.registry.txInput
  <2>1. <<d.registry.txInput, d.registry.issuanceScriptHash>>
          = <<e.registry.txInput, e.registry.issuanceScriptHash>>
    BY <1>1, <1>2, <1>4, HashInjective DEF registry
  <2> QED
    BY <2>1
<1>8. d.unfracking = e.unfracking /\ d.issuanceLogic = e.issuanceLogic
  BY <1>1, <1>2, <1>4, <1>5
<1> QED
  BY <1>3, <1>4, <1>5, <1>6, <1>7, <1>8

-----------------------------------------------------------------------------
(* The steps of a bootstrap.                                               *)

SeedTx == [step |-> "seed", inputs |-> {}]

\* The steps passed are the steps seen landed.
Passed ==
    /\ caller.at \in 0..5
    /\ caller.at > 0 => "seed" \in chain.landed
    /\ caller.at > 1 => "multisig-genesis" \in chain.landed
    /\ caller.at > 3 => "protocol-genesis" \in chain.landed

\* The seed transaction is alone while it is in flight.
SeededOnce ==
    /\ caller.at = 0 => pool \subseteq {SeedTx}
    /\ \A tx \in pool : tx.step = "seed" => chain.landed = {}

VettedAsAsked ==
    caller.vetted # None \/ caller.at > 1 => caller.vetted.tree = caller.tree

GenesisReads(tx) ==
    tx.step = "protocol-genesis" => caller.at > 2 /\ tx.reads.tree = caller.tree

GenesisLast == chain.genesis # None => caller.at > 2

IInv ==
    /\ Passed /\ SeededOnce /\ VettedAsAsked /\ GenesisLast
    /\ \A tx \in pool : GenesisReads(tx)
    /\ AuthorityAsAsked

-----------------------------------------------------------------------------
(* The index of the caller is the step it is at.                           *)
LEMMA StepOfIndex ==
    /\ \A s : At(s) /\ caller.at \in 0..5 => caller.at \in 0..4
    /\ caller.at = 0 => Step = "seed"
    /\ caller.at = 1 => Step = "multisig-genesis"
    /\ caller.at = 2 => Step = "stake-registrations"
    /\ caller.at = 3 => Step = "protocol-genesis"
    /\ caller.at = 4 => Step = "reference-scripts"
BY DEF At, Step, BOOTSTRAP_STEPS

(* A transaction built by a later step than the first keeps the invariant. *)
LEMMA Sent ==
    ASSUME IInv, NEW tx, caller.at > 0, tx.step # "seed", GenesisReads(tx),
           Send(tx), UNCHANGED <<caller, unspent, config, chain, record>>
    PROVE  IInv'
<1>1. pool' = pool \cup {tx}
  BY DEF Send
<1>2. \A t \in pool' : GenesisReads(t)'
  BY <1>1 DEF IInv, GenesisReads
<1>3. SeededOnce'
  BY <1>1 DEF IInv, SeededOnce, Passed
<1> QED
  BY <1>2, <1>3 DEF IInv, Passed, VettedAsAsked, GenesisLast, AuthorityAsAsked

(* What the caller builds keeps the invariant; asking for another tree     *)
(* happens only before the gate has passed.                                *)
LEMMA BuildsKeep == ASSUME IInv, Builds PROVE IInv'
<1>1. CASE buildSeedTx
  <2>1. caller.at = 0 /\ pool' = {SeedTx} /\ chain.landed = {}
    BY <1>1, StepOfIndex DEF buildSeedTx, Send, SeedTx, IInv, Passed, At
  <2>2. UNCHANGED <<caller, unspent, config, chain, record>>
    BY <1>1 DEF buildSeedTx
  <2>3. SeededOnce' /\ \A t \in pool' : GenesisReads(t)'
    BY <2>1, <2>2 DEF SeededOnce, GenesisReads, SeedTx
  <2> QED
    BY <2>2, <2>3 DEF IInv, Passed, VettedAsAsked, GenesisLast, AuthorityAsAsked
<1>2. ASSUME NEW seed \in Outputs, NEW tree \in Trees, buildMultisigGenesisTx(seed, tree)
      PROVE  IInv'
  <2>1. caller.at = 1 /\ caller.vetted = None
    BY <1>2, StepOfIndex DEF buildMultisigGenesisTx, At, IInv, Passed
  <2>2. PICK tx : Send(tx) /\ tx.step = "multisig-genesis"
    BY <1>2 DEF buildMultisigGenesisTx
  <2>3. /\ caller'.at = caller.at /\ caller'.vetted = caller.vetted
        /\ chain' = chain /\ pool' = pool \cup {tx}
    BY <1>2, <2>2 DEF buildMultisigGenesisTx, Send, IInv
  <2> QED
    BY <2>1, <2>2, <2>3 DEF IInv, Passed, SeededOnce, VettedAsAsked, GenesisLast,
                            GenesisReads, AuthorityAsAsked
<1>3. CASE buildStakeRegistrationTx
  <2>1. caller.at = 2
    BY <1>3, StepOfIndex DEF buildStakeRegistrationTx, At, IInv, Passed
  <2>2. PICK tx : Send(tx) /\ tx.step = "stake-registrations"
    BY <1>3 DEF buildStakeRegistrationTx
  <2>3. UNCHANGED <<caller, unspent, config, chain, record>>
    BY <1>3 DEF buildStakeRegistrationTx
  <2> QED
    BY <2>1, <2>2, <2>3, Sent DEF GenesisReads
<1>4. ASSUME NEW seed \in Outputs, NEW other \in Outputs,
             buildProtocolGenesisTx(seed, other)
      PROVE  IInv'
  <2>1. caller.at = 3
    BY <1>4, StepOfIndex DEF buildProtocolGenesisTx, At, IInv, Passed
  <2>2. PICK tx : Send(tx) /\ tx.step = "protocol-genesis" /\ tx.reads = caller.vetted
    BY <1>4 DEF buildProtocolGenesisTx
  <2>3. UNCHANGED <<caller, unspent, config, chain, record>>
    BY <1>4 DEF buildProtocolGenesisTx
  <2>4. GenesisReads(tx)
    BY <2>1, <2>2 DEF GenesisReads, IInv, VettedAsAsked
  <2> QED
    BY <2>1, <2>2, <2>3, <2>4, Sent
<1>5. CASE buildReferenceScriptsTx
  <2>1. caller.at = 4
    BY <1>5, StepOfIndex DEF buildReferenceScriptsTx, At, IInv, Passed
  <2>2. PICK tx : Send(tx) /\ tx.step = "reference-scripts"
    BY <1>5 DEF buildReferenceScriptsTx
  <2>3. UNCHANGED <<caller, unspent, config, chain, record>>
    BY <1>5 DEF buildReferenceScriptsTx
  <2> QED
    BY <2>1, <2>2, <2>3, Sent DEF GenesisReads
<1> QED
  BY <1>1, <1>2, <1>3, <1>4, <1>5 DEF Builds

(* Reading the chain back: the gate passes only on the tree last asked     *)
(* for, and its answer stays in place for the steps after it.              *)
LEMMA ObservesKeep == ASSUME IInv, Observes PROVE IInv'
<1>1. CASE SelectSeeds
  <2>1. caller.at = 0 /\ caller'.at = 1 /\ "seed" \in chain.landed
    BY <1>1, StepOfIndex DEF SelectSeeds, Plans, At, IInv, Passed
  <2>2. caller'.tree = caller.tree /\ caller'.vetted = caller.vetted
    BY <1>1 DEF SelectSeeds, Plans
  <2>3. UNCHANGED <<unspent, config, chain, pool, record>>
    BY <1>1 DEF SelectSeeds, Plans
  <2>4. pool = {}
    BY <2>1 DEF IInv, SeededOnce, SeedTx
  <2> QED
    BY <2>1, <2>2, <2>3, <2>4 DEF IInv, Passed, SeededOnce, VettedAsAsked,
                                  GenesisLast, AuthorityAsAsked
<1>2. CASE VetConfig
  <2>1. /\ caller'.at = caller.at /\ caller'.tree = caller.tree
        /\ caller'.vetted.tree = caller.tree
    BY <1>2 DEF VetConfig, assertMultisigConfigUtxo, sameTree
  <2>2. UNCHANGED <<unspent, config, chain, pool, record>>
    BY <1>2 DEF VetConfig
  <2> QED
    BY <2>1, <2>2 DEF IInv, Passed, SeededOnce, VettedAsAsked, GenesisLast,
                      GenesisReads, AuthorityAsAsked
<1>3. CASE Advance
  <2>1. caller.at \in 1..4 /\ caller'.at = caller.at + 1 /\ Step \in chain.landed
    BY <1>3, StepOfIndex DEF Advance, IInv, Passed, BOOTSTRAP_STEPS
  <2>2. caller'.tree = caller.tree /\ caller'.vetted = caller.vetted
    BY <1>3 DEF Advance
  <2>3. UNCHANGED <<unspent, config, chain, pool, record>>
    BY <1>3 DEF Advance
  <2>4. caller.at = 1 => caller.vetted # None /\ Step = "multisig-genesis"
    BY <1>3, StepOfIndex DEF Advance
  <2>5. Passed'
    BY <2>1, <2>3, <2>4, StepOfIndex DEF IInv, Passed
  <2>6. VettedAsAsked'
    BY <2>1, <2>2, <2>4 DEF IInv, VettedAsAsked
  <2> QED
    BY <2>1, <2>2, <2>3, <2>5, <2>6 DEF IInv, SeededOnce, GenesisLast, GenesisReads,
                                        AuthorityAsAsked
<1>4. CASE Assemble
  BY <1>4 DEF Assemble, IInv, Passed, SeededOnce, VettedAsAsked, GenesisLast,
              GenesisReads, AuthorityAsAsked
<1> QED
  BY <1>1, <1>2, <1>3, <1>4 DEF Observes

(* Whatever lands, the genesis that does reads the tree last asked for.    *)
LEMMA SettlesKeep == ASSUME IInv, Settles PROVE IInv'
<1>1. PICK tx \in pool : ChainLands(tx) \/ ChainRefuses(tx)
  BY DEF Settles
<1>2. caller' = caller /\ pool' = pool \ {tx}
  BY <1>1 DEF ChainLands, ChainRefuses
<1>3. \A t \in pool' : GenesisReads(t)'
  BY <1>2 DEF IInv, GenesisReads
<1>4. CASE ChainLands(tx)
  <2>1. /\ chain'.landed = chain.landed \cup {tx.step}
        /\ chain.accounts \subseteq chain'.accounts
    BY <1>4 DEF ChainLands
  <2>2. ASSUME tx.step = "protocol-genesis" PROVE AuthorityAsAsked' /\ GenesisLast'
    <3>1. /\ chain'.genesis.tree = tx.reads.tree
          /\ chain'.genesis.upgradeCred \in chain'.accounts
      BY <1>4, <2>2 DEF ChainLands, ChainAccepts
    <3> QED
      BY <1>2, <2>2, <3>1 DEF IInv, GenesisReads, AuthorityAsAsked, GenesisLast
  <2>3. ASSUME tx.step # "protocol-genesis" PROVE AuthorityAsAsked' /\ GenesisLast'
    <3>1. chain'.genesis = chain.genesis
      BY <1>4, <2>3 DEF ChainLands
    <3> QED
      BY <1>2, <2>1, <3>1 DEF IInv, AuthorityAsAsked, GenesisLast
  <2>4. AuthorityAsAsked' /\ GenesisLast'
    BY <2>2, <2>3
  <2>5. SeededOnce'
    BY <1>2, <2>1 DEF IInv, SeededOnce, SeedTx, Passed
  <2> QED
    BY <1>2, <1>3, <2>1, <2>4, <2>5 DEF IInv, Passed, VettedAsAsked
<1>5. CASE ChainRefuses(tx)
  BY <1>2, <1>3, <1>5 DEF ChainRefuses, IInv, Passed, SeededOnce, VettedAsAsked,
                          GenesisLast, AuthorityAsAsked
<1> QED
  BY <1>1, <1>4, <1>5

(* A rotation or a decoy changes what the genesis may read, not what it    *)
(* was built to read.                                                      *)
LEMMA OthersKeep == ASSUME IInv, Others PROVE IInv'
<1>1. UNCHANGED <<caller, chain, pool>>
  BY DEF Others, ChainRotates, ChainParksDecoy
<1> QED
  BY <1>1 DEF IInv, Passed, SeededOnce, VettedAsAsked, GenesisLast, GenesisReads,
              AuthorityAsAsked

-----------------------------------------------------------------------------
(* The strengthening holds in every reachable state.                       *)
THEOREM Invariance == Spec => []IInv
<1>1. Init => IInv
  BY DEF Init, IInv, Passed, SeededOnce, VettedAsAsked, GenesisLast, GenesisReads,
         AuthorityAsAsked
<1>2. IInv /\ [Next]_vars => IInv'
  <2> SUFFICES ASSUME IInv, [Next]_vars PROVE IInv'
    OBVIOUS
  <2>1. CASE Next
    BY <2>1, BuildsKeep, ObservesKeep, SettlesKeep, OthersKeep DEF Next
  <2>2. CASE UNCHANGED vars
    BY <2>2 DEF vars, IInv, Passed, SeededOnce, VettedAsAsked, GenesisLast,
                GenesisReads, AuthorityAsAsked
  <2> QED
    BY <2>1, <2>2
<1> QED
  BY <1>1, <1>2, PTL DEF Spec

(* The irreversible genesis of src/standard/bootstrap.ts activates the     *)
(* authority last asked for, with an account to withdraw from, whatever    *)
(* the caller retried and whoever rotated or parked at the address: the    *)
(* gate passes on no other tree, and the ledger on no other output.        *)
THEOREM AuthorityStaysAsAsked == Spec => []AuthorityAsAsked
BY Invariance, PTL DEF IInv

-----------------------------------------------------------------------------
(* Seeds.  What a transaction in flight may spend, in the words of the     *)
(* notes on BootstrapBuildContext: "Exclude the seeds you have not         *)
(* consumed yet".                                                          *)

ReservesCover ==
    {"protocolParams", "issuance"}
        \subseteq Reserves["multisig-genesis"] \cap Reserves["stake-registrations"]

Landed(step) == step \in chain.landed

SeedsDistinct == caller.at > 0 => requireSeeds(caller.plan.config.seeds)

Takes(tx) ==
    caller.at > 0 =>
        /\ Seed("upgradeMultisig") \in tx.inputs =>
               tx.step = "multisig-genesis" \/ Landed("multisig-genesis")
        /\ \A role \in {"protocolParams", "issuance"} :
               Seed(role) \in tx.inputs =>
                   tx.step = "protocol-genesis" \/ Landed("protocol-genesis")

SInv ==
    /\ SeedsDistinct /\ SeedsKept
    /\ \A tx \in pool : Takes(tx)

LEMMA PlansItsConfig == \A c : planBootstrap(c).config = c
BY DEF planBootstrap

(* A step built after the first takes only the seeds it consumes.          *)
LEMMA BuildsTake ==
    ASSUME IInv, SInv, ReservesCover, Builds
    PROVE  /\ caller'.at = caller.at /\ caller'.plan = caller.plan
           /\ UNCHANGED <<unspent, chain>>
           /\ \E tx : pool' = pool \cup {tx} /\ Takes(tx)
<1> USE DEF Send
<1>1. CASE buildSeedTx
  <2>1. caller.at = 0
    BY <1>1, StepOfIndex DEF buildSeedTx, At, IInv, Passed
  <2>2. Takes(SeedTx)
    BY <2>1 DEF Takes
  <2> QED
    BY <1>1, <2>2 DEF buildSeedTx, SeedTx
<1>2. ASSUME NEW seed \in Outputs, NEW tree \in Trees, buildMultisigGenesisTx(seed, tree)
      PROVE  /\ caller'.at = caller.at /\ caller'.plan = caller.plan
             /\ UNCHANGED <<unspent, chain>>
             /\ \E tx : pool' = pool \cup {tx} /\ Takes(tx)
  <2>1. caller.at = 1
    BY <1>2, StepOfIndex DEF buildMultisigGenesisTx, At, IInv, Passed
  <2>2. /\ caller'.at = caller.at /\ caller'.plan = caller.plan
        /\ UNCHANGED <<unspent, chain>>
    BY <1>2 DEF buildMultisigGenesisTx
  <2>3. PICK fee \in Fees("multisig-genesis") :
            Send([step |-> "multisig-genesis",
                  inputs |-> {Seed("upgradeMultisig")} \cup fee,
                  policy |-> Policy, tree |-> tree])
    BY <1>2 DEF buildMultisigGenesisTx, requireSeedMatches
  <2>4. \A role \in {"protocolParams", "issuance"} :
            Seed(role) \notin fee /\ Seed(role) # Seed("upgradeMultisig")
    BY <2>1, <2>3 DEF Fees, Spendable, ReservesCover, SInv, SeedsDistinct,
                      requireSeeds, Roles, Seed
  <2> DEFINE tx == [step |-> "multisig-genesis",
                    inputs |-> {Seed("upgradeMultisig")} \cup fee,
                    policy |-> Policy, tree |-> tree]
  <2>5. Takes(tx)
    BY <2>4 DEF Takes
  <2> QED
    BY <2>2, <2>3, <2>5
<1>3. CASE buildStakeRegistrationTx
  <2>1. caller.at = 2
    BY <1>3, StepOfIndex DEF buildStakeRegistrationTx, At, IInv, Passed
  <2>2. Landed("multisig-genesis")
    BY <2>1 DEF IInv, Passed, Landed
  <2>3. PICK tx : /\ tx.inputs \in Fees("stake-registrations")
                  /\ pool' = pool \cup {tx}
    BY <1>3 DEF buildStakeRegistrationTx
  <2>4. Takes(tx)
    BY <2>2, <2>3 DEF Takes, Fees, Spendable, ReservesCover
  <2> QED
    BY <1>3, <2>3, <2>4 DEF buildStakeRegistrationTx
<1>4. ASSUME NEW seed \in Outputs, NEW other \in Outputs,
             buildProtocolGenesisTx(seed, other)
      PROVE  /\ caller'.at = caller.at /\ caller'.plan = caller.plan
             /\ UNCHANGED <<unspent, chain>>
             /\ \E tx : pool' = pool \cup {tx} /\ Takes(tx)
  <2>1. caller.at = 3
    BY <1>4, StepOfIndex DEF buildProtocolGenesisTx, At, IInv, Passed
  <2>2. PICK tx : tx.step = "protocol-genesis" /\ pool' = pool \cup {tx}
    BY <1>4 DEF buildProtocolGenesisTx
  <2>3. Takes(tx)
    BY <2>1, <2>2 DEF Takes, IInv, Passed, Landed
  <2> QED
    BY <1>4, <2>2, <2>3 DEF buildProtocolGenesisTx
<1>5. CASE buildReferenceScriptsTx
  <2>1. caller.at = 4
    BY <1>5, StepOfIndex DEF buildReferenceScriptsTx, At, IInv, Passed
  <2>2. PICK tx : pool' = pool \cup {tx}
    BY <1>5 DEF buildReferenceScriptsTx
  <2>3. Takes(tx)
    BY <2>1 DEF Takes, IInv, Passed, Landed
  <2> QED
    BY <1>5, <2>2, <2>3 DEF buildReferenceScriptsTx
<1> QED
  BY <1>1, <1>2, <1>3, <1>4, <1>5 DEF Builds

(* The plan is made from seeds the wallet still holds, with nothing in     *)
(* flight that could spend them.                                           *)
LEMMA PlanKeepsSeeds == ASSUME IInv, SInv, SelectSeeds PROVE SInv'
<1>1. PICK view \in SUBSET unspent, options \in Options :
         \E seeds \in selectBootstrapSeeds(view) : Plans(view, seeds, options)
  BY DEF SelectSeeds
<1>2. PICK seeds \in selectBootstrapSeeds(view) : Plans(view, seeds, options)
  BY <1>1
<1>3. \A role \in Roles : seeds[role] \in unspent
  BY <1>1, <1>2 DEF selectBootstrapSeeds, Roles
<1>4. requireSeeds(seeds) /\ "seed" \in chain.landed /\ UNCHANGED <<unspent, chain, pool>>
  BY <1>2 DEF Plans
<1>5. caller'.plan.config.seeds = seeds
  <2> DEFINE c == [seeds |-> seeds, alwaysFailNonce |-> options.alwaysFailNonce,
                   maxInlineDatumBytes |-> options.maxInlineDatumBytes,
                   unfracking |-> options.unfracking]
  <2>1. caller'.plan = planBootstrap(c)
    BY <1>2 DEF Plans
  <2> QED
    BY <2>1, PlansItsConfig
<1>6. pool' = {}
  <2>1. caller.at = 0
    BY <1>2, StepOfIndex DEF Plans, At, IInv, Passed
  <2> QED
    BY <2>1, <1>4 DEF IInv, SeededOnce, SeedTx
<1> QED
  BY <1>3, <1>4, <1>5, <1>6 DEF SInv, SeedsDistinct, SeedsKept, Seed, Roles

(* What lands either consumes a seed at its step or leaves it alone.       *)
LEMMA LandingKeepsSeeds ==
    ASSUME IInv, SInv, NEW tx \in pool, ChainLands(tx)
    PROVE  SInv'
<1>1. /\ caller' = caller /\ pool' = pool \ {tx}
      /\ chain'.landed = chain.landed \cup {tx.step}
  BY DEF ChainLands
<1>2. (\A t \in pool' : Takes(t)') /\ SeedsDistinct'
  BY <1>1 DEF SInv, Takes, Landed, Seed, SeedsDistinct
<1>3. SeedsKept'
  <2> SUFFICES ASSUME caller.at > 0 PROVE SeedsKept'
    BY <1>1 DEF SeedsKept
  <2>1. unspent' = unspent \ tx.inputs
    BY DEF ChainLands, IInv, SeededOnce, Passed
  <2> QED
    BY <1>1, <2>1 DEF SInv, Takes, SeedsKept, Landed, Seed
<1> QED
  BY <1>2, <1>3 DEF SInv

(* The notes of BootstrapBuildContext are enough: a caller that holds back *)
(* the protocolParams and issuance seeds in the second and third step      *)
(* never loses a seed, whatever coin selection adds and whatever is built  *)
(* again.                                                                  *)
THEOREM HeldBackSeedsAreKept == ReservesCover => (Spec => []SeedsKept)
<1> SUFFICES ASSUME ReservesCover PROVE Spec => []SeedsKept
  OBVIOUS
<1>1. Init => SInv
  BY DEF Init, SInv, SeedsDistinct, SeedsKept
<1>2. IInv /\ SInv /\ [Next]_vars => SInv'
  <2> SUFFICES ASSUME IInv, SInv, [Next]_vars PROVE SInv'
    OBVIOUS
  <2>1. CASE Builds
    BY <2>1, BuildsTake DEF SInv, SeedsDistinct, SeedsKept, Takes, Landed, Seed
  <2>2. CASE SelectSeeds
    BY <2>2, PlanKeepsSeeds
  <2>3. ASSUME caller'.at > 0 => caller.at > 0,
               caller'.plan = caller.plan, UNCHANGED <<unspent, chain, pool>>
        PROVE  SInv'
    BY <2>3 DEF SInv, SeedsDistinct, SeedsKept, Takes, Landed, Seed
  <2>4. CASE VetConfig \/ Advance \/ Assemble
    <3>1. ASSUME VetConfig PROVE caller'.at = caller.at /\ caller'.plan = caller.plan
      BY <3>1 DEF VetConfig
    <3>2. ASSUME Advance PROVE caller.at > 0 /\ caller'.plan = caller.plan
      BY <3>2 DEF Advance
    <3>3. ASSUME Assemble PROVE caller' = caller
      BY <3>3 DEF Assemble
    <3>4. UNCHANGED <<unspent, chain, pool>>
      BY <2>4 DEF VetConfig, Advance, Assemble
    <3>5. (caller'.at > 0 => caller.at > 0) /\ caller'.plan = caller.plan
      BY <2>4, <3>1, <3>2, <3>3
    <3> QED
      BY <2>3, <3>4, <3>5
  <2>5. CASE Settles
    <3>1. ASSUME NEW tx \in pool, ChainRefuses(tx) PROVE SInv'
      BY <3>1 DEF ChainRefuses, SInv, SeedsDistinct, SeedsKept, Takes, Landed, Seed
    <3> QED
      BY <2>5, <3>1, LandingKeepsSeeds DEF Settles
  <2>6. CASE Others
    BY <2>3, <2>6 DEF Others, ChainRotates, ChainParksDecoy
  <2>7. CASE UNCHANGED vars
    BY <2>3, <2>7 DEF vars
  <2> QED
    BY <2>1, <2>2, <2>4, <2>5, <2>6, <2>7 DEF Next, Observes
<1>3. SInv => SeedsKept
  BY DEF SInv
<1> QED
  BY <1>1, <1>2, <1>3, Invariance, PTL DEF Spec

-----------------------------------------------------------------------------
(* The record says what the chain did.                                     *)

Planned == caller.at > 0 => \E c : caller.plan = planBootstrap(c)

VettedIsConfig ==
    caller.vetted # None \/ caller.at > 1 => caller.at > 0 /\ caller.vetted.policy = Policy

LandedInOrder ==
    /\ caller.at = 0 => chain.landed \subseteq {"seed"}
    /\ caller.at > 4 => "reference-scripts" \in chain.landed

AuthoritySeedSpent ==
    caller.at > 0 /\ "multisig-genesis" \in chain.landed => Seed("upgradeMultisig") \notin unspent

GenesisSpends(inputs) == {Seed("protocolParams"), Seed("issuance")} \subseteq inputs

ScriptsAsPlanned(scripts) ==
    \A name \in Named(REFERENCE_SCRIPT_ORDER) :
        scripts[refIdx(name) + 1] = caller.plan.scripts[name]

\* What a transaction in flight carries of the plan.
Carries(tx) ==
    /\ tx.step = "multisig-genesis" => tx.policy = Policy
    /\ tx.step = "protocol-genesis" =>
           /\ GenesisSpends(tx.inputs)
           /\ tx.upgradeCred = Policy
           /\ tx.outputs[1] = caller.plan.scripts.protocolParams
    /\ tx.step = "reference-scripts" => ScriptsAsPlanned(tx.scripts)

GenesisAsPlanned ==
    "protocol-genesis" \in chain.landed =>
        /\ GenesisSpends(chain.genesis.spent)
        /\ Seed("upgradeMultisig") \notin chain.genesis.spent
        /\ chain.genesis.upgradeCred = Policy
        /\ chain.genesis.outputs[1] = caller.plan.scripts.protocolParams

ScriptsLanded == "reference-scripts" \in chain.landed => ScriptsAsPlanned(chain.scripts)

Recorded ==
    record # None =>
        /\ caller.at = 5
        /\ record = assembleDeploymentParams(caller.plan, caller.vetted)

RInv ==
    /\ Planned /\ VettedIsConfig /\ LandedInOrder /\ AuthoritySeedSpent
    /\ \A tx \in pool : Carries(tx)
    /\ GenesisAsPlanned /\ ScriptsLanded /\ Recorded

-----------------------------------------------------------------------------
(* The policy of the authority mints where its seed is spent.              *)
LEMMA PolicyOfSeed ==
    ASSUME Planned, caller.at > 0, NEW tx, ChainMints(Policy, tx)
    PROVE  Seed("upgradeMultisig") \in tx.inputs
<1>1. PICK c : caller.plan = planBootstrap(c)
  BY DEF Planned
<1>2. Policy = upgradeMultisig(c.seeds["upgradeMultisig"]) /\ caller.plan.config = c
  BY <1>1 DEF Policy, planBootstrap
<1>3. Policy.params[1] = c.seeds["upgradeMultisig"]
  BY <1>2 DEF upgradeMultisig, Hash
<1> QED
  BY <1>2, <1>3 DEF ChainMints, Seed

(* A step built over the plan leaves everything else as it is.             *)
LEMMA SentCarries ==
    ASSUME RInv, NEW tx, Carries(tx), pool' = pool \cup {tx},
           UNCHANGED <<unspent, config, chain, record>>,
           caller'.at = caller.at, caller'.plan = caller.plan,
           caller'.vetted = caller.vetted
    PROVE  RInv'
<1>1. \A t \in pool' : Carries(t)'
  BY DEF RInv, Carries, Policy, Seed, GenesisSpends, ScriptsAsPlanned
<1>2. Planned' /\ VettedIsConfig' /\ LandedInOrder' /\ AuthoritySeedSpent'
  BY DEF RInv, Planned, VettedIsConfig, LandedInOrder, AuthoritySeedSpent, Policy, Seed
<1>3. GenesisAsPlanned' /\ ScriptsLanded' /\ Recorded'
  BY DEF RInv, GenesisAsPlanned, ScriptsLanded, Recorded, Policy, Seed, GenesisSpends,
         ScriptsAsPlanned
<1> QED
  BY <1>1, <1>2, <1>3 DEF RInv

(* The positions of the record are those of the order it publishes in.     *)
LEMMA PublishedInOrder ==
    ASSUME NEW scripts
    PROVE  \A name \in Named(REFERENCE_SCRIPT_ORDER) :
               [i \in DOMAIN REFERENCE_SCRIPT_ORDER |->
                   scripts[REFERENCE_SCRIPT_ORDER[i]]][refIdx(name) + 1] = scripts[name]
<1> SUFFICES ASSUME NEW name \in Named(REFERENCE_SCRIPT_ORDER)
             PROVE  [i \in DOMAIN REFERENCE_SCRIPT_ORDER |->
                   scripts[REFERENCE_SCRIPT_ORDER[i]]][refIdx(name) + 1] = scripts[name]
  OBVIOUS
<1>1. DOMAIN REFERENCE_SCRIPT_ORDER = 1..7
  BY DEF REFERENCE_SCRIPT_ORDER
<1>2. \E i \in 1..7 : REFERENCE_SCRIPT_ORDER[i] = name
  BY <1>1 DEF Named
<1> DEFINE n == CHOOSE i \in 1..7 : REFERENCE_SCRIPT_ORDER[i] = name
<1>3. n \in 1..7 /\ REFERENCE_SCRIPT_ORDER[n] = name
  BY <1>2
<1>4. refIdx(name) + 1 = n
  <2>1. refIdx(name) = n - 1
    BY DEF refIdx
  <2> QED
    BY <1>3, <2>1
<1> HIDE DEF n
<1> QED
  BY <1>1, <1>3, <1>4

LEMMA BuildsCarry == ASSUME IInv, RInv, Builds PROVE RInv'
<1>1. CASE buildSeedTx
  <2>1. Carries(SeedTx) /\ pool' = pool \cup {SeedTx}
    BY <1>1 DEF buildSeedTx, Send, SeedTx, Carries
  <2> QED
    BY <1>1, <2>1, SentCarries DEF buildSeedTx
<1>2. ASSUME NEW seed \in Outputs, NEW tree \in Trees, buildMultisigGenesisTx(seed, tree)
      PROVE  RInv'
  <2>1. PICK tx : Send(tx) /\ tx.step = "multisig-genesis" /\ tx.policy = Policy
    BY <1>2 DEF buildMultisigGenesisTx
  <2>2. /\ caller'.at = caller.at /\ caller'.plan = caller.plan
        /\ caller'.vetted = caller.vetted
    BY <1>2 DEF buildMultisigGenesisTx
  <2> QED
    BY <1>2, <2>1, <2>2, SentCarries DEF buildMultisigGenesisTx, Send, Carries
<1>3. CASE buildStakeRegistrationTx
  <2>1. PICK tx : Send(tx) /\ tx.step = "stake-registrations"
    BY <1>3 DEF buildStakeRegistrationTx
  <2> QED
    BY <1>3, <2>1, SentCarries DEF buildStakeRegistrationTx, Send, Carries
<1>4. ASSUME NEW seed \in Outputs, NEW other \in Outputs,
             buildProtocolGenesisTx(seed, other)
      PROVE  RInv'
  <2>1. PICK tx :
          /\ Send(tx) /\ tx.step = "protocol-genesis"
          /\ {seed, other} \subseteq tx.inputs
          /\ tx.upgradeCred = Policy
          /\ tx.outputs[1] = caller.plan.scripts.protocolParams
    BY <1>4 DEF buildProtocolGenesisTx
  <2>2. Carries(tx)
    BY <1>4, <2>1 DEF buildProtocolGenesisTx, requireSeedMatches, Carries, GenesisSpends
  <2> QED
    BY <1>4, <2>1, <2>2, SentCarries DEF buildProtocolGenesisTx, Send
<1>5. CASE buildReferenceScriptsTx
  <2>1. PICK tx :
          /\ Send(tx) /\ tx.step = "reference-scripts"
          /\ tx.scripts = [i \in DOMAIN REFERENCE_SCRIPT_ORDER |->
                               caller.plan.scripts[REFERENCE_SCRIPT_ORDER[i]]]
    BY <1>5 DEF buildReferenceScriptsTx
  <2>2. Carries(tx)
    BY <2>1, PublishedInOrder DEF Carries, ScriptsAsPlanned
  <2> QED
    BY <1>5, <2>1, <2>2, SentCarries DEF buildReferenceScriptsTx, Send
<1> QED
  BY <1>1, <1>2, <1>3, <1>4, <1>5 DEF Builds

(* The plan is made while nothing but the seed transaction has landed, and *)
(* is not touched again.                                                   *)
LEMMA ObservesCarry == ASSUME IInv, RInv, Observes PROVE RInv'
<1>1. CASE SelectSeeds
  <2>1. PICK c : caller' = [caller EXCEPT !.at = 1, !.plan = planBootstrap(c)]
    BY <1>1 DEF SelectSeeds, Plans
  <2>2. caller.at = 0 /\ UNCHANGED <<unspent, config, chain, pool, record>>
    BY <1>1, StepOfIndex DEF SelectSeeds, Plans, At, IInv, Passed
  <2>3. pool' \subseteq {SeedTx} /\ chain'.landed \subseteq {"seed"} /\ record' = None
    BY <2>2 DEF IInv, SeededOnce, RInv, LandedInOrder, Recorded
  <2>4. caller.vetted = None
    BY <2>2 DEF RInv, VettedIsConfig
  <2>5. Planned' /\ VettedIsConfig'
    BY <2>1, <2>2, <2>4 DEF Planned, VettedIsConfig, RInv
  <2>6. LandedInOrder' /\ AuthoritySeedSpent' /\ GenesisAsPlanned' /\ ScriptsLanded'
    BY <2>1, <2>3 DEF LandedInOrder, AuthoritySeedSpent, GenesisAsPlanned, ScriptsLanded
  <2> QED
    BY <2>3, <2>5, <2>6 DEF RInv, Carries, SeedTx, Recorded
<1>2. CASE VetConfig
  <2>1. PICK utxo \in config :
          assertMultisigConfigUtxo(utxo) /\ caller' = [caller EXCEPT !.vetted = utxo]
    BY <1>2 DEF VetConfig
  <2>2. utxo.policy = Policy
    BY <2>1 DEF assertMultisigConfigUtxo, Candidates
  <2>3. caller.at \in {1, 3}
    BY <1>2, StepOfIndex DEF VetConfig, At, IInv, Passed
  <2>4. UNCHANGED <<unspent, config, chain, pool, record>>
    BY <1>2 DEF VetConfig
  <2>5. record = None
    BY <2>3 DEF RInv, Recorded
  <2>6. /\ caller'.at = caller.at /\ caller'.plan = caller.plan
        /\ caller.at \in {1, 3} /\ caller'.vetted.policy = Policy
    BY <2>1, <2>2, <2>3 DEF RInv
  <2>7. Planned' /\ VettedIsConfig' /\ LandedInOrder' /\ AuthoritySeedSpent' /\ Recorded'
    BY <2>4, <2>5, <2>6 DEF RInv, Planned, VettedIsConfig, LandedInOrder,
                            AuthoritySeedSpent, Recorded, Policy, Seed
  <2> QED
    BY <2>4, <2>6, <2>7 DEF RInv, Carries, GenesisAsPlanned, ScriptsLanded, Policy, Seed,
                            GenesisSpends, ScriptsAsPlanned
<1>3. CASE Advance
  <2>1. caller.at \in 1..4 /\ caller'.at = caller.at + 1 /\ Step \in chain.landed
    BY <1>3, StepOfIndex DEF Advance, IInv, Passed, BOOTSTRAP_STEPS
  <2>2. caller'.plan = caller.plan /\ caller'.vetted = caller.vetted
    BY <1>3 DEF Advance
  <2>3. UNCHANGED <<unspent, config, chain, pool, record>>
    BY <1>3 DEF Advance
  <2>4. caller.at = 1 => caller.vetted # None
    BY <1>3, StepOfIndex DEF Advance
  <2>5. VettedIsConfig' /\ LandedInOrder' /\ Recorded'
    BY <2>1, <2>2, <2>3, <2>4, StepOfIndex
       DEF RInv, VettedIsConfig, LandedInOrder, Recorded, Policy
  <2> QED
    BY <2>1, <2>2, <2>3, <2>5 DEF RInv, Planned, AuthoritySeedSpent, Carries,
       GenesisAsPlanned, ScriptsLanded, Policy, Seed, GenesisSpends, ScriptsAsPlanned
<1>4. CASE Assemble
  <2>1. caller.at = 5 /\ UNCHANGED <<caller, unspent, config, chain, pool>>
    BY <1>4 DEF Assemble, BOOTSTRAP_STEPS
  <2>2. Recorded'
    BY <1>4, <2>1 DEF Assemble, Recorded
  <2> QED
    BY <2>1, <2>2 DEF RInv, Planned, VettedIsConfig, LandedInOrder, AuthoritySeedSpent,
       Carries, GenesisAsPlanned, ScriptsLanded, Policy, Seed, GenesisSpends, ScriptsAsPlanned
<1> QED
  BY <1>1, <1>2, <1>3, <1>4 DEF Observes

(* What lands carries the plan to the chain; the genesis cannot spend the  *)
(* seed of the authority, which is gone by then.                           *)
LEMMA LandingCarries ==
    ASSUME IInv, RInv, NEW tx \in pool, ChainLands(tx)
    PROVE  RInv'
<1>1. caller' = caller /\ record' = record /\ pool' = pool \ {tx}
  BY DEF ChainLands
<1>2. Carries(tx) /\ GenesisReads(tx)
  BY DEF RInv, IInv
<1>3. chain'.landed = chain.landed \cup {tx.step} /\ tx.inputs \subseteq unspent
  BY DEF ChainLands, ChainAccepts
<1>4. Planned' /\ VettedIsConfig' /\ Recorded' /\ \A t \in pool' : Carries(t)'
  BY <1>1 DEF RInv, Planned, VettedIsConfig, Recorded, Carries, Policy, Seed,
              GenesisSpends, ScriptsAsPlanned
<1>5. LandedInOrder'
  BY <1>1, <1>3 DEF RInv, LandedInOrder, IInv, SeededOnce, SeedTx
<1>6. AuthoritySeedSpent'
  <2> SUFFICES ASSUME caller.at > 0, "multisig-genesis" \in chain'.landed
               PROVE  Seed("upgradeMultisig") \notin unspent'
    BY <1>1 DEF AuthoritySeedSpent, Seed
  <2>1. tx.step # "seed" /\ unspent' = unspent \ tx.inputs
    BY DEF IInv, Passed, SeededOnce, ChainLands
  <2>2. CASE tx.step = "multisig-genesis"
    <3>1. ChainMints(Policy, tx)
      BY <1>2, <2>2 DEF ChainLands, ChainAccepts, Carries
    <3> QED
      BY <2>1, <3>1, PolicyOfSeed DEF RInv
  <2>3. CASE tx.step # "multisig-genesis"
    BY <1>3, <2>1, <2>3 DEF RInv, AuthoritySeedSpent
  <2> QED
    BY <2>2, <2>3
<1>7. GenesisAsPlanned'
  <2>1. CASE tx.step = "protocol-genesis"
    <3>1. caller.at > 2 /\ "multisig-genesis" \in chain.landed
      BY <1>2, <2>1 DEF GenesisReads, IInv, Passed
    <3>2. Seed("upgradeMultisig") \notin tx.inputs
      BY <1>3, <3>1 DEF RInv, AuthoritySeedSpent, IInv, Passed
    <3>3. /\ chain'.genesis.spent = tx.inputs /\ chain'.genesis.outputs = tx.outputs
          /\ chain'.genesis.upgradeCred = tx.upgradeCred
      BY <2>1 DEF ChainLands
    <3> QED
      BY <1>1, <1>2, <2>1, <3>2, <3>3 DEF GenesisAsPlanned, Carries, GenesisSpends, Seed, Policy
  <2>2. CASE tx.step # "protocol-genesis"
    <3>1. chain'.genesis = chain.genesis
      BY <2>2 DEF ChainLands
    <3> QED
      BY <1>1, <1>3, <2>2, <3>1 DEF RInv, GenesisAsPlanned, GenesisSpends, Seed, Policy
  <2> QED
    BY <2>1, <2>2
<1>8. ScriptsLanded'
  <2>1. chain'.scripts = IF tx.step = "reference-scripts" THEN tx.scripts ELSE chain.scripts
    BY DEF ChainLands
  <2> QED
    BY <1>1, <1>2, <1>3, <2>1 DEF RInv, ScriptsLanded, Carries, ScriptsAsPlanned
<1> QED
  BY <1>4, <1>5, <1>6, <1>7, <1>8 DEF RInv

(* A refusal, a rotation and a decoy touch nothing of this.                *)
LEMMA RestKeeps ==
    ASSUME RInv, UNCHANGED <<caller, unspent, chain, record>>, pool' \subseteq pool
    PROVE  RInv'
BY DEF RInv, Planned, VettedIsConfig, LandedInOrder, AuthoritySeedSpent, Carries,
       GenesisAsPlanned, ScriptsLanded, Recorded, Policy, Seed, GenesisSpends,
       ScriptsAsPlanned

LEMMA RecordInvariance == Spec => []RInv
<1>1. Init => RInv
  BY DEF Init, RInv, Planned, VettedIsConfig, LandedInOrder, AuthoritySeedSpent,
         GenesisAsPlanned, ScriptsLanded, Recorded
<1>2. IInv /\ RInv /\ [Next]_vars => RInv'
  <2> SUFFICES ASSUME IInv, RInv, [Next]_vars PROVE RInv'
    OBVIOUS
  <2>1. CASE Settles
    <3>1. PICK tx \in pool : ChainLands(tx) \/ ChainRefuses(tx)
      BY <2>1 DEF Settles
    <3> QED
      BY <3>1, LandingCarries, RestKeeps DEF ChainRefuses
  <2>2. CASE Others
    BY <2>2, RestKeeps DEF Others, ChainRotates, ChainParksDecoy
  <2>3. CASE UNCHANGED vars
    BY <2>3, RestKeeps DEF vars
  <2> QED
    BY <2>1, <2>2, <2>3, BuildsCarry, ObservesCarry DEF Next
<1> QED
  BY <1>1, <1>2, Invariance, PTL DEF Spec

(* The record that assembleDeploymentParams writes at the end of a         *)
(* bootstrap, however often its steps were retried, passes the assertion   *)
(* made when it is loaded and says what the chain did: which outputs the   *)
(* genesis consumed, which credential it activated, and where each script  *)
(* was published.                                                          *)
THEOREM RecordStaysTrue == Spec => []RecordTrue
<1>1. ASSUME IInv, RInv PROVE RecordTrue
  <2> SUFFICES ASSUME record # None PROVE RecordTrue
    BY DEF RecordTrue
  <2>1. caller.at = 5 /\ record = assembleDeploymentParams(caller.plan, caller.vetted)
    BY <1>1 DEF RInv, Recorded
  <2>2. assertDeploymentScripts(record)
    BY <1>1, <2>1, AssembledReproduces DEF RInv, Planned
  <2>3. /\ "multisig-genesis" \in chain.landed /\ "protocol-genesis" \in chain.landed
        /\ "reference-scripts" \in chain.landed
    BY <1>1, <2>1 DEF IInv, Passed, RInv, LandedInOrder
  <2>4. /\ record.protocolParams.txInput = Seed("protocolParams")
        /\ record.issuance.txInput = Seed("issuance")
        /\ record.upgradeMultisig.txInput = Seed("upgradeMultisig")
        /\ record.upgradeMultisig.utxo = caller.vetted
        /\ record.upgradeMultisig.scriptHash = Policy
        /\ record.upgradeAuthority = Policy
        /\ record.protocolParams.utxo + 1 = 1
        /\ record.protocolParams.policyId = caller.plan.scripts.protocolParams
    BY <2>1 DEF assembleDeploymentParams, Seed, Policy
  <2>5. \A name \in DOMAIN record.refInput :
            chain.scripts[record.refInput[name] + 1] = caller.plan.scripts[name]
    <3>1. record.refInput = [n \in Named(REFERENCE_SCRIPT_ORDER) |-> refIdx(n)]
      BY <2>1 DEF assembleDeploymentParams
    <3>2. ScriptsAsPlanned(chain.scripts)
      BY <1>1, <2>3 DEF RInv, ScriptsLanded
    <3> QED
      BY <3>1, <3>2 DEF ScriptsAsPlanned
  <2>6. caller.vetted.policy = Policy /\ Seed("upgradeMultisig") \notin unspent
    BY <1>1, <2>1, <2>3 DEF RInv, VettedIsConfig, AuthoritySeedSpent
  <2>7. /\ GenesisSpends(chain.genesis.spent)
        /\ Seed("upgradeMultisig") \notin chain.genesis.spent
        /\ chain.genesis.upgradeCred = Policy
        /\ chain.genesis.outputs[1] = caller.plan.scripts.protocolParams
    BY <1>1, <2>3 DEF RInv, GenesisAsPlanned
  <2> QED
    BY <2>2, <2>4, <2>5, <2>6, <2>7 DEF RecordTrue, GenesisSpends
<1> QED
  BY <1>1, Invariance, RecordInvariance, PTL

-----------------------------------------------------------------------------
(* The shape of the state.  It needs what a multisig genesis in flight     *)
(* carries, and that a tree was asked for before the gate can pass, or the *)
(* gate might take an output without the config NFT.                       *)

TreeAskedFor ==
    /\ \A tx \in pool : tx.step = "multisig-genesis" => tx.tree \in Trees /\ caller.tree \in Trees
    /\ "multisig-genesis" \in chain.landed => caller.tree \in Trees

PoolTyped ==
    /\ \A tx \in pool : tx.step \in Steps /\ tx.inputs \subseteq Outputs
    /\ IsFiniteSet(pool) /\ Cardinality(pool) <= MaxPool

CallerTyped ==
    /\ "tree" \in DOMAIN caller
    /\ caller.at = 0 \/ caller.plan.config \in BootstrapConfig
    /\ caller.tree \in Trees \cup {None}
    /\ caller.vetted = None \/ caller.vetted \in ConfigUtxo

ChainTyped ==
    /\ unspent \subseteq Outputs
    /\ config \subseteq ConfigUtxo \cup {Decoy}
    /\ caller.at = 0 => config = {}
    /\ chain.landed \subseteq Steps

TInv == TreeAskedFor /\ PoolTyped /\ CallerTyped /\ ChainTyped

LEMMA SendingTyped ==
    ASSUME PoolTyped, NEW tx, Send(tx), tx.step \in Steps, tx.inputs \subseteq Outputs
    PROVE  PoolTyped'
<1>1. pool' = pool \cup {tx} /\ Cardinality(pool) < MaxPool
  BY DEF Send
<1>2. /\ IsFiniteSet(pool') /\ Cardinality(pool) \in Nat
      /\ Cardinality(pool') \in {Cardinality(pool), Cardinality(pool) + 1}
  BY <1>1, FS_AddElement, FS_CardinalityType DEF PoolTyped
<1>3. MaxPool \in Nat
  BY BootstrapAssumption
<1>4. Cardinality(pool') <= MaxPool
  BY <1>1, <1>2, <1>3
<1>5. \A t \in pool' : t.step \in Steps /\ t.inputs \subseteq Outputs
  BY <1>1 DEF PoolTyped
<1> QED
  BY <1>2, <1>4, <1>5 DEF PoolTyped

LEMMA LeavingTyped ==
    ASSUME PoolTyped, NEW tx, pool' = pool \ {tx}
    PROVE  PoolTyped'
<1>1. /\ IsFiniteSet(pool') /\ Cardinality(pool') <= Cardinality(pool)
      /\ Cardinality(pool') \in Nat /\ Cardinality(pool) \in Nat
  BY FS_Subset, FS_CardinalityType DEF PoolTyped
<1>2. MaxPool \in Nat
  BY BootstrapAssumption
<1> QED
  BY <1>1, <1>2 DEF PoolTyped

LEMMA BuildsTyped == ASSUME IInv, TInv, Builds PROVE TInv'
<1>1. CASE buildSeedTx
  <2>1. Send(SeedTx) /\ UNCHANGED <<caller, unspent, config, chain>>
    BY <1>1 DEF buildSeedTx, SeedTx
  <2>2. PoolTyped'
    BY <2>1, SendingTyped DEF TInv, SeedTx, Steps
  <2> QED
    BY <2>1, <2>2 DEF TInv, TreeAskedFor, CallerTyped, ChainTyped, ConfigUtxo, Policy,
                      Send, SeedTx
<1>2. ASSUME NEW seed \in Outputs, NEW tree \in Trees, buildMultisigGenesisTx(seed, tree)
      PROVE  TInv'
  <2>1. PICK fee \in Fees("multisig-genesis") :
          Send([step |-> "multisig-genesis", inputs |-> {seed} \cup fee,
                policy |-> Policy, tree |-> tree])
    BY <1>2 DEF buildMultisigGenesisTx
  <2> DEFINE tx == [step |-> "multisig-genesis", inputs |-> {seed} \cup fee,
                    policy |-> Policy, tree |-> tree]
  <2>2. tx.inputs \subseteq Outputs
    BY DEF Fees, Spendable, TInv, ChainTyped
  <2>3. PoolTyped'
    BY <2>1, <2>2, SendingTyped DEF TInv, Steps
  <2>4. /\ caller'.at = caller.at /\ caller'.plan = caller.plan
        /\ caller'.vetted = caller.vetted /\ UNCHANGED <<unspent, config, chain>>
        /\ pool' = pool \cup {tx}
    BY <1>2, <2>1 DEF buildMultisigGenesisTx, Send
  <2>5. caller'.tree = tree /\ "tree" \in DOMAIN caller'
    BY <1>2 DEF buildMultisigGenesisTx, TInv, CallerTyped
  <2> QED
    BY <2>3, <2>4, <2>5 DEF TInv, TreeAskedFor, CallerTyped, ChainTyped, ConfigUtxo, Policy
<1>3. ASSUME buildStakeRegistrationTx \/ buildReferenceScriptsTx \/
             \E seed, other \in Outputs : buildProtocolGenesisTx(seed, other)
      PROVE  TInv'
  <2>1. UNCHANGED <<caller, unspent, config, chain>>
    BY <1>3 DEF buildStakeRegistrationTx, buildReferenceScriptsTx, buildProtocolGenesisTx
  <2>2. PICK tx : /\ Send(tx) /\ tx.step \in Steps \ {"multisig-genesis"}
                  /\ tx.inputs \subseteq Outputs
    <3>1. unspent \subseteq Outputs
      BY DEF TInv, ChainTyped
    <3>2. CASE buildStakeRegistrationTx
      BY <3>1, <3>2 DEF buildStakeRegistrationTx, Fees, Spendable, Steps
    <3>3. CASE buildReferenceScriptsTx
      BY <3>1, <3>3 DEF buildReferenceScriptsTx, Fees, Spendable, Steps
    <3>4. CASE \E seed, other \in Outputs : buildProtocolGenesisTx(seed, other)
      BY <3>1, <3>4 DEF buildProtocolGenesisTx, Fees, Spendable, Steps
    <3> QED
      BY <1>3, <3>2, <3>3, <3>4
  <2>3. PoolTyped' /\ pool' = pool \cup {tx}
    BY <2>2, SendingTyped DEF TInv, Send
  <2> QED
    BY <2>1, <2>2, <2>3 DEF TInv, TreeAskedFor, CallerTyped, ChainTyped, ConfigUtxo, Policy
<1> QED
  BY <1>1, <1>2, <1>3 DEF Builds

LEMMA ObservesTyped == ASSUME IInv, RInv, TInv, Observes PROVE TInv'
<1>1. CASE SelectSeeds
  <2>0. PICK view \in SUBSET unspent, options \in Options :
          \E seeds \in selectBootstrapSeeds(view) : Plans(view, seeds, options)
    BY <1>1 DEF SelectSeeds
  <2>1. PICK seeds \in selectBootstrapSeeds(view) : Plans(view, seeds, options)
    BY <2>0
  <2> DEFINE c == [seeds |-> seeds, alwaysFailNonce |-> options.alwaysFailNonce,
                   maxInlineDatumBytes |-> options.maxInlineDatumBytes,
                   unfracking |-> options.unfracking]
  <2>2. caller' = [caller EXCEPT !.at = 1, !.plan = planBootstrap(c)]
    BY <2>1 DEF Plans
  <2>3. caller.at = 0 /\ UNCHANGED <<unspent, config, chain, pool>>
    BY <2>1, StepOfIndex DEF Plans, At, IInv, Passed
  <2>4. seeds \in [Roles -> OutRefs]
    <3>1. PICK i \in DOMAIN SeedOutputs, j \in DOMAIN SeedOutputs, k \in DOMAIN SeedOutputs :
            seeds = [protocolParams |-> SeedOutputs[i], issuance |-> SeedOutputs[j],
                     upgradeMultisig |-> SeedOutputs[k]]
      BY DEF selectBootstrapSeeds
    <3>2. SeedOutputs[i] \in OutRefs /\ SeedOutputs[j] \in OutRefs /\ SeedOutputs[k] \in OutRefs
      BY BootstrapAssumption
    <3> QED
      BY <3>1, <3>2 DEF Roles
  <2>5. c \in BootstrapConfig
    BY <2>4 DEF BootstrapConfig, Options
  <2>6. planBootstrap(c).config = c
    BY PlansItsConfig
  <2>7. caller.vetted = None /\ config = {}
    BY <2>3 DEF RInv, VettedIsConfig, TInv, ChainTyped
  <2> HIDE DEF c
  <2>8. /\ caller'.tree = caller.tree /\ caller'.vetted = None
        /\ "tree" \in DOMAIN caller'
    BY <2>2, <2>7 DEF TInv, CallerTyped
  <2>9. caller'.at = 0 \/ caller'.plan.config \in BootstrapConfig
    BY <2>2, <2>3, <2>5, <2>6 DEF TInv, CallerTyped
  <2> QED
    BY <2>3, <2>7, <2>8, <2>9 DEF TInv, TreeAskedFor, PoolTyped, CallerTyped, ChainTyped
<1>2. CASE VetConfig
  <2>1. PICK utxo \in config :
          assertMultisigConfigUtxo(utxo) /\ caller' = [caller EXCEPT !.vetted = utxo]
    BY <1>2 DEF VetConfig
  <2>2. utxo.tree = caller.tree /\ caller.tree \in Trees
    BY <1>2, <2>1 DEF VetConfig, assertMultisigConfigUtxo, sameTree, TInv, TreeAskedFor
  <2>3. utxo \in ConfigUtxo
    BY <2>2, BootstrapAssumption DEF TInv, ChainTyped, Decoy
  <2>4. UNCHANGED <<unspent, config, chain, pool>>
    BY <1>2 DEF VetConfig
  <2>5. /\ caller'.at = caller.at /\ caller'.plan = caller.plan /\ caller'.tree = caller.tree
        /\ caller'.vetted \in {utxo, caller.vetted} /\ "tree" \in DOMAIN caller'
    BY <2>1 DEF TInv, CallerTyped
  <2> QED
    BY <2>3, <2>4, <2>5 DEF TInv, TreeAskedFor, PoolTyped, CallerTyped, ChainTyped, ConfigUtxo,
                            Policy
<1>3. CASE Advance
  <2>1. /\ caller.at > 0 /\ caller.at \in 0..5
        /\ caller'.at = caller.at + 1 \/ caller'.at = caller.at
        /\ caller'.plan = caller.plan /\ caller'.tree = caller.tree
        /\ caller'.vetted = caller.vetted /\ "tree" \in DOMAIN caller'
    BY <1>3 DEF Advance, IInv, Passed, TInv, CallerTyped
  <2>2. UNCHANGED <<unspent, config, chain, pool>>
    BY <1>3 DEF Advance
  <2> QED
    BY <2>1, <2>2 DEF TInv, TreeAskedFor, PoolTyped, CallerTyped, ChainTyped, ConfigUtxo, Policy
<1>4. CASE Assemble
  BY <1>4 DEF Assemble, TInv, TreeAskedFor, PoolTyped, CallerTyped, ChainTyped, ConfigUtxo,
              Policy
<1> QED
  BY <1>1, <1>2, <1>3, <1>4 DEF Observes

LEMMA SettlesTyped == ASSUME IInv, RInv, TInv, Settles PROVE TInv'
<1>1. PICK tx \in pool : ChainLands(tx) \/ ChainRefuses(tx)
  BY DEF Settles
<1>2. caller' = caller /\ pool' = pool \ {tx} /\ PoolTyped'
  BY <1>1, LeavingTyped DEF ChainLands, ChainRefuses, TInv
<1>3. CASE ChainRefuses(tx)
  BY <1>2, <1>3 DEF ChainRefuses, TInv, TreeAskedFor, CallerTyped, ChainTyped, ConfigUtxo,
                    Policy
<1>4. CASE ChainLands(tx)
  <2>1. chain'.landed = chain.landed \cup {tx.step} /\ tx.step \in Steps
    BY <1>4 DEF ChainLands, TInv, PoolTyped
  <2>2. unspent' \subseteq Outputs
    BY <1>4 DEF ChainLands, TInv, ChainTyped
  <2>3. config' \subseteq ConfigUtxo \cup {Decoy} /\ (caller.at = 0 => config' = {})
    <3>1. CASE tx.step = "multisig-genesis"
      <4>1. config' = config \cup {[policy |-> tx.policy, tree |-> tx.tree, moves |-> 0]}
        BY <1>4, <3>1 DEF ChainLands
      <4>2. tx.policy = Policy /\ tx.tree \in Trees
        BY <3>1 DEF RInv, Carries, TInv, TreeAskedFor
      <4>3. 0 \in 0..MaxRotations
        BY BootstrapAssumption
      <4>4. [policy |-> tx.policy, tree |-> tx.tree, moves |-> 0] \in ConfigUtxo
        BY <4>2, <4>3 DEF ConfigUtxo
      <4>5. caller.at # 0
        BY <3>1 DEF IInv, SeededOnce, SeedTx
      <4> QED
        BY <4>1, <4>4, <4>5 DEF TInv, ChainTyped
    <3>2. CASE tx.step # "multisig-genesis"
      BY <1>4, <3>2 DEF ChainLands, TInv, ChainTyped
    <3> QED
      BY <3>1, <3>2
  <2>4. ConfigUtxo' = ConfigUtxo /\ CallerTyped'
    BY <1>2 DEF ConfigUtxo, Policy, TInv, CallerTyped
  <2>5. TreeAskedFor'
    BY <1>2, <2>1 DEF TInv, TreeAskedFor
  <2>6. ChainTyped'
    BY <1>2, <2>1, <2>2, <2>3, <2>4 DEF TInv, ChainTyped, Decoy
  <2> QED
    BY <1>2, <2>4, <2>5, <2>6 DEF TInv
<1> QED
  BY <1>1, <1>3, <1>4

LEMMA OthersTyped == ASSUME IInv, TInv, Others PROVE TInv'
<1>1. UNCHANGED <<caller, unspent, chain, pool>>
  BY DEF Others, ChainRotates, ChainParksDecoy
<1>2. config' \subseteq ConfigUtxo \cup {Decoy} /\ (caller.at = 0 => config' = {})
  <2>1. ASSUME NEW utxo \in config, NEW tree \in Trees, ChainRotates(utxo, tree)
        PROVE  config' \subseteq ConfigUtxo \cup {Decoy} /\ caller.at # 0
    <3>1. utxo \in ConfigUtxo /\ utxo.moves < MaxRotations
      BY <2>1 DEF ChainRotates, TInv, ChainTyped, Decoy
    <3>2. utxo.moves + 1 \in 0..MaxRotations
      BY <3>1, BootstrapAssumption DEF ConfigUtxo
    <3>3. [utxo EXCEPT !.tree = tree, !.moves = @ + 1] \in ConfigUtxo
      BY <3>1, <3>2 DEF ConfigUtxo
    <3> QED
      BY <2>1, <3>3 DEF ChainRotates, TInv, ChainTyped
  <2>2. CASE caller.at > 0 /\ ChainParksDecoy
    BY <2>2 DEF ChainParksDecoy, Decoy, TInv, ChainTyped
  <2> QED
    BY <2>1, <2>2 DEF Others
<1> QED
  BY <1>1, <1>2 DEF TInv, TreeAskedFor, PoolTyped, CallerTyped, ChainTyped, ConfigUtxo, Policy,
                    Decoy

(* Every state of a bootstrap keeps its shape: what the gate returned      *)
(* carries the config NFT under a tree somebody could ask for, the plan is *)
(* that of a configuration, and no transaction spends an output that the   *)
(* seed transaction did not make.                                          *)
THEOREM BootstrapTypeCorrect == Spec => []TypeOK
<1>1. Init => TInv
  BY FS_EmptySet, BootstrapAssumption
     DEF Init, TInv, TreeAskedFor, PoolTyped, CallerTyped, ChainTyped
<1>2. IInv /\ RInv /\ TInv /\ [Next]_vars => TInv'
  <2> SUFFICES ASSUME IInv, RInv, TInv, [Next]_vars PROVE TInv'
    OBVIOUS
  <2>1. CASE UNCHANGED vars
    BY <2>1 DEF vars, TInv, TreeAskedFor, PoolTyped, CallerTyped, ChainTyped, ConfigUtxo,
                Policy, Decoy
  <2> QED
    BY <2>1, BuildsTyped, ObservesTyped, SettlesTyped, OthersTyped DEF Next
<1>3. IInv /\ TInv => TypeOK
  BY DEF IInv, Passed, TInv, PoolTyped, CallerTyped, ChainTyped, TypeOK, BOOTSTRAP_STEPS
<1> QED
  BY <1>1, <1>2, <1>3, Invariance, RecordInvariance, PTL DEF Spec
=============================================================================
