------------------------------ MODULE Bootstrap ------------------------------
(***************************************************************************)
(* Standing up a protocol instance: the five transactions that a caller    *)
(* builds with src/standard/bootstrap.ts, the gate before the irreversible *)
(* one, and the deployment record assembled at the end.                    *)
(*                                                                         *)
(* The caller is the one the module is written for, test/harness/          *)
(* bootstrap.ts: it drives the steps in order and moves on once it has     *)
(* seen one land.  It may give up waiting and build a step again, with     *)
(* another authority tree too, while the first transaction is in flight.   *)
(*                                                                         *)
(* Names beginning with Chain are the ledger and the validators, external  *)
(* to the SDK and modelled from what its builders rely on.                 *)
(***************************************************************************)
EXTENDS Deployment, FiniteSets

CONSTANTS
    SeedOutputs,    \* outputs of the seed transaction by index, change last
    Trees,          \* authority trees: any one of these keys decides
    None,
    Reserves,       \* roles whose seed is kept out of a step's spendable UTxOs
    MaxPool,        \* bound: transactions in flight
    MaxRotations    \* bound: rotations of the config UTxO

BOOTSTRAP_SEED_COUNT == 3

\* Variant: the sequence of 0.11, with the registrations last.
BOOTSTRAP_STEPS_0_11 ==
    <<"seed", "multisig-genesis", "protocol-genesis", "reference-scripts",
      "stake-registrations">>

BOOTSTRAP_STEPS ==
    <<"seed", "multisig-genesis", "stake-registrations", "protocol-genesis",
      "reference-scripts">>

Steps == {"seed", "multisig-genesis", "stake-registrations", "protocol-genesis",
          "reference-scripts"}

ASSUME BootstrapAssumption ==
    /\ SeedOutputs \in Seq(OutRefs) /\ Len(SeedOutputs) = BOOTSTRAP_SEED_COUNT + 1
    /\ \A i, j \in DOMAIN SeedOutputs : i # j => SeedOutputs[i] # SeedOutputs[j]
    /\ Reserves \in [Steps -> SUBSET Roles]
    /\ \A tree \in Trees : tree # {}
    /\ None \notin Trees
    /\ MaxPool \in Nat \ {0} /\ MaxRotations \in Nat

VARIABLES
    caller,    \* [at, plan, tree, vetted]: steps seen landed, the plan, the
               \* tree last asked for, and the config UTxO the gate returned
    unspent,   \* outputs of the seed transaction in the wallet
    config,    \* UTxOs at the address of upgrade_multisig
    chain,     \* [landed, accounts, genesis, scripts]
    pool,      \* transactions in flight
    record     \* the deployment record, None until assembled

vars == <<caller, unspent, config, chain, pool, record>>

Outputs == {SeedOutputs[i] : i \in DOMAIN SeedOutputs}
Step == BOOTSTRAP_STEPS[caller.at + 1]
At(step) == caller.at < Len(BOOTSTRAP_STEPS) /\ Step = step
Seed(role) == caller.plan.config.seeds[role]
Policy == caller.plan.scripts.upgradeMultisig

-----------------------------------------------------------------------------
(* Building a step.  What an action asks of caller is the caller's doing,  *)
(* its order of the steps; everything else is the builder's.               *)

Send(tx) ==
    /\ Cardinality(pool) < MaxPool
    /\ pool' = pool \cup {tx}

\* Variant: nothing is held back.
SpendableAll(step) == unspent

\* The wallet without the seeds that later steps need; there are always
\* other wallet UTxOs in it.
Spendable(step) ==
    unspent \ {Seed(role) : role \in Reserves[step]}

\* What coin selection adds to the named inputs: anything it was shown.
Fees(step) == SUBSET Spendable(step)

\* A new seed transaction would start over with other outputs, so it is
\* built once.
buildSeedTx ==
    /\ At("seed")
    /\ pool = {} /\ chain.landed = {}
    /\ Send([step |-> "seed", inputs |-> {}])
    /\ UNCHANGED <<caller, unspent, config, chain, record>>

\* The three lowest outputs of the indexer's view, which may lag: no answer
\* where it shows fewer.
selectBootstrapSeeds(view) ==
    LET mine == {i \in DOMAIN SeedOutputs : SeedOutputs[i] \in view}
        three == {t \in mine \X mine \X mine :
                     /\ t[1] < t[2] /\ t[2] < t[3]
                     /\ \A i \in mine : i < t[3] => i \in {t[1], t[2]}}
    IN  {[protocolParams |-> SeedOutputs[t[1]], issuance |-> SeedOutputs[t[2]],
          upgradeMultisig |-> SeedOutputs[t[3]]] : t \in three}

Plans(view, seeds, options) ==
    /\ At("seed") /\ "seed" \in chain.landed
    /\ seeds \in selectBootstrapSeeds(view)
    /\ requireSeeds(seeds)
    /\ caller' = [caller EXCEPT
            !.at = 1,
            !.plan = planBootstrap([seeds |-> seeds,
                                    alwaysFailNonce |-> options.alwaysFailNonce,
                                    maxInlineDatumBytes |-> options.maxInlineDatumBytes,
                                    unfracking |-> options.unfracking])]
    /\ UNCHANGED <<unspent, config, chain, pool, record>>

\* The seed passed in has to be the one the plan was derived from; whether
\* it is still unspent is not looked at.
requireSeedMatches(utxo, role) == utxo = Seed(role)

buildMultisigGenesisTx(seedUtxo, upgradeMultisigTree) ==
    /\ At("multisig-genesis") /\ caller.vetted = None
    /\ requireSeedMatches(seedUtxo, "upgradeMultisig")
    /\ \E fee \in Fees("multisig-genesis") :
           Send([step |-> "multisig-genesis",
                 inputs |-> {seedUtxo} \cup fee,
                 policy |-> Policy, tree |-> upgradeMultisigTree])
    /\ caller' = [caller EXCEPT !.tree = upgradeMultisigTree]
    /\ UNCHANGED <<unspent, config, chain, record>>

\* Variant: the datum is not compared with what was asked for.
anyTree(a, b) == TRUE

sameTree(a, b) == a = b

\* The config UTxO is recognised by policy, next to whatever was parked at
\* the address; the gate passes on exactly one with the tree asked for.
Candidates == {utxo \in config : utxo.policy = Policy}

\* Variant: takes anything at the address.
AnyAtAddress(utxo) == utxo \in config

assertMultisigConfigUtxo(utxo) ==
    /\ Candidates = {utxo}
    /\ sameTree(utxo.tree, caller.tree)

VetConfig ==
    /\ At("multisig-genesis") \/ At("protocol-genesis")
    /\ "multisig-genesis" \in chain.landed
    /\ \E utxo \in config :
         /\ assertMultisigConfigUtxo(utxo)
         /\ caller' = [caller EXCEPT !.vetted = utxo]
    /\ UNCHANGED <<unspent, config, chain, pool, record>>

buildStakeRegistrationTx ==
    /\ At("stake-registrations")
    /\ \E fee \in Fees("stake-registrations") :
           Send([step |-> "stake-registrations", inputs |-> fee,
                 creds |-> {caller.plan.scripts[n] : n \in Named(STAKE_REGISTRATION_ORDER)}])
    /\ UNCHANGED <<caller, unspent, config, chain, record>>

\* The caller names a signer of the tree it asked for; the builder adds it
\* unchecked, and takes any UTxO at the address for the config.
buildProtocolGenesisTx(protocolParamsSeedUtxo, issuanceSeedUtxo) ==
    /\ At("protocol-genesis")
    /\ requireSeedMatches(protocolParamsSeedUtxo, "protocolParams")
    /\ requireSeedMatches(issuanceSeedUtxo, "issuance")
    /\ \E fee \in Fees("protocol-genesis"), signer \in caller.tree :
           Send([step |-> "protocol-genesis",
                 inputs |-> {protocolParamsSeedUtxo, issuanceSeedUtxo} \cup fee,
                 reads |-> caller.vetted,
                 withdraws |-> Policy,
                 signer |-> signer,
                 upgradeCred |-> Policy,
                 outputs |-> <<caller.plan.scripts.protocolParams,
                               caller.plan.scripts.registry,
                               caller.plan.scripts.issuanceCborHexMint>>])
    /\ UNCHANGED <<caller, unspent, config, chain, record>>

buildReferenceScriptsTx ==
    /\ At("reference-scripts")
    /\ \E fee \in Fees("reference-scripts") :
           Send([step |-> "reference-scripts", inputs |-> fee,
                 scripts |-> [i \in DOMAIN REFERENCE_SCRIPT_ORDER |->
                                 caller.plan.scripts[REFERENCE_SCRIPT_ORDER[i]]]])
    /\ UNCHANGED <<caller, unspent, config, chain, record>>

\* The step was seen to land; after the second one the gate has to pass.
Advance ==
    /\ caller.at > 0
    /\ caller.at < Len(BOOTSTRAP_STEPS) /\ Step \in chain.landed
    /\ Step = "multisig-genesis" => caller.vetted # None
    /\ caller' = [caller EXCEPT !.at = @ + 1]
    /\ UNCHANGED <<unspent, config, chain, pool, record>>

Assemble ==
    /\ caller.at = Len(BOOTSTRAP_STEPS) /\ record = None
    /\ record' = assembleDeploymentParams(caller.plan, caller.vetted)
    /\ UNCHANGED <<caller, unspent, config, chain, pool>>

-----------------------------------------------------------------------------
(* The ledger.                                                             *)

\* A one-shot policy mints only where the output it names is spent.
ChainMints(policy, tx) == policy.params[1] \in tx.inputs

ChainAccepts(tx) ==
    /\ tx.inputs \subseteq unspent
    /\ tx.step = "multisig-genesis" => ChainMints(tx.policy, tx)
    /\ tx.step = "stake-registrations" => tx.creds \cap chain.accounts = {}
    /\ tx.step = "protocol-genesis" =>
           /\ tx.reads \in config
           /\ tx.reads.policy = tx.upgradeCred
           /\ tx.withdraws = tx.upgradeCred
           /\ tx.upgradeCred \in chain.accounts
           /\ tx.signer \in tx.reads.tree
           /\ \A i \in DOMAIN tx.outputs : ChainMints(tx.outputs[i], tx)

ChainLands(tx) ==
    /\ ChainAccepts(tx)
    /\ pool' = pool \ {tx}
    /\ unspent' = IF tx.step = "seed" THEN Outputs ELSE unspent \ tx.inputs
    /\ config' = IF tx.step = "multisig-genesis"
                 THEN config \cup {[policy |-> tx.policy, tree |-> tx.tree, moves |-> 0]}
                 ELSE config
    /\ chain' = [landed |-> chain.landed \cup {tx.step},
                 accounts |-> IF tx.step = "stake-registrations"
                              THEN chain.accounts \cup tx.creds ELSE chain.accounts,
                 genesis |-> IF tx.step = "protocol-genesis"
                             THEN [outputs |-> tx.outputs, spent |-> tx.inputs,
                                   upgradeCred |-> tx.upgradeCred, tree |-> tx.reads.tree]
                             ELSE chain.genesis,
                 scripts |-> IF tx.step = "reference-scripts" THEN tx.scripts
                             ELSE chain.scripts]
    /\ UNCHANGED <<caller, record>>

\* A transaction the ledger will not take any more leaves the mempool.
ChainRefuses(tx) ==
    /\ ~ChainAccepts(tx)
    /\ pool' = pool \ {tx}
    /\ UNCHANGED <<caller, unspent, config, chain, record>>

\* Whoever satisfies the tree rotates it.
ChainRotates(utxo, tree) ==
    /\ utxo.policy # None /\ utxo.moves < MaxRotations
    /\ config' = (config \ {utxo}) \cup
                     {[utxo EXCEPT !.tree = tree, !.moves = @ + 1]}
    /\ UNCHANGED <<caller, unspent, chain, pool, record>>

\* Anyone may pay to the address; such an output never carries the NFT.
ChainParksDecoy ==
    /\ \A utxo \in config : utxo.policy # None
    /\ config' = config \cup {[policy |-> None, tree |-> None, moves |-> 0]}
    /\ UNCHANGED <<caller, unspent, chain, pool, record>>
-----------------------------------------------------------------------------

Init ==
    /\ caller = [at |-> 0, plan |-> None, tree |-> None, vetted |-> None]
    /\ unspent = {}
    /\ config = {}
    /\ chain = [landed |-> {}, accounts |-> {}, genesis |-> None, scripts |-> <<>>]
    /\ pool = {}
    /\ record = None

Options == [alwaysFailNonce : Nonces, maxInlineDatumBytes : InlineDatumLimits,
            unfracking : {"enabled", "disabled"}]

Builds ==
    \/ buildSeedTx
    \/ \E seed \in Outputs, tree \in Trees : buildMultisigGenesisTx(seed, tree)
    \/ buildStakeRegistrationTx
    \/ \E seed, other \in Outputs : buildProtocolGenesisTx(seed, other)
    \/ buildReferenceScriptsTx

SelectSeeds ==
    \E view \in SUBSET unspent, options \in Options :
        \E seeds \in selectBootstrapSeeds(view) : Plans(view, seeds, options)

Observes == SelectSeeds \/ VetConfig \/ Advance \/ Assemble

Settles == \E tx \in pool : ChainLands(tx) \/ ChainRefuses(tx)

Others ==
    \/ \E utxo \in config, tree \in Trees : ChainRotates(utxo, tree)
    \/ caller.at > 0 /\ ChainParksDecoy

Next == Builds \/ Observes \/ Settles \/ Others

Spec == Init /\ [][Next]_vars

\* test/harness/bootstrap.ts is one sequential program that awaits every
\* transaction: it goes on building, reading and vetting for as long as it
\* can, and what is in the mempool is settled.
FairSpec ==
    /\ Spec
    /\ WF_vars(Builds) /\ WF_vars(SelectSeeds) /\ WF_vars(VetConfig)
    /\ WF_vars(Advance) /\ WF_vars(Assemble) /\ WF_vars(Settles)

-----------------------------------------------------------------------------
(* Properties.                                                             *)

ConfigUtxo == [policy : {Policy}, tree : Trees, moves : 0..MaxRotations]
Decoy == [policy |-> None, tree |-> None, moves |-> 0]

\* The shape of the state; what the gate returns carries the config NFT.
TypeOK ==
    /\ caller.at \in 0..Len(BOOTSTRAP_STEPS)
    /\ caller.at = 0 \/ caller.plan.config \in BootstrapConfig
    /\ caller.tree \in Trees \cup {None}
    /\ caller.vetted = None \/ caller.vetted \in ConfigUtxo
    /\ unspent \subseteq Outputs
    /\ config = {} \/ config \subseteq ConfigUtxo \cup {Decoy}
    /\ chain.landed \subseteq Steps
    /\ \A tx \in pool : tx.step \in Steps /\ tx.inputs \subseteq Outputs
    /\ Cardinality(pool) <= MaxPool

\* As long as the transaction that consumes a seed has not landed, the seed
\* is unspent: no fee of another step, landed or retried, took it.
SeedsKept ==
    caller.at > 0 =>
        /\ "multisig-genesis" \notin chain.landed => Seed("upgradeMultisig") \in unspent
        /\ "protocol-genesis" \notin chain.landed =>
               {Seed("protocolParams"), Seed("issuance")} \subseteq unspent

\* The irreversible step never activates another authority than the one last
\* asked for, whatever was retried, rotated or parked at the address.
AuthorityAsAsked ==
    chain.genesis # None =>
        /\ chain.genesis.tree = caller.tree
        /\ chain.genesis.upgradeCred \in chain.accounts

\* The record says what the chain did: it reproduces every script hash, its
\* one-shot outputs are the ones the genesis consumed, and each index leads
\* to the script or to the state it is recorded for.
RecordTrue ==
    record # None =>
        /\ assertDeploymentScripts(record)
        /\ {record.protocolParams.txInput, record.issuance.txInput}
               \subseteq chain.genesis.spent
        /\ record.upgradeMultisig.txInput \notin unspent \cup chain.genesis.spent
        /\ record.upgradeMultisig.utxo.policy = record.upgradeMultisig.scriptHash
        /\ record.upgradeAuthority = chain.genesis.upgradeCred
        /\ chain.genesis.outputs[record.protocolParams.utxo + 1]
               = record.protocolParams.policyId
        /\ \A name \in DOMAIN record.refInput :
               chain.scripts[record.refInput[name] + 1] = caller.plan.scripts[name]

\* The gate refuses: the tree on chain is not the one last asked for.
Refused ==
    chain.genesis = None /\ \E utxo \in config : utxo.policy # None /\ utxo.tree # caller.tree

\* A bootstrap that keeps its seeds ends with a record, unless the gate goes
\* on refusing a tree that was not the one last asked for.
Completes == []<>(record # None \/ Refused)
=============================================================================
