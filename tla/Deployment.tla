------------------------------ MODULE Deployment ------------------------------
(***************************************************************************)
(* The identity of a protocol instance: how the one-shot seeds reach every *)
(* script hash (createStandardScripts, planBootstrap), the record written  *)
(* for later users (assembleDeploymentParams), and the check made when one *)
(* is loaded (assertDeploymentScripts).                                    *)
(*                                                                         *)
(* A script hash is the title of the validator and the values it was       *)
(* parameterised with, in order: two hashes are equal exactly when these   *)
(* are, which is what a collision-free hash of the applied code gives.     *)
(***************************************************************************)
EXTENDS Naturals, Sequences

CONSTANTS
    OutRefs,              \* output references
    Nonces,               \* always_fail nonces
    InlineDatumLimits     \* values of maxInlineDatumBytes

Roles == {"protocolParams", "issuance", "upgradeMultisig"}

Hash(title, params) == [title |-> title, params |-> params]

UNFRACKING_DISABLED == Hash("zeros", <<>>)

(* createStandardScripts *)
alwaysFail(nonce)                 == Hash("always_fail", <<nonce>>)
protocolParams(ref)               == Hash("protocol_params", <<ref>>)
programmableLogicBase(params)     == Hash("programmable_logic_base", <<params>>)
upgradeMultisig(ref)              == Hash("upgrade_multisig", <<ref>>)
issuanceCborHexMint(ref, fail)    == Hash("issuance_cbor_hex_mint", <<ref, fail>>)
registry(ref, issuance)           == Hash("registry", <<ref, issuance>>)
transfer(plb, reg, limit)         == Hash("transfer", <<plb, reg, limit>>)
thirdParty(plb, reg, limit)       == Hash("third_party", <<plb, reg, limit>>)
unfracking(plb, reg, limit)       == Hash("unfracking", <<plb, reg, limit>>)
programmableLogicGlobal(t, p, u)  == Hash("programmable_logic_global", <<t, p, u>>)
issuanceLogic(plb, reg, params, limit) ==
    Hash("issuance_logic", <<plb, reg, params, limit>>)

BootstrapConfig == [seeds : [Roles -> OutRefs], alwaysFailNonce : Nonces,
                    maxInlineDatumBytes : InlineDatumLimits,
                    unfracking : {"enabled", "disabled"}]

\* Two roles sharing one output would make the check of one of them vacuous.
requireSeeds(seeds) == \A r, s \in Roles : r # s => seeds[r] # seeds[s]

(***************************************************************************)
(* The scripts of planBootstrap.  The dispatcher is parameterised by its   *)
(* delegates, the delegates by programmable_logic_base and the registry.   *)
(***************************************************************************)
planBootstrap(config) ==
    LET limit  == config.maxInlineDatumBytes
        fail   == alwaysFail(config.alwaysFailNonce)
        params == protocolParams(config.seeds["protocolParams"])
        plb    == programmableLogicBase(params)
        cbor   == issuanceCborHexMint(config.seeds["issuance"], fail)
        reg    == registry(config.seeds["protocolParams"], cbor)
        unfrack == unfracking(plb, reg, limit)
        unfrackingParameter ==
            IF config.unfracking = "enabled" THEN unfrack ELSE UNFRACKING_DISABLED
    IN [config |-> config,
        unfrackingParameter |-> unfrackingParameter,
        scripts |->
          [alwaysFail |-> fail,
           protocolParams |-> params,
           programmableLogicBase |-> plb,
           issuanceCborHexMint |-> cbor,
           registry |-> reg,
           transfer |-> transfer(plb, reg, limit),
           thirdParty |-> thirdParty(plb, reg, limit),
           unfracking |-> unfrack,
           programmableLogicGlobal |->
               programmableLogicGlobal(transfer(plb, reg, limit),
                                       thirdParty(plb, reg, limit),
                                       unfrackingParameter),
           issuanceLogic |-> issuanceLogic(plb, reg, params, limit),
           upgradeMultisig |-> upgradeMultisig(config.seeds["upgradeMultisig"])]]

REFERENCE_SCRIPT_ORDER ==
    <<"programmableLogicBase", "programmableLogicGlobal", "transfer", "thirdParty",
      "unfracking", "issuanceLogic", "upgradeMultisig">>

STAKE_REGISTRATION_ORDER ==
    <<"programmableLogicGlobal", "transfer", "thirdParty", "unfracking",
      "issuanceLogic", "upgradeMultisig">>

\* Elements of the order, as names of scripts.
Named(order) == {order[i] : i \in DOMAIN order}

\* Variant: the record counts the dispatcher last, as if it had been appended.
refIdxAppended(name) ==
    CASE name = "programmableLogicBase" -> 0
      [] name = "programmableLogicGlobal" -> 6
      [] OTHER -> (CHOOSE i \in 1 .. 7 : REFERENCE_SCRIPT_ORDER[i] = name) - 2

refIdx(name) == (CHOOSE i \in 1 .. 7 : REFERENCE_SCRIPT_ORDER[i] = name) - 1

(***************************************************************************)
(* The record: what the plan derived and what the chain showed.            *)
(* "configRef" is the config UTxO read back by the gate; the transaction   *)
(* hashes of the genesis and of the reference scripts are left out, so an  *)
(* output is the index in its transaction.                                 *)
(***************************************************************************)
assembleDeploymentParams(plan, configRef) ==
    LET s == plan.scripts
        seeds == plan.config.seeds
    IN [protocolParams |-> [txInput |-> seeds["protocolParams"],
                            policyId |-> s.protocolParams, utxo |-> 0],
        programmableLogicBase |-> s.programmableLogicBase,
        transfer |-> s.transfer,
        thirdParty |-> s.thirdParty,
        unfracking |-> s.unfracking,
        programmableLogicGlobal |-> [scriptHash |-> s.programmableLogicGlobal,
                                     unfrackingParameter |-> plan.unfrackingParameter],
        maxInlineDatumBytes |-> plan.config.maxInlineDatumBytes,
        issuanceLogic |-> s.issuanceLogic,
        upgradeMultisig |-> [scriptHash |-> s.upgradeMultisig,
                             txInput |-> seeds["upgradeMultisig"],
                             utxo |-> configRef],
        upgradeAuthority |-> s.upgradeMultisig,
        issuance |-> [txInput |-> seeds["issuance"],
                      policyId |-> s.issuanceCborHexMint,
                      alwaysFailScriptHash |-> s.alwaysFail],
        registry |-> [txInput |-> seeds["protocolParams"],
                      issuanceScriptHash |-> s.issuanceCborHexMint,
                      scriptHash |-> s.registry],
        refInput |-> [n \in Named(REFERENCE_SCRIPT_ORDER) |-> refIdx(n)]]

(***************************************************************************)
(* The ten comparisons made on a loaded record d, each derived from the    *)
(* values the record holds and not from one another.                       *)
(***************************************************************************)
deriveDeploymentScripts(d) ==
    LET plb == d.programmableLogicBase
        reg == d.registry.scriptHash
        params == d.protocolParams.policyId
        limit == d.maxInlineDatumBytes
        check(derived, deployed) == [derived |-> derived, deployed |-> deployed]
    IN { check(protocolParams(d.protocolParams.txInput), params),
         check(programmableLogicBase(params), plb),
         check(transfer(plb, reg, limit), d.transfer),
         check(thirdParty(plb, reg, limit), d.thirdParty),
         check(unfracking(plb, reg, limit), d.unfracking),
         check(programmableLogicGlobal(d.transfer, d.thirdParty,
                                       d.programmableLogicGlobal.unfrackingParameter),
               d.programmableLogicGlobal.scriptHash),
         check(issuanceCborHexMint(d.issuance.txInput, d.issuance.alwaysFailScriptHash),
               d.issuance.policyId),
         check(registry(d.registry.txInput, d.registry.issuanceScriptHash), reg),
         check(issuanceLogic(plb, reg, params, limit), d.issuanceLogic),
         check(upgradeMultisig(d.upgradeMultisig.txInput),
               d.upgradeMultisig.scriptHash) }

refuseOnUnfrackingParameter(d) ==
    d.programmableLogicGlobal.unfrackingParameter \notin
        {unfracking(d.programmableLogicBase, d.registry.scriptHash,
                    d.maxInlineDatumBytes),
         UNFRACKING_DISABLED}

assertDeploymentScripts(d) ==
    /\ \A c \in deriveDeploymentScripts(d) : c.derived = c.deployed
    /\ ~refuseOnUnfrackingParameter(d)
=============================================================================
