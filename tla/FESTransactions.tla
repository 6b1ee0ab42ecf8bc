-------------------------- MODULE FESTransactions --------------------------
(***************************************************************************)
(* The transactions of freeze-and-seize                                    *)
(* (src/substandards/freeze-and-seize/index.ts) as the validators and the  *)
(* facade see them: reads, withdrawals, positions and outputs.  Module     *)
(* FreezeAndSeize has their UTxOs, datums and units.  Here each instance   *)
(* has one asset and its blacklist is the set of the listed holders; the   *)
(* node a transfer cites is one output per list.                           *)
(***************************************************************************)
EXTENDS Dummy

fesTags(hasCIP68) ==
    <<"user-token">> \o (IF hasCIP68 THEN <<"cip68-reference">> ELSE << >>)
        \o <<"covering-node", "new-node">>

\* Variant: the node is filled in as the dummy fills in its own.
dummyLikeNode(i) ==
    LET d == CHOOSE d \in Dummies : TRUE IN registryNode(TransferLogic[d], TransferLogic[d])

fesNode(i) == registryNode(TransferLogic[i], MintingLogic[i])

fesRegister(i, payer, recipient, qty, hasCIP68) ==
    {Registration(i, {Admin}, fesNode(i), fesTags(hasCIP68),
                  recipient, qty, covering, spent, plan) :
        covering \in Covering(directory, PolicyOf[i]),
        spent \in UnfilteredFunds(payer),
        plan \in When(findIssuanceLogicRefUtxo, registerPlans(i, fesTags(hasCIP68)))}

fesMint(i, recipient, policy, qty) ==
    When(PolicyOf[i] = policy /\ findRegistryNode(policy) /\ findIssuanceLogicRefUtxo,
         {Minting(i, {Admin}, recipient, policy, qty, plan) : plan \in mintPlans(i, policy)})

\* The continuation keeps what is not of the policy: here, nothing.
Burning(i, policy, utxo, plan, nodeIdx) ==
    [Blank("burn", i, policy) EXCEPT
        !.signers = {Admin},
        !.reads = Range(mintRefs(policy)), !.spends = {utxo.at},
        !.withdraws = {MintingLogic[i], Plg, ThirdParty, IssuanceLogic}, !.act = "THIRD_PARTY",
        !.base = [paramsIdx |-> plan.paramsIdx, wdrlIdx |-> plan.plgIdx],
        !.delegate = [nodeIdx |-> nodeIdx, start |-> 0],
        !.minted = -utxo.qty,
        !.outputs = <<Output("continuation", utxo.owner, 0, utxo.at)>>,
        !.issuance = [paramsIdx |-> plan.paramsIdx, proof |-> plan.proof]]

fesBurn(i, policy, utxo) ==
    LET node == entry[policy].at
        plans == issuancePlan(ScriptKey(IssuanceLogic), <<ScriptKey(Plg)>>,
                    <<ScriptKey(ThirdParty), ScriptKey(MintingLogic[i])>>,
                    mintRefs(policy), Params, << >>, <<"reference-input", node>>)
    IN  When(PolicyOf[i] = policy /\ utxo.policy = policy
             /\ findRegistryNode(policy) /\ findIssuanceLogicRefUtxo,
             {Burning(i, policy, utxo, plan, nodeIdx) :
                 plan \in plans, nodeIdx \in referenceInputIndexOf(mintRefs(policy), node)})

\* One proof for all inputs: they have one owner.
fesTransfer(i, sender, recipient, policy, qty) ==
    LET node == entry[policy].at
        refs == <<BlacklistRef[i], Params, node>>
        others == <<ScriptKey(CoreTransfer), ScriptKey(TransferLogic[i])>>
        proofs == referenceInputIndexOf(refs, BlacklistRef[i])
        bracketed == i \in DOMAIN frozen /\ sender \notin frozen[i]
    IN  When(PolicyOf[i] = policy /\ findRegistryNode(policy) /\ bracketed,
             {Transferring(i, policy, sender, recipient, qty, refs, selected, spent, positions) :
                 selected \in selectUtxosForAmount(Holdings(sender, policy), qty),
                 spent \in UnfilteredFunds(sender),
                 positions \in Positioned(refs, node, proofs, others)})

seize(i, policy, utxo, destination) ==
    LET node == entry[policy].at
        refs == <<Params, node, ThirdPartyRef>>
        others == <<ScriptKey(ThirdParty), ScriptKey(MintingLogic[i])>>
    IN  When(PolicyOf[i] = policy /\ utxo.policy = policy
             /\ findRegistryNode(policy) /\ ThirdPartyRef \in published,
             {ThirdPartyAct("seize", i, policy, {Admin}, MintingLogic[i], refs, {utxo.at}, 1,
                            <<Pays("destination", destination, utxo.qty),
                              Output("continuation", utxo.owner, 0, utxo.at)>>,
                            positions) :
                 positions \in Positioned(refs, node, {-1}, others)})

-----------------------------------------------------------------------------
(* The blacklist of the instance.  The policy the caller names is not      *)
(* looked at.                                                              *)

initCompliance(i) ==
    When(i \notin DOMAIN frozen, {Blank("init", i, PolicyOf[i])})

freeze(i, policy, target) ==
    When(i \in DOMAIN frozen /\ target \notin frozen[i],
         {[Blank("freeze", i, policy) EXCEPT !.target = target]})

unfreeze(i, policy, target) ==
    When(i \in DOMAIN frozen /\ target \in frozen[i],
         {[Blank("unfreeze", i, policy) EXCEPT !.target = target]})
=============================================================================
