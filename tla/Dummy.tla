------------------------------- MODULE Dummy -------------------------------
(***************************************************************************)
(* The transactions of the dummy substandard                               *)
(* (src/substandards/dummy/index.ts).  A builder denotes the transactions  *)
(* it may hand to the evaluator in the current state, and none when it     *)
(* throws.  Whoever pays the fee signs as well; no validator asks for it,  *)
(* so it is left out.  Redeemers, reads and withdrawals are written apart, *)
(* as in the code: nothing but the code keeps them in step.                *)
(***************************************************************************)
EXTENDS ProgrammableLedger

CONSTANTS
    Publishable,   \* instances whose blueprint has publish handlers
    ScriptWallet,  \* whose wallet holds the published reference scripts
    Nobody

ASSUME WalletsAssumption ==
    /\ FreezeAndSeizes \subseteq Publishable /\ Publishable \subseteq Instances
    /\ Nobody \notin Holders /\ ScriptWallet \in Holders \cup {Nobody}

\* Variant: the blueprint is not looked at.
AnyBlueprint(i) == TRUE

requirePublishHandlers(i) == i \in Publishable

When(holds, results) == IF holds THEN results ELSE {}

findRegistryNode(policy) == policy \in DOMAIN entry

findIssuanceLogicRefUtxo == LogicRef \in published

\* Coin selection over an unfiltered wallet may take a reference script.
UnfilteredFunds(payer) == IF payer = ScriptWallet THEN SUBSET published ELSE {{}}

\* A prefix, in the order the provider returned, that first reaches qty.
selectUtxosForAmount(utxos, qty) ==
    {s \in SUBSET utxos : /\ Quantity(s) >= qty
                          /\ \E last \in s : Quantity(s \ {last}) < qty}

Holdings(owner, policy) == {t \in tokens : t.owner = owner /\ t.policy = policy}

Refs(utxos) == {t.at : t \in utxos}

\* The outputs of a registration, in the order of its tags.
RegisterOutputs(tags, recipient, qty) ==
    [n \in DOMAIN tags |->
        Pays(tags[n], recipient, IF tags[n] = "user-token" THEN qty ELSE 1)]

dummyTags == <<"user-token", "new-node", "covering-node">>

registerRefs == <<Params, IssuanceCbor, LogicRef>>

registerPlans(i, tags) ==
    issuancePlan(ScriptKey(IssuanceLogic), << >>, <<ScriptKey(MintingLogic[i])>>,
                 registerRefs, Params, tags, <<"output", "new-node">>)

\* A registration at the node that covers the policy.
Registration(i, signers, logic, tags, recipient, qty, covering, spent, plan) ==
    [Blank("register", i, PolicyOf[i]) EXCEPT
        !.signers = signers, !.splits = {covering},
        !.spends = {entry[covering.key].at} \cup spent, !.logic = logic,
        !.reads = Range(registerRefs), !.withdraws = {MintingLogic[i], IssuanceLogic},
        !.minted = qty, !.outputs = RegisterOutputs(tags, recipient, qty),
        !.issuance = [paramsIdx |-> plan.paramsIdx, proof |-> plan.proof]]

dummyRegister(i, recipient, qty) ==
    {Registration(i, {}, registryNode(TransferLogic[i], TransferLogic[i]), dummyTags,
                  recipient, qty, covering, {}, plan) :
        covering \in Covering(directory, PolicyOf[i]),
        plan \in When(findIssuanceLogicRefUtxo, registerPlans(i, dummyTags))}

mintRefs(policy) == <<Params, entry[policy].at, LogicRef>>

mintPlans(i, policy) ==
    issuancePlan(ScriptKey(IssuanceLogic), << >>, <<ScriptKey(MintingLogic[i])>>,
                 mintRefs(policy), Params, << >>, <<"reference-input", entry[policy].at>>)

Minting(i, signers, recipient, policy, qty, plan) ==
    [Blank("mint", i, policy) EXCEPT
        !.signers = signers,
        !.reads = Range(mintRefs(policy)), !.withdraws = {MintingLogic[i], IssuanceLogic},
        !.minted = qty, !.outputs = <<Pays("user-token", recipient, qty)>>,
        !.issuance = [paramsIdx |-> plan.paramsIdx, proof |-> plan.proof]]

dummyMint(i, recipient, policy, qty) ==
    When(PolicyOf[i] = policy /\ findRegistryNode(policy) /\ findIssuanceLogicRefUtxo,
         {Minting(i, {}, recipient, policy, qty, plan) : plan \in mintPlans(i, policy)})

dummyBurn == {}

\* What is left of the inputs after qty is taken from them, first to last.
Remaining(selected, input, qty) ==
    LET held    == Quantity({t \in selected : t.at = input})
        earlier == {t \in selected : Precedes(InputRank(t.at), InputRank(input))}
        due     == IF qty > Quantity(earlier) THEN qty - Quantity(earlier) ELSE 0
    IN  IF held < due THEN 0 ELSE held - due

Continuations(selected, holder, qty) ==
    LET ordered == sortTxInputs(Refs(selected))
    IN  [n \in DOMAIN ordered |->
            Output("continuation", holder, Remaining(selected, ordered[n], qty), ordered[n])]

\* The positions in a transaction that spends programmable outputs: the params,
\* the registry node, the blacklist node if there is one, and the dispatcher.
Positioned(refs, node, proofs, others) ==
    [params : referenceInputIndexOf(refs, Params),
     node   : referenceInputIndexOf(refs, node),
     proof  : proofs,
     plg    : {plan.plgIdx : plan \in plbWithdrawalPlan(ScriptKey(Plg), others)}]

\* An act of the authority that the node of the policy names.
ThirdPartyAct(op, i, policy, signers, authority, refs, spends, start, outputs, positions) ==
    [Blank(op, i, policy) EXCEPT
        !.signers = signers, !.reads = Range(refs), !.spends = spends,
        !.withdraws = {Plg, ThirdParty, authority}, !.act = "THIRD_PARTY",
        !.base = [paramsIdx |-> positions.params, wdrlIdx |-> positions.plg],
        !.delegate = [nodeIdx |-> positions.node, start |-> start],
        !.outputs = outputs]

\* Neither the policy nor the holder's consent is looked at: the node of the
\* policy decides whether the dummy's transfer logic is the authority.
thirdPartyTransfer(i, holder, recipient, policy, qty) ==
    LET node == entry[policy].at
        refs == <<Params, node>>
        others == <<ScriptKey(ThirdParty), ScriptKey(TransferLogic[i])>>
    IN  When(findRegistryNode(policy),
             {ThirdPartyAct("thirdPartyTransfer", i, policy, {}, TransferLogic[i], refs,
                            Refs(selected), 1,
                            <<Pays("destination", recipient, qty)>>
                                \o Continuations(selected, holder, qty),
                            positions) :
                 selected \in selectUtxosForAmount(Holdings(holder, policy), qty),
                 positions \in Positioned(refs, node, {-1}, others)})

\* The sender's change first, then the recipient's output.
TransferOutputs(sender, recipient, qty, total) ==
    LET paid   == Pays("paid", recipient, qty)
        change == Pays("change", sender, total - qty)
    IN  IF total > qty THEN <<change, paid>> ELSE <<paid>>

Transferring(i, policy, sender, recipient, qty, refs, selected, spent, positions) ==
    [Blank("transfer", i, policy) EXCEPT
        !.signers = {sender},
        !.reads = Range(refs), !.spends = Refs(selected) \cup spent,
        !.withdraws = {Plg, CoreTransfer, TransferLogic[i]}, !.act = "TRANSFER",
        !.base = [paramsIdx |-> positions.params, wdrlIdx |-> positions.plg],
        !.delegate = [nodeIdx |-> positions.node, start |-> -1],
        !.proofIdx = positions.proof,
        !.outputs = TransferOutputs(sender, recipient, qty, Quantity(selected))]

\* The policy is not compared with the dummy's own.
dummyTransfer(i, sender, recipient, policy, qty) ==
    LET node == entry[policy].at
        refs == <<Params, node>>
        others == <<ScriptKey(TransferLogic[i]), ScriptKey(CoreTransfer)>>
    IN  When(findRegistryNode(policy),
             {Transferring(i, policy, sender, recipient, qty, refs, selected, spent, positions) :
                 selected \in selectUtxosForAmount(Holdings(sender, policy), qty),
                 spent \in UnfilteredFunds(sender),
                 positions \in Positioned(refs, node, {-1}, others)})
=============================================================================
