--------------------------- MODULE FacadeProofs ---------------------------
(***************************************************************************)
(* The directory that the substandards share stays a sound list, the       *)
(* outputs of the ledger stay apart, what a plugin builds for its own      *)
(* token passes every validator, and no plugin answers for a token of      *)
(* another, for any number of instances, holders and transactions under    *)
(* way.                                                                    *)
(***************************************************************************)
EXTENDS Facade, SortedListProofs, LedgerOrderProofs, QuantityProofs

\* What the registration of instance i writes into its registry node.
OwnNode(i) ==
    IF i \in Dummies THEN registryNode(TransferLogic[i], TransferLogic[i]) ELSE fesNode(i)

\* tx registers nothing, or an instance's policy at a node that covers it and
\* whose output it spends.
Placed(tx) ==
    \/ tx.splits = {}
    \/ \E i \in Instances : \E c \in Covering(directory, PolicyOf[i]) :
          /\ tx.splits = {c}
          /\ tx.policy = PolicyOf[i]
          /\ entry[c.key].at \in tx.spends
          /\ tx.logic = OwnNode(i)

\* What tx writes: tokens of a policy that is registered, if only by tx, both
\* nodes of a registration, and holders on the list of an instance that has one.
Written(tx) ==
    /\ DOMAIN tx.outputs \in SUBSET (Nat \ {0}) /\ IsFiniteSet(DOMAIN tx.outputs)
    /\ \A n \in DOMAIN tx.outputs : tx.outputs[n].owner \in Holders /\ tx.outputs[n].qty \in Nat
    /\ Positions(tx) # {} => tx.splits # {} \/ tx.policy \in DOMAIN entry
    /\ tx.splits # {} => \A tag \in {"new-node", "covering-node"} :
                            \E n \in DOMAIN tx.outputs : tx.outputs[n].tag = tag
    /\ tx.op \in {"init", "freeze", "unfreeze"} => tx.by \in FreezeAndSeizes
    /\ tx.op = "freeze" => tx.target \in Holders

DirectoryInv ==
    /\ directory \in SUBSET Node
    /\ Sound(directory)
    /\ {n.key : n \in directory} = DOMAIN entry

\* The node of a registered policy names the logic of its instance.
NodesInv ==
    \A i \in Instances : PolicyOf[i] \in DOMAIN entry =>
        /\ entry[PolicyOf[i]].transfer = OwnNode(i).transfer
        /\ entry[PolicyOf[i]].thirdParty = OwnNode(i).thirdParty

\* A registry node is an output of the deployment or of a later transaction.
EntriesInv ==
    /\ DOMAIN entry \subseteq {0} \cup Policies
    /\ \A k \in DOMAIN entry : entry[k].at \in {OriginRef} \cup (TxIds \X Nat)

\* No two tokens are one output, and none is a registry node.
TokensInv ==
    /\ IsFiniteSet(tokens)
    /\ \A t \in tokens : /\ t.at \in TxIds \X Nat
                         /\ t.policy \in DOMAIN entry /\ t.owner \in Holders
                         /\ t.qty \in Nat \ {0}
    /\ \A t, u \in tokens : t.at = u.at => t = u
    /\ \A t \in tokens, k \in DOMAIN entry : t.at # entry[k].at

ListsInv ==
    /\ DOMAIN frozen \subseteq FreezeAndSeizes
    /\ \A i \in DOMAIN frozen : frozen[i] \subseteq Holders

ScriptsInv == published \subseteq {LogicRef, ThirdPartyRef}

PoolInv == \A tx \in pool : Placed(tx) /\ Written(tx)

PluginsInv == \A id \in DOMAIN plugins : plugins[id] \in Publishable

LedgerInv == DirectoryInv /\ NodesInv /\ EntriesInv /\ TokensInv /\ ListsInv /\ ScriptsInv

IInv == LedgerInv /\ PoolInv /\ PluginsInv

-----------------------------------------------------------------------------
(* What the builders build.                                                *)

\* Each instance has a policy of its own.
LEMMA PoliciesAreKeys ==
    /\ \A i \in Instances : PolicyOf[i] \in Keys
    /\ \A i, j \in Instances : PolicyOf[i] = PolicyOf[j] => i = j
  BY InstancesAssumption DEF Injection, IsInjective

\* There are finitely many places in a list.
LEMMA PlacesFinite == ASSUME NEW n \in Nat PROVE IsFiniteSet(1..n)
  <1>1. 1 \in Int /\ n \in Int
    OBVIOUS
  <1> QED
    BY <1>1, FS_Interval

\* A transaction that pays holders in a registered policy and edits no list.
LEMMA PaysWritten ==
    ASSUME NEW tx, tx.splits = {}, tx.op \notin {"init", "freeze", "unfreeze"},
           tx.policy \in DOMAIN entry, NEW N \in Nat, DOMAIN tx.outputs = 1..N,
           \A n \in 1..N : tx.outputs[n].owner \in Holders /\ tx.outputs[n].qty \in Nat
    PROVE  Placed(tx) /\ Written(tx)
  <1>1. 1..N \in SUBSET (Nat \ {0})
    OBVIOUS
  <1>2. IsFiniteSet(1..N)
    BY PlacesFinite
  <1> QED
    BY <1>1, <1>2 DEF Placed, Written

\* What a registration writes, whatever the order of its tags.
LEMMA RegisterWritten ==
    ASSUME NEW tx, tx.splits # {}, tx.op = "register", NEW to \in Holders, NEW qty \in Nat,
           NEW N \in Nat, NEW tags, DOMAIN tags = 1..N,
           tx.outputs = RegisterOutputs(tags, to, qty),
           \A tag \in {"new-node", "covering-node"} : \E n \in 1..N : tags[n] = tag
    PROVE  Written(tx)
  <1>1. DOMAIN tx.outputs = 1..N
    BY DEF RegisterOutputs
  <1>2. 1..N \in SUBSET (Nat \ {0})
    OBVIOUS
  <1>3. IsFiniteSet(1..N)
    BY PlacesFinite
  <1>4. \A n \in 1..N : /\ tx.outputs[n].owner = to /\ tx.outputs[n].tag = tags[n]
                        /\ tx.outputs[n].qty \in Nat
    BY DEF RegisterOutputs, Pays, Output
  <1> QED
    BY <1>1, <1>2, <1>3, <1>4 DEF Written

\* The recipient's token comes first in a registration by freeze-and-seize, and
\* the other outputs are not of the supply.
LEMMA FesTags ==
    ASSUME NEW hasCIP68 \in BOOLEAN
    PROVE  LET tags == fesTags(hasCIP68)
           IN  \E N \in {3, 4} :
                 /\ DOMAIN tags = 1..N
                 /\ tags[1] = "user-token"
                 /\ \A n \in 2..N : tags[n] \in {"cip68-reference", "new-node", "covering-node"}
                 /\ \A tag \in {"new-node", "covering-node"} : \E n \in 1..N : tags[n] = tag
  <1>1. CASE hasCIP68
    <2> DEFINE tags == <<"user-token">> \o <<"cip68-reference">> \o <<"covering-node", "new-node">>
    <2>1. /\ DOMAIN tags = 1..4 /\ tags[1] = "user-token" /\ tags[2] = "cip68-reference"
          /\ tags[3] = "covering-node" /\ tags[4] = "new-node"
      OBVIOUS
    <2>2. fesTags(hasCIP68) = tags
      BY <1>1 DEF fesTags
    <2> HIDE DEF tags
    <2> QED
      BY <2>1, <2>2
  <1>2. CASE ~hasCIP68
    <2> DEFINE tags == <<"user-token">> \o << >> \o <<"covering-node", "new-node">>
    <2>1. /\ DOMAIN tags = 1..3 /\ tags[1] = "user-token"
          /\ tags[2] = "covering-node" /\ tags[3] = "new-node"
      OBVIOUS
    <2>2. fesTags(hasCIP68) = tags
      BY <1>2 DEF fesTags
    <2> HIDE DEF tags
    <2> QED
      BY <2>1, <2>2
  <1> QED
    BY <1>1, <1>2

-----------------------------------------------------------------------------
(* The fields of what is built, one operator of the builders at a time.    *)

LEMMA RegistrationIs ==
    ASSUME NEW i, NEW signers, NEW logic, NEW tags, NEW to, NEW qty, NEW c, NEW spent, NEW plan
    PROVE  LET tx == Registration(i, signers, logic, tags, to, qty, c, spent, plan)
           IN  /\ tx.op = "register" /\ tx.by = i /\ tx.policy = PolicyOf[i]
               /\ tx.signers = signers /\ tx.reads = Range(registerRefs)
               /\ tx.spends = {entry[c.key].at} \cup spent
               /\ tx.withdraws = {MintingLogic[i], IssuanceLogic}
               /\ tx.outputs = RegisterOutputs(tags, to, qty)
               /\ tx.minted = qty
               /\ tx.issuance.paramsIdx = plan.paramsIdx /\ tx.issuance.proof = plan.proof
               /\ tx.splits = {c} /\ tx.logic = logic /\ tx.act = "none"
  <1> DEFINE outputs == RegisterOutputs(tags, to, qty)
             reads == Range(registerRefs)
  <1>1. Registration(i, signers, logic, tags, to, qty, c, spent, plan).outputs = outputs
    <2> HIDE DEF outputs
    <2>1. [Blank("register", i, PolicyOf[i]) EXCEPT
             !.signers = signers, !.splits = {c},
             !.spends = {entry[c.key].at} \cup spent, !.logic = logic,
             !.reads = Range(registerRefs), !.withdraws = {MintingLogic[i], IssuanceLogic},
             !.minted = qty, !.outputs = outputs,
             !.issuance = [paramsIdx |-> plan.paramsIdx, proof |-> plan.proof]].outputs = outputs
      BY DEF Blank
    <2> QED
      BY <2>1 DEF Registration, outputs
  <1> QED
    BY <1>1 DEF Registration, Blank

LEMMA MintingIs ==
    ASSUME NEW i, NEW signers, NEW to, NEW p, NEW qty, NEW plan
    PROVE  LET tx == Minting(i, signers, to, p, qty, plan)
           IN  /\ tx.op = "mint" /\ tx.by = i /\ tx.policy = p
               /\ tx.signers = signers /\ tx.reads = Range(mintRefs(p)) /\ tx.spends = {}
               /\ tx.withdraws = {MintingLogic[i], IssuanceLogic}
               /\ tx.outputs = <<Pays("user-token", to, qty)>>
               /\ tx.minted = qty
               /\ tx.issuance.paramsIdx = plan.paramsIdx /\ tx.issuance.proof = plan.proof
               /\ tx.splits = {} /\ tx.act = "none"
  BY DEF Minting, Blank

LEMMA BurningIs ==
    ASSUME NEW i, NEW p, NEW t, NEW plan, NEW nodeIdx
    PROVE  LET tx == Burning(i, p, t, plan, nodeIdx)
           IN  /\ tx.op = "burn" /\ tx.by = i /\ tx.policy = p
               /\ tx.signers = {Admin} /\ tx.reads = Range(mintRefs(p)) /\ tx.spends = {t.at}
               /\ tx.withdraws = {MintingLogic[i], Plg, ThirdParty, IssuanceLogic}
               /\ tx.outputs = <<Output("continuation", t.owner, 0, t.at)>>
               /\ tx.minted = -t.qty
               /\ tx.act = "THIRD_PARTY"
               /\ tx.base.paramsIdx = plan.paramsIdx /\ tx.base.wdrlIdx = plan.plgIdx
               /\ tx.delegate.nodeIdx = nodeIdx /\ tx.delegate.start = 0
               /\ tx.issuance.paramsIdx = plan.paramsIdx /\ tx.issuance.proof = plan.proof
               /\ tx.splits = {}
  BY DEF Burning, Blank

LEMMA ThirdPartyActIs ==
    ASSUME NEW op, NEW i, NEW p, NEW signers, NEW authority, NEW refs, NEW spends, NEW start,
           NEW outputs, NEW positions
    PROVE  LET tx == ThirdPartyAct(op, i, p, signers, authority, refs, spends, start, outputs,
                                   positions)
           IN  /\ tx.op = op /\ tx.by = i /\ tx.policy = p
               /\ tx.signers = signers /\ tx.reads = Range(refs) /\ tx.spends = spends
               /\ tx.withdraws = {Plg, ThirdParty, authority}
               /\ tx.outputs = outputs /\ tx.minted = 0
               /\ tx.act = "THIRD_PARTY"
               /\ tx.base.paramsIdx = positions.params /\ tx.base.wdrlIdx = positions.plg
               /\ tx.delegate.nodeIdx = positions.node /\ tx.delegate.start = start
               /\ tx.splits = {}
  BY DEF ThirdPartyAct, Blank

LEMMA TransferringIs ==
    ASSUME NEW i, NEW p, NEW from, NEW to, NEW qty, NEW refs, NEW s, NEW spent, NEW positions
    PROVE  LET tx == Transferring(i, p, from, to, qty, refs, s, spent, positions)
           IN  /\ tx.op = "transfer" /\ tx.by = i /\ tx.policy = p
               /\ tx.signers = {from} /\ tx.reads = Range(refs)
               /\ tx.spends = Refs(s) \cup spent
               /\ tx.withdraws = {Plg, CoreTransfer, TransferLogic[i]}
               /\ tx.outputs = TransferOutputs(from, to, qty, Quantity(s)) /\ tx.minted = 0
               /\ tx.act = "TRANSFER"
               /\ tx.base.paramsIdx = positions.params /\ tx.base.wdrlIdx = positions.plg
               /\ tx.delegate.nodeIdx = positions.node /\ tx.delegate.start = -1
               /\ tx.proofIdx = positions.proof
               /\ tx.splits = {}
  <1> DEFINE outputs == TransferOutputs(from, to, qty, Quantity(s))
  <1>1. Transferring(i, p, from, to, qty, refs, s, spent, positions).outputs = outputs
    <2> HIDE DEF outputs
    <2>1. [Blank("transfer", i, p) EXCEPT
            !.signers = {from},
            !.reads = Range(refs), !.spends = Refs(s) \cup spent,
            !.withdraws = {Plg, CoreTransfer, TransferLogic[i]}, !.act = "TRANSFER",
            !.base = [paramsIdx |-> positions.params, wdrlIdx |-> positions.plg],
            !.delegate = [nodeIdx |-> positions.node, start |-> -1],
            !.proofIdx = positions.proof,
            !.outputs = outputs].outputs = outputs
      BY DEF Blank
    <2> QED
      BY <2>1 DEF Transferring, outputs
  <1> QED
    BY <1>1 DEF Transferring, Blank

LEMMA BlacklistTxIs ==
    ASSUME NEW op, NEW i, NEW p, NEW target
    PROVE  LET tx == [Blank(op, i, p) EXCEPT !.target = target]
           IN  /\ tx.op = op /\ tx.by = i /\ tx.policy = p /\ tx.target = target
               /\ tx.signers = {} /\ tx.reads = {} /\ tx.spends = {} /\ tx.withdraws = {}
               /\ tx.outputs = << >> /\ tx.minted = 0 /\ tx.splits = {}
               /\ tx.act = "none"
  BY DEF Blank

LEMMA BlankIs ==
    ASSUME NEW op, NEW i, NEW p
    PROVE  LET tx == Blank(op, i, p)
           IN  /\ tx.op = op /\ tx.by = i /\ tx.policy = p
               /\ tx.signers = {} /\ tx.reads = {} /\ tx.spends = {} /\ tx.withdraws = {}
               /\ tx.outputs = << >> /\ tx.minted = 0 /\ tx.splits = {}
               /\ tx.act = "none"
  BY DEF Blank

LEMMA OutputIs ==
    ASSUME NEW tag, NEW owner, NEW qty, NEW keeps
    PROVE  LET out == Output(tag, owner, qty, keeps)
           IN  out.tag = tag /\ out.owner = owner /\ out.qty = qty /\ out.keeps = keeps
  BY DEF Output

-----------------------------------------------------------------------------
(* What the builders write.                                                *)

\* A registration, whatever plugin makes it,
LEMMA RegistrationBuilt ==
    ASSUME NEW i \in Instances, NEW to \in Holders, NEW qty \in Nat,
           NEW c \in Covering(directory, PolicyOf[i]), NEW signers, NEW spent, NEW plan,
           NEW N \in {3, 4}, NEW tags, DOMAIN tags = 1..N,
           \A tag \in {"new-node", "covering-node"} : \E n \in 1..N : tags[n] = tag
    PROVE  LET tx == Registration(i, signers, OwnNode(i), tags, to, qty, c, spent, plan)
           IN  Placed(tx) /\ Written(tx)
  <1> DEFINE tx == Registration(i, signers, OwnNode(i), tags, to, qty, c, spent, plan)
  <1>1. /\ tx.op = "register" /\ tx.policy = PolicyOf[i] /\ tx.splits = {c}
        /\ tx.logic = OwnNode(i) /\ entry[c.key].at \in tx.spends
        /\ tx.outputs = RegisterOutputs(tags, to, qty)
    BY RegistrationIs
  <1>2. tx.splits # {} /\ N \in Nat
    BY <1>1
  <1> HIDE DEF tx
  <1>3. Written(tx)
    BY <1>1, <1>2, RegisterWritten
  <1>4. Placed(tx)
    BY <1>1 DEF Placed
  <1> QED
    BY <1>3, <1>4 DEF tx

\* and those of the plugins.
LEMMA RegistrationsBuilt ==
    ASSUME NEW i \in Instances, NEW to \in Holders, NEW qty \in Nat,
           NEW tx \in register(i, to, qty)
    PROVE  Placed(tx) /\ Written(tx)
  <1>1. CASE i \in Dummies
    <2>1. /\ DOMAIN dummyTags = 1..3
          /\ \A tag \in {"new-node", "covering-node"} : \E n \in 1..3 : dummyTags[n] = tag
      BY DEF dummyTags
    <2>2. PICK c \in Covering(directory, PolicyOf[i]) : \E plan :
            tx = Registration(i, {}, registryNode(TransferLogic[i], TransferLogic[i]), dummyTags,
                              to, qty, c, {}, plan)
      BY <1>1 DEF register, dummyRegister
    <2>3. OwnNode(i) = registryNode(TransferLogic[i], TransferLogic[i])
      BY <1>1 DEF OwnNode
    <2> QED
      BY <2>1, <2>2, <2>3, RegistrationBuilt
  <1>2. CASE i \notin Dummies
    <2>1. PICK hasCIP68 \in BOOLEAN : tx \in fesRegister(i, Admin, to, qty, hasCIP68)
      BY <1>2 DEF register
    <2>2. PICK tags : tags = fesTags(hasCIP68)
      OBVIOUS
    <2>3. PICK c \in Covering(directory, PolicyOf[i]) : \E spent, plan :
            tx = Registration(i, {Admin}, fesNode(i), tags, to, qty, c, spent, plan)
      BY <2>1, <2>2 DEF fesRegister
    <2>5. PICK N \in {3, 4} :
            /\ DOMAIN tags = 1..N
            /\ \A tag \in {"new-node", "covering-node"} : \E n \in 1..N : tags[n] = tag
      BY <2>2, FesTags
    <2>4. OwnNode(i) = fesNode(i)
      BY <1>2 DEF OwnNode
    <2>6. PICK spent, plan : tx = Registration(i, {Admin}, OwnNode(i), tags, to, qty, c, spent, plan)
      BY <2>3, <2>4
    <2>7. /\ Placed(Registration(i, {Admin}, OwnNode(i), tags, to, qty, c, spent, plan))
          /\ Written(Registration(i, {Admin}, OwnNode(i), tags, to, qty, c, spent, plan))
      BY <2>5, RegistrationBuilt
    <2> QED
      BY <2>6, <2>7
  <1> QED
    BY <1>1, <1>2

LEMMA MintsBuilt ==
    ASSUME NEW i, NEW p, NEW to \in Holders, NEW qty \in Nat, NEW tx \in mint(i, p, to, qty)
    PROVE  Placed(tx) /\ Written(tx)
  <1>1. /\ p \in DOMAIN entry
        /\ \E signers, plan : tx = Minting(i, signers, to, p, qty, plan)
    BY DEF mint, dummyMint, fesMint, When, findRegistryNode
  <1>2. /\ tx.splits = {} /\ tx.op = "mint" /\ tx.policy = p
        /\ tx.outputs = <<Pays("user-token", to, qty)>>
    BY <1>1, MintingIs
  <1>3. /\ DOMAIN tx.outputs = 1..1
        /\ \A n \in 1..1 : tx.outputs[n].owner \in Holders /\ tx.outputs[n].qty \in Nat
    BY <1>2 DEF Pays, Output
  <1> QED
    BY <1>1, <1>2, <1>3, PaysWritten

LEMMA BurnsBuilt ==
    ASSUME TokensInv, NEW i, NEW p, NEW tx \in burn(i, p)
    PROVE  Placed(tx) /\ Written(tx)
  <1>1. PICK t \in tokens : tx \in fesBurn(i, p, t)
    BY DEF burn, dummyBurn
  <1>2. /\ p \in DOMAIN entry
        /\ \E plan, nodeIdx : tx = Burning(i, p, t, plan, nodeIdx)
    BY <1>1 DEF fesBurn, When, findRegistryNode
  <1>3. /\ tx.splits = {} /\ tx.op = "burn" /\ tx.policy = p
        /\ tx.outputs = <<Output("continuation", t.owner, 0, t.at)>>
    BY <1>2, BurningIs
  <1>4. /\ DOMAIN tx.outputs = 1..1
        /\ \A n \in 1..1 : tx.outputs[n].owner \in Holders /\ tx.outputs[n].qty \in Nat
    BY <1>3 DEF Output, TokensInv
  <1> QED
    BY <1>2, <1>3, <1>4, PaysWritten

\* What is selected are tokens of one owner that reach the quantity.
LEMMA SelectedTyped ==
    ASSUME TokensInv, NEW owner, NEW p, NEW qty \in Nat \ {0},
           NEW s \in selectUtxosForAmount(Holdings(owner, p), qty)
    PROVE  /\ s \in SUBSET tokens /\ IsFiniteSet(s) /\ s # {}
           /\ \A t \in s : t.owner = owner /\ t.policy = p /\ t.qty \in Nat \ {0}
           /\ Quantity(s) \in Nat /\ Quantity(s) >= qty
  <1>1. s \in SUBSET tokens /\ \A t \in s : t.owner = owner /\ t.policy = p
    BY DEF selectUtxosForAmount, Holdings
  <1>2. IsFiniteSet(s) /\ \A t \in s : t.qty \in Nat \ {0}
    BY <1>1, FS_Subset DEF TokensInv
  <1>3. Quantity(s) \in Nat
    BY <1>2, QuantityIsNatural
  <1>4. Quantity(s) >= qty /\ s # {}
    BY DEF selectUtxosForAmount
  <1> QED
    BY <1>1, <1>2, <1>3, <1>4

LEMMA TransfersBuilt ==
    ASSUME TokensInv, NEW i, NEW p, NEW from \in Holders, NEW to \in Holders,
           NEW qty \in Nat \ {0}, NEW tx \in transfer(i, p, from, to, qty)
    PROVE  Placed(tx) /\ Written(tx)
  <1>1. /\ p \in DOMAIN entry
        /\ \E s \in selectUtxosForAmount(Holdings(from, p), qty) : \E refs, spent, positions :
              tx = Transferring(i, p, from, to, qty, refs, s, spent, positions)
    BY DEF transfer, dummyTransfer, fesTransfer, When, findRegistryNode
  <1>2. PICK s \in selectUtxosForAmount(Holdings(from, p), qty) :
          \E refs, spent, positions :
              tx = Transferring(i, p, from, to, qty, refs, s, spent, positions)
    BY <1>1
  <1>3. /\ tx.splits = {} /\ tx.op = "transfer" /\ tx.policy = p
        /\ tx.outputs = TransferOutputs(from, to, qty, Quantity(s))
    BY <1>2, TransferringIs
  <1>4. Quantity(s) \in Nat /\ Quantity(s) >= qty
    BY SelectedTyped
  <1>5. \E N \in {1, 2} :
          /\ DOMAIN tx.outputs = 1..N
          /\ \A n \in 1..N : tx.outputs[n].owner \in Holders /\ tx.outputs[n].qty \in Nat
    <2>1. CASE Quantity(s) > qty
      <3>1. tx.outputs = <<Pays("change", from, Quantity(s) - qty), Pays("paid", to, qty)>>
        BY <1>3, <2>1 DEF TransferOutputs
      <3>2. Quantity(s) - qty \in Nat
        BY <1>4
      <3> QED
        BY <3>1, <3>2 DEF Pays, Output
    <2>2. CASE ~(Quantity(s) > qty)
      <3>1. tx.outputs = <<Pays("paid", to, qty)>>
        BY <1>3, <2>2 DEF TransferOutputs
      <3> QED
        BY <3>1 DEF Pays, Output
    <2> QED
      BY <2>1, <2>2
  <1> QED
    BY <1>1, <1>3, <1>5, PaysWritten

LEMMA SeizesBuilt ==
    ASSUME TokensInv, NEW i, NEW p, NEW to \in Holders, NEW t \in tokens,
           NEW tx \in seize(i, p, t, to)
    PROVE  Placed(tx) /\ Written(tx)
  <1> DEFINE outputs == <<Pays("destination", to, t.qty),
                          Output("continuation", t.owner, 0, t.at)>>
  <1>1. /\ p \in DOMAIN entry
        /\ \E signers, authority, refs, spends, positions :
              tx = ThirdPartyAct("seize", i, p, signers, authority, refs, spends, 1, outputs,
                                 positions)
    <2> HIDE DEF outputs
    <2>1. p \in DOMAIN entry
      BY DEF seize, When, findRegistryNode
    <2>2. \E signers, authority, refs, spends, positions :
              tx = ThirdPartyAct("seize", i, p, signers, authority, refs, spends, 1, outputs,
                                 positions)
      BY DEF seize, When, outputs
    <2> QED
      BY <2>1, <2>2
  <1>2. /\ tx.splits = {} /\ tx.op = "seize" /\ tx.policy = p /\ tx.outputs = outputs
    <2> HIDE DEF outputs
    <2> QED
      BY <1>1, ThirdPartyActIs
  <1>3. t.owner \in Holders /\ t.qty \in Nat
    BY DEF TokensInv
  <1>4. /\ DOMAIN tx.outputs = 1..2
        /\ \A n \in 1..2 : tx.outputs[n].owner \in Holders /\ tx.outputs[n].qty \in Nat
    BY <1>2, <1>3 DEF Pays, Output
  <1> QED
    BY <1>1, <1>2, <1>4, PaysWritten

LEMMA CompliesBuilt ==
    ASSUME NEW i \in FreezeAndSeizes, NEW p, NEW target \in Suspects,
           NEW tx \in comply(i, p, target)
    PROVE  Placed(tx) /\ Written(tx)
  <1>1. /\ tx.splits = {} /\ tx.by = i /\ tx.outputs = << >>
        /\ tx.op \in {"init", "freeze", "unfreeze"}
        /\ tx.op = "freeze" => tx.target = target
    <2>1. CASE tx \in initCompliance(i)
      <3>1. tx = Blank("init", i, PolicyOf[i])
        BY <2>1 DEF initCompliance, When
      <3> QED
        BY <3>1, BlankIs
    <2>2. CASE tx \in freeze(i, p, target)
      <3>1. tx = [Blank("freeze", i, p) EXCEPT !.target = target]
        BY <2>2 DEF freeze, When
      <3> QED
        BY <3>1, BlacklistTxIs
    <2>3. CASE tx \in unfreeze(i, p, target)
      <3>1. tx = [Blank("unfreeze", i, p) EXCEPT !.target = target]
        BY <2>3 DEF unfreeze, When
      <3> QED
        BY <3>1, BlacklistTxIs
    <2> QED
      BY <2>1, <2>2, <2>3, InstancesAssumption DEF comply
  <1>2. DOMAIN tx.outputs = {}
    BY <1>1
  <1>3. IsFiniteSet({})
    BY FS_EmptySet
  <1>4. Positions(tx) = {}
    BY <1>2 DEF Positions
  <1> QED
    BY <1>1, <1>2, <1>3, <1>4, ConfiguredAssumption DEF Placed, Written

\* Putting one output first moves the others by one.
LEMMA Prepended ==
    ASSUME NEW S, NEW x \in S, NEW N \in Nat, NEW g \in [1..N -> S]
    PROVE  LET f == <<x>> \o g
           IN  DOMAIN f = 1..(N + 1) /\ f[1] = x /\ \A n \in 1..N : f[n + 1] = g[n]
  <1>1. g \in Seq(S) /\ Len(g) = N /\ <<x>> \in Seq(S) /\ Len(<<x>>) = 1
    OBVIOUS
  <1>2. /\ DOMAIN (<<x>> \o g) = 1..(N + 1)
        /\ (<<x>> \o g)[1] = x
        /\ \A n \in 1..N : (<<x>> \o g)[n + 1] = g[n]
    BY <1>1
  <1> QED
    BY <1>2

\* There are finitely many references to finitely many outputs.
LEMMA RefsFinite ==
    ASSUME NEW s, IsFiniteSet(s)
    PROVE  IsFiniteSet(Refs(s))
  <1> DEFINE f == [t \in s |-> t.at]
  <1>1. f \in Surjection(s, Refs(s))
    BY DEF Refs, Surjection
  <1> QED
    BY <1>1, FS_Surjection

\* Taking a quantity from the inputs leaves none with less than nothing.
LEMMA RemainingTyped ==
    ASSUME NEW s, IsFiniteSet(s), \A t \in s : t.qty \in Nat, NEW qty \in Nat, NEW input
    PROVE  Remaining(s, input, qty) \in Nat
  <1> DEFINE held == {t \in s : t.at = input}
             earlier == {t \in s : Precedes(InputRank(t.at), InputRank(input))}
  <1>1. IsFiniteSet(held) /\ IsFiniteSet(earlier)
    BY FS_Subset
  <1>2. Quantity(held) \in Nat /\ Quantity(earlier) \in Nat
    <2>1. \A t \in held : t.qty \in Nat
      OBVIOUS
    <2>2. \A t \in earlier : t.qty \in Nat
      OBVIOUS
    <2> HIDE DEF held, earlier
    <2> QED
      BY <1>1, <2>1, <2>2, QuantityIsNatural
  <1> DEFINE due == IF qty > Quantity(earlier) THEN qty - Quantity(earlier) ELSE 0
  <1>3. Remaining(s, input, qty) = IF Quantity(held) < due THEN 0 ELSE Quantity(held) - due
    BY DEF Remaining
  <1> HIDE DEF held, earlier
  <1> QED
    BY <1>2, <1>3

\* One continuation for each input.
LEMMA ContinuationsTyped ==
    ASSUME NEW s, IsFiniteSet(s), \A t \in s : t.qty \in Nat, NEW qty \in Nat,
           NEW holder \in Holders
    PROVE  LET N == Cardinality(Refs(s))
               kept == Continuations(s, holder, qty)
               ordered == sortTxInputs(Refs(s))
           IN  /\ N \in Nat /\ DOMAIN kept = 1..N
               /\ \A n \in 1..N :
                     /\ kept[n].owner = holder /\ kept[n].tag = "continuation"
                     /\ kept[n].qty = Remaining(s, ordered[n], qty)
                     /\ kept[n].qty \in Nat
                     /\ kept[n].keeps = ordered[n]
  <1> DEFINE N == Cardinality(Refs(s))
             ordered == sortTxInputs(Refs(s))
  <1>1. N \in Nat
    BY RefsFinite, FS_CardinalityType
  <1>2. DOMAIN ordered = 1..N
    BY DEF sortTxInputs
  <1>3. DOMAIN Continuations(s, holder, qty) = 1..N
    BY <1>2 DEF Continuations
  <1>4. \A n \in 1..N : Continuations(s, holder, qty)[n]
             = Output("continuation", holder, Remaining(s, ordered[n], qty), ordered[n])
    BY <1>2 DEF Continuations
  <1> HIDE DEF N, ordered
  <1>5. \A n \in 1..N :
          /\ Continuations(s, holder, qty)[n].owner = holder
          /\ Continuations(s, holder, qty)[n].tag = "continuation"
          /\ Continuations(s, holder, qty)[n].qty = Remaining(s, ordered[n], qty)
          /\ Continuations(s, holder, qty)[n].keeps = ordered[n]
    BY <1>4, OutputIs
  <1>6. \A n \in 1..N : Remaining(s, ordered[n], qty) \in Nat
    BY RemainingTyped
  <1> QED
    BY <1>1, <1>3, <1>5, <1>6 DEF N, ordered

\* The destination first, then the continuations.
LEMMA ThirdPartyOutputs ==
    ASSUME TokensInv, NEW p, NEW holder \in Holders, NEW to, NEW qty \in Nat \ {0},
           NEW s \in selectUtxosForAmount(Holdings(holder, p), qty)
    PROVE  LET outputs == <<Pays("destination", to, qty)>> \o Continuations(s, holder, qty)
               N == Cardinality(Refs(s))
           IN  /\ N \in Nat /\ DOMAIN outputs = 1..(N + 1)
               /\ outputs[1] = Pays("destination", to, qty)
               /\ \A n \in 1..N : outputs[n + 1] = Continuations(s, holder, qty)[n]
  <1> DEFINE N == Cardinality(Refs(s))
             kept == Continuations(s, holder, qty)
             S == {kept[n] : n \in 1..N} \cup {Pays("destination", to, qty)}
  <1>1. N \in Nat /\ DOMAIN kept = 1..N
    BY SelectedTyped, ContinuationsTyped
  <1>2. kept = [n \in 1..N |-> kept[n]]
    <2>1. kept = [n \in DOMAIN kept |-> kept[n]]
      BY DEF Continuations
    <2> QED
      BY <1>1, <2>1
  <1>3. kept \in [1..N -> S] /\ Pays("destination", to, qty) \in S
    <2> HIDE DEF kept, N
    <2> QED
      BY <1>2
  <1> HIDE DEF S, kept, N
  <1>4. LET f == <<Pays("destination", to, qty)>> \o kept
        IN  /\ DOMAIN f = 1..(N + 1) /\ f[1] = Pays("destination", to, qty)
            /\ \A n \in 1..N : f[n + 1] = kept[n]
    BY <1>1, <1>3, Prepended
  <1> QED
    BY <1>1, <1>4 DEF kept, N

LEMMA ThirdPartyTransfersBuilt ==
    ASSUME TokensInv, NEW i, NEW p, NEW holder \in Holders, NEW to \in Holders,
           NEW qty \in Nat \ {0}, NEW tx \in thirdPartyTransfer(i, holder, to, p, qty)
    PROVE  Placed(tx) /\ Written(tx)
  <1>1. p \in DOMAIN entry
    BY DEF thirdPartyTransfer, When, findRegistryNode
  <1>2. PICK s \in selectUtxosForAmount(Holdings(holder, p), qty) :
          \E refs, positions :
            tx = ThirdPartyAct("thirdPartyTransfer", i, p, {}, TransferLogic[i], refs, Refs(s), 1,
                    <<Pays("destination", to, qty)>> \o Continuations(s, holder, qty), positions)
    BY DEF thirdPartyTransfer, When
  <1> DEFINE outputs == <<Pays("destination", to, qty)>> \o Continuations(s, holder, qty)
             N == Cardinality(Refs(s))
  <1>3. /\ tx.splits = {} /\ tx.op = "thirdPartyTransfer" /\ tx.policy = p
        /\ tx.outputs = outputs
    <2>1. \E refs, positions :
            tx = ThirdPartyAct("thirdPartyTransfer", i, p, {}, TransferLogic[i], refs, Refs(s), 1,
                    outputs, positions)
      BY <1>2
    <2> HIDE DEF outputs
    <2> QED
      BY <2>1, ThirdPartyActIs
  <1>4. /\ N \in Nat /\ DOMAIN outputs = 1..(N + 1)
        /\ outputs[1] = Pays("destination", to, qty)
        /\ \A n \in 1..N : outputs[n + 1] = Continuations(s, holder, qty)[n]
    BY ThirdPartyOutputs
  <1>5. \A n \in 1..N : /\ Continuations(s, holder, qty)[n].owner = holder
                        /\ Continuations(s, holder, qty)[n].qty \in Nat
    BY SelectedTyped, ContinuationsTyped
  <1> HIDE DEF outputs, N
  <1>6. \A n \in 1..(N + 1) : outputs[n].owner \in Holders /\ outputs[n].qty \in Nat
    <2> SUFFICES ASSUME NEW n \in 1..(N + 1)
                 PROVE  outputs[n].owner \in Holders /\ outputs[n].qty \in Nat
      OBVIOUS
    <2>1. CASE n = 1
      BY <1>4, <2>1 DEF Pays, Output
    <2>2. CASE n # 1
      <3>1. n - 1 \in 1..N /\ n = (n - 1) + 1
        BY <1>4, <2>2
      <3> QED
        BY <1>4, <1>5, <3>1
    <2> QED
      BY <2>1, <2>2
  <1>7. N + 1 \in Nat
    BY <1>4
  <1> QED
    BY <1>1, <1>3, <1>4, <1>6, <1>7, PaysWritten

LEMMA AdministersBuilt ==
    ASSUME TokensInv, NEW i, NEW p, NEW holder \in Holders, NEW to \in Holders,
           NEW qty \in Nat \ {0}, NEW tx \in administer(i, p, holder, to, qty)
    PROVE  Placed(tx) /\ Written(tx)
  <1>1. CASE tx \in thirdPartyTransfer(i, holder, to, p, qty)
    BY <1>1, ThirdPartyTransfersBuilt
  <1>2. CASE \E t \in Holdings(holder, p) : tx \in seize(i, p, t, to)
    <2>1. PICK t \in tokens : tx \in seize(i, p, t, to)
      BY <1>2 DEF Holdings
    <2> QED
      BY <2>1, SeizesBuilt
  <1> QED
    BY <1>1, <1>2 DEF administer

-----------------------------------------------------------------------------
(* Landing.                                                                *)

\* A policy with a covering node has no node.
LEMMA CoveredIsAbsent ==
    ASSUME DirectoryInv, NEW k \in Keys, NEW c \in Covering(directory, k)
    PROVE  k \notin DOMAIN entry
  <1>1. c \in directory /\ Brackets(c, k)
    BY DEF Covering
  <1>2. k \notin Members(directory)
    BY <1>1, BracketedIsNotMember DEF DirectoryInv
  <1>3. k # 0
    BY DEF Keys
  <1> QED
    BY <1>2, <1>3 DEF DirectoryInv, Members

LEMMA LandingKeepsDirectory ==
    ASSUME DirectoryInv, NEW tx, Placed(tx), ChainLands(tx)
    PROVE  DirectoryInv'
  <1>1. PICK id \in TxIds : entry' = ChainEntries(tx, id)
    BY DEF ChainLands
  <1>2. directory' = ChainDirectory(tx)
    BY DEF ChainLands
  <1>3. CASE tx.splits = {}
    <2>1. directory' = directory
      BY <1>2, <1>3 DEF ChainDirectory
    <2>2. DOMAIN entry' = DOMAIN entry
      BY <1>1, <1>3 DEF ChainEntries
    <2> QED
      BY <2>1, <2>2 DEF DirectoryInv, Sound, Increasing, Disjoint, Complete, Linked
  <1>4. CASE tx.splits # {}
    <2>1. PICK i \in Instances : \E c \in Covering(directory, PolicyOf[i]) :
             tx.splits = {c} /\ tx.policy = PolicyOf[i]
      BY <1>4 DEF Placed
    <2> DEFINE k == PolicyOf[i]
    <2>2. PICK c \in Covering(directory, k) : tx.splits = {c} /\ tx.policy = k
      BY <2>1
    <2>3. k \in Keys /\ c \in directory /\ Brackets(c, k)
      BY PoliciesAreKeys DEF Covering
    <2>4. directory' = (directory \ {c}) \cup Split(c, k)
      BY <1>2, <2>2 DEF ChainDirectory
    <2>5. directory' \in SUBSET Node /\ Sound(directory)'
      <3>1. /\ (directory \ {c}) \cup Split(c, k) \in SUBSET Node
            /\ Sound((directory \ {c}) \cup Split(c, k))
        BY <2>3, SplitSound DEF DirectoryInv
      <3> QED
        BY <2>4, <3>1 DEF Sound, Increasing, Disjoint, Complete, Linked
    <2>6. {n.key : n \in directory'} = {n.key : n \in directory} \cup {k}
      <3>1. c \in Node
        BY <2>3 DEF DirectoryInv
      <3>2. /\ [c EXCEPT !.next = k].key = c.key
            /\ [key |-> k, next |-> c.next].key = k
        BY <3>1 DEF Node
      <3> QED
        BY <2>3, <2>4, <3>2 DEF Split
    <2>7. DOMAIN entry' = DOMAIN entry \cup {k}
      BY <1>1, <1>4, <2>2 DEF ChainEntries
    <2> QED
      BY <2>5, <2>6, <2>7 DEF DirectoryInv
  <1> QED
    BY <1>3, <1>4

\* A landing fills in one node, its own, and leaves what the others name.
LEMMA LandingKeepsNodes ==
    ASSUME DirectoryInv, NodesInv, NEW tx, Placed(tx), ChainLands(tx)
    PROVE  NodesInv'
  <1>1. PICK id \in TxIds : entry' = ChainEntries(tx, id)
    BY DEF ChainLands
  <1> SUFFICES ASSUME NEW i \in Instances, PolicyOf[i] \in DOMAIN entry'
               PROVE  /\ entry'[PolicyOf[i]].transfer = OwnNode(i).transfer
                      /\ entry'[PolicyOf[i]].thirdParty = OwnNode(i).thirdParty
    BY DEF NodesInv, OwnNode, registryNode, fesNode
  <1>2. CASE tx.splits # {} /\ PolicyOf[i] = tx.policy
    <2>1. PICK j \in Instances : tx.policy = PolicyOf[j] /\ tx.logic = OwnNode(j)
      BY <1>2 DEF Placed
    <2>2. j = i
      BY <1>2, <2>1, PoliciesAreKeys
    <2>3. /\ entry'[PolicyOf[i]].transfer = tx.logic.transfer
          /\ entry'[PolicyOf[i]].thirdParty = tx.logic.thirdParty
      BY <1>1, <1>2 DEF ChainEntries
    <2> QED
      BY <2>1, <2>2, <2>3
  <1>3. CASE ~(tx.splits # {} /\ PolicyOf[i] = tx.policy)
    <2>1. PolicyOf[i] \in DOMAIN entry
      BY <1>1, <1>3 DEF ChainEntries
    <2>2. /\ entry'[PolicyOf[i]].transfer = entry[PolicyOf[i]].transfer
          /\ entry'[PolicyOf[i]].thirdParty = entry[PolicyOf[i]].thirdParty
      BY <1>1, <1>3, <2>1 DEF ChainEntries
    <2> QED
      BY <2>1, <2>2 DEF NodesInv
  <1> QED
    BY <1>2, <1>3

\* What is still in the pool spends none of what tx spent: the node it would
\* split is another, and neither moved nor changed.
LEMMA LandingKeepsPlaces ==
    ASSUME DirectoryInv, PoolInv, NEW tx, Placed(tx), ChainLands(tx)
    PROVE  PoolInv'
  <1>1. PICK id \in TxIds : entry' = ChainEntries(tx, id)
    BY DEF ChainLands
  <1>2. directory' = ChainDirectory(tx)
    BY DEF ChainLands
  <1> SUFFICES ASSUME NEW t \in pool' PROVE Placed(t)' /\ Written(t)'
    BY DEF PoolInv
  <1>3. t \in pool /\ t.spends \cap tx.spends = {}
    BY DEF ChainLands
  <1>4. Placed(t) /\ Written(t)
    BY <1>3 DEF PoolInv
  <1>5. Written(t)'
    <2>1. DOMAIN entry \subseteq DOMAIN entry'
      BY <1>1 DEF ChainEntries
    <2> QED
      BY <1>4, <2>1 DEF Written, Positions
  <1>6. CASE t.splits = {}
    BY <1>5, <1>6 DEF Placed
  <1>7. CASE t.splits # {}
    <2>1. PICK i \in Instances : \E d \in Covering(directory, PolicyOf[i]) :
             /\ t.splits = {d} /\ t.policy = PolicyOf[i]
             /\ entry[d.key].at \in t.spends /\ t.logic = OwnNode(i)
      BY <1>4, <1>7 DEF Placed
    <2>2. PICK d \in Covering(directory, PolicyOf[i]) :
             /\ t.splits = {d} /\ t.policy = PolicyOf[i]
             /\ entry[d.key].at \in t.spends /\ t.logic = OwnNode(i)
      BY <2>1
    <2>3. d \in directory /\ d.key \in DOMAIN entry
      BY DEF Covering, DirectoryInv
    <2>4. d \in directory' /\ entry'[d.key].at = entry[d.key].at
      <3>1. CASE tx.splits = {}
        <4>1. d \in directory'
          BY <1>2, <2>3, <3>1 DEF ChainDirectory
        <4>2. entry'[d.key].at = entry[d.key].at
          BY <1>1, <2>3, <3>1 DEF ChainEntries
        <4> QED
          BY <4>1, <4>2
      <3>2. CASE tx.splits # {}
        <4>1. PICK j \in Instances : \E c \in Covering(directory, PolicyOf[j]) :
                 /\ tx.splits = {c} /\ tx.policy = PolicyOf[j]
                 /\ entry[c.key].at \in tx.spends
          BY <3>2 DEF Placed
        <4>2. PICK c \in Covering(directory, PolicyOf[j]) :
                 /\ tx.splits = {c} /\ tx.policy = PolicyOf[j]
                 /\ entry[c.key].at \in tx.spends
          BY <4>1
        <4>3. c \in directory
          BY DEF Covering
        <4>4. c.key # d.key
          BY <1>3, <2>2, <4>2
        <4>5. d.key # tx.policy
          BY <2>3, <4>2, CoveredIsAbsent, PoliciesAreKeys
        <4>6. d \in directory'
          BY <1>2, <2>3, <4>2, <4>4 DEF ChainDirectory
        <4>7. entry'[d.key].at = entry[d.key].at
          BY <1>1, <2>3, <4>2, <4>4, <4>5 DEF ChainEntries
        <4> QED
          BY <4>6, <4>7
      <3> QED
        BY <3>1, <3>2
    <2>5. d \in Covering(directory, PolicyOf[i])'
      BY <2>2, <2>4 DEF Covering, Brackets
    <2> QED
      BY <1>5, <2>2, <2>4, <2>5 DEF Placed, OwnNode, registryNode, fesNode, Covering
  <1> QED
    BY <1>6, <1>7

\* The place of a node is that of an output with its tag.
LEMMA NodeAt ==
    ASSUME NEW tx, NEW id, NEW tag, \E n \in DOMAIN tx.outputs : tx.outputs[n].tag = tag,
           DOMAIN tx.outputs \in SUBSET (Nat \ {0})
    PROVE  \E n \in DOMAIN tx.outputs :
              tx.outputs[n].tag = tag /\ ChainNodeAt(tx, id, tag) = <<id, n - 1>>
  <1> DEFINE P == {j - 1 : j \in {j \in DOMAIN tx.outputs : tx.outputs[j].tag = tag}}
             m == CHOOSE m \in P : TRUE
  <1>1. m \in P
    OBVIOUS
  <1>2. ChainNodeAt(tx, id, tag) = <<id, m>>
    BY DEF ChainNodeAt
  <1> HIDE DEF m
  <1> QED
    BY <1>1, <1>2

\* What a landing under id does to the registry nodes.
NodesMoved(tx, id) ==
    /\ DOMAIN entry' = DOMAIN entry \cup (IF tx.splits = {} THEN {} ELSE {tx.policy})
    /\ \A k \in DOMAIN entry' :
          \/ k \in DOMAIN entry /\ entry'[k].at = entry[k].at
          \/ \E n \in DOMAIN tx.outputs :
                /\ tx.outputs[n].tag \in {"new-node", "covering-node"}
                /\ entry'[k].at = <<id, n - 1>>

LEMMA LandedEntries ==
    ASSUME NEW tx, Placed(tx), Written(tx), NEW id, entry' = ChainEntries(tx, id)
    PROVE  NodesMoved(tx, id)
  <1>1. DOMAIN entry' = DOMAIN entry \cup (IF tx.splits = {} THEN {} ELSE {tx.policy})
    BY DEF ChainEntries
  <1>2. ASSUME NEW k \in DOMAIN entry'
        PROVE  \/ k \in DOMAIN entry /\ entry'[k].at = entry[k].at
               \/ /\ tx.splits # {}
                  /\ \E tag \in {"new-node", "covering-node"} :
                        entry'[k].at = ChainNodeAt(tx, id, tag)
    <2>1. CASE tx.splits # {} /\ k = tx.policy
      BY <2>1 DEF ChainEntries
    <2>2. CASE ~(tx.splits # {} /\ k = tx.policy)
      <3>1. k \in DOMAIN entry
        BY <1>1, <2>2
      <3>2. entry'[k].at = IF k \in {c.key : c \in tx.splits}
                           THEN ChainNodeAt(tx, id, "covering-node") ELSE entry[k].at
        BY <1>1, <2>2 DEF ChainEntries
      <3>3. k \in {c.key : c \in tx.splits} => tx.splits # {}
        OBVIOUS
      <3> QED
        BY <3>1, <3>2, <3>3
    <2> QED
      BY <2>1, <2>2
  <1>3. ASSUME NEW tag \in {"new-node", "covering-node"}, tx.splits # {}
        PROVE  \E n \in DOMAIN tx.outputs :
                  tx.outputs[n].tag = tag /\ ChainNodeAt(tx, id, tag) = <<id, n - 1>>
    BY <1>3, NodeAt DEF Written
  <1>4. ASSUME NEW k \in DOMAIN entry'
        PROVE  \/ k \in DOMAIN entry /\ entry'[k].at = entry[k].at
               \/ \E n \in DOMAIN tx.outputs :
                       /\ tx.outputs[n].tag \in {"new-node", "covering-node"}
                       /\ entry'[k].at = <<id, n - 1>>
    <2>1. CASE tx.splits # {} /\ \E tag \in {"new-node", "covering-node"} :
                                    entry'[k].at = ChainNodeAt(tx, id, tag)
      <3>1. PICK tag \in {"new-node", "covering-node"} : entry'[k].at = ChainNodeAt(tx, id, tag)
        BY <2>1
      <3> QED
        BY <1>3, <2>1, <3>1
    <2> QED
      BY <1>2, <2>1
  <1> QED
    BY <1>1, <1>4 DEF NodesMoved

LEMMA LandingKeepsEntries ==
    ASSUME EntriesInv, NEW tx, Placed(tx), Written(tx), ChainLands(tx)
    PROVE  EntriesInv'
  <1>1. PICK id \in TxIds : entry' = ChainEntries(tx, id)
    BY DEF ChainLands
  <1>2. tx.splits # {} => tx.policy \in Policies
    BY DEF Placed, Policies
  <1>3. NodesMoved(tx, id)
    BY <1>1, LandedEntries
  <1>4. DOMAIN entry' \subseteq {0} \cup Policies
    BY <1>2, <1>3 DEF EntriesInv, NodesMoved
  <1>5. ASSUME NEW k \in DOMAIN entry'
        PROVE  entry'[k].at \in {OriginRef} \cup (TxIds \X Nat)
    <2>1. \A n \in DOMAIN tx.outputs : n - 1 \in Nat
      BY DEF Written
    <2> QED
      <3>1. CASE k \in DOMAIN entry /\ entry'[k].at = entry[k].at
        BY <3>1 DEF EntriesInv
      <3>2. CASE \E n \in DOMAIN tx.outputs : entry'[k].at = <<id, n - 1>>
        BY <2>1, <3>2
      <3> QED
        BY <1>3, <3>1, <3>2 DEF NodesMoved
  <1> QED
    BY <1>4, <1>5 DEF EntriesInv, Policies, Instances

\* A transaction's outputs are new, and those that may hold tokens are not its
\* registry nodes.
LEMMA LandingKeepsTokens ==
    ASSUME EntriesInv, TokensInv, NEW tx, Placed(tx), Written(tx), ChainLands(tx)
    PROVE  TokensInv'
  <1>1. PICK id \in TxIds \ ChainIdsInUse :
          /\ tokens' = (tokens \ TokensIn(tx)) \cup ChainTokens(tx, id)
          /\ entry' = ChainEntries(tx, id)
    BY DEF ChainLands
  <1> DEFINE P == Positions(tx)
             new == ChainTokens(tx, id)
             token(n) == [at |-> <<id, n - 1>>, policy |-> tx.policy,
                          owner |-> tx.outputs[n].owner, qty |-> tx.outputs[n].qty]
  <1>2. \A n \in P : /\ n \in DOMAIN tx.outputs /\ n \in Nat \ {0}
                     /\ tx.outputs[n].tag \notin {"new-node", "covering-node"}
                     /\ tx.outputs[n].owner \in Holders /\ tx.outputs[n].qty \in Nat \ {0}
    BY DEF Positions, Written
  <1>3. \A t \in new : \E n \in P : t = token(n)
    BY DEF ChainTokens
  <1>4. \A n : /\ token(n).at = <<id, n - 1>> /\ token(n).policy = tx.policy
               /\ token(n).owner = tx.outputs[n].owner /\ token(n).qty = tx.outputs[n].qty
    OBVIOUS
  <1>5. IsFiniteSet(new)
    <2> DEFINE f == [n \in P |-> token(n)]
    <2>1. IsFiniteSet(P)
      BY FS_Subset DEF Positions, Written
    <2>2. f \in Surjection(P, new)
      BY DEF ChainTokens, Surjection
    <2> QED
      BY <2>1, <2>2, FS_Surjection
  <1> HIDE DEF token, new, P
  <1>6. IsFiniteSet(tokens')
    <2>1. IsFiniteSet(tokens \ TokensIn(tx))
      BY FS_Subset DEF TokensInv
    <2> QED
      BY <1>1, <1>5, <2>1, FS_Union DEF new
  <1>7. tokens' \subseteq tokens \cup new
    BY <1>1 DEF new
  <1>8. NodesMoved(tx, id)
    BY <1>1, LandedEntries
  <1>9. ASSUME NEW t \in tokens'
        PROVE  /\ t.at \in TxIds \X Nat
               /\ t.policy \in DOMAIN entry' /\ t.owner \in Holders
               /\ t.qty \in Nat \ {0}
    <2>1. CASE t \in tokens
      BY <1>8, <2>1 DEF TokensInv, NodesMoved
    <2>2. CASE t \in new
      <3>1. PICK n \in P : t = token(n)
        BY <1>3, <2>2
      <3>2. t.at \in TxIds \X Nat
        <4>1. n - 1 \in Nat
          BY <1>2
        <4>2. t.at = <<id, n - 1>>
          BY <1>4, <3>1
        <4> QED
          BY <4>1, <4>2
      <3>3. t.policy \in DOMAIN entry'
        <4>1. tx.splits # {} \/ tx.policy \in DOMAIN entry
          BY DEF Written, P
        <4>2. tx.policy \in DOMAIN entry'
          BY <1>8, <4>1 DEF NodesMoved
        <4> QED
          BY <1>4, <3>1, <4>2
      <3> QED
        BY <1>2, <1>4, <3>1, <3>2, <3>3
    <2> QED
      BY <1>7, <2>1, <2>2
  <1>10. /\ \A t \in tokens : t.at[1] # id
         /\ \A k \in DOMAIN entry : entry[k].at[1] # id
    BY <1>1 DEF ChainIdsInUse
  <1>11. \A n : token(n).at[1] = id /\ token(n).at[2] = n - 1
    BY <1>4
  <1>12. ASSUME NEW t \in tokens', NEW u \in tokens', t.at = u.at
         PROVE  t = u
    <2>1. CASE t \in tokens /\ u \in tokens
      BY <1>12, <2>1 DEF TokensInv
    <2>2. CASE t \in tokens /\ u \in new
      BY <1>3, <1>10, <1>11, <1>12, <2>2
    <2>3. CASE t \in new /\ u \in tokens
      BY <1>3, <1>10, <1>11, <1>12, <2>3
    <2>4. CASE t \in new /\ u \in new
      <3>1. PICK m \in P, n \in P : t = token(m) /\ u = token(n)
        BY <1>3, <2>4
      <3>2. m - 1 = n - 1
        BY <1>11, <1>12, <3>1
      <3>3. m = n
        BY <1>2, <3>2
      <3> QED
        BY <3>1, <3>3
    <2> QED
      BY <1>7, <2>1, <2>2, <2>3, <2>4
  <1>13. ASSUME NEW t \in tokens', NEW k \in DOMAIN entry'
         PROVE  t.at # entry'[k].at
    <2>1. CASE k \in DOMAIN entry /\ entry'[k].at = entry[k].at
      <3>1. CASE t \in tokens
        BY <2>1, <3>1 DEF TokensInv
      <3>2. CASE t \in new
        BY <1>3, <1>10, <1>11, <2>1, <3>2
      <3> QED
        BY <1>7, <3>1, <3>2
    <2>2. CASE \E n \in DOMAIN tx.outputs :
                  /\ tx.outputs[n].tag \in {"new-node", "covering-node"}
                  /\ entry'[k].at = <<id, n - 1>>
      <3>1. PICK n \in DOMAIN tx.outputs :
                  /\ tx.outputs[n].tag \in {"new-node", "covering-node"}
                  /\ entry'[k].at = <<id, n - 1>>
        BY <2>2
      <3>2. CASE t \in tokens
        BY <1>10, <3>1, <3>2
      <3>3. CASE t \in new
        <4>1. PICK m \in P : t = token(m)
          BY <1>3, <3>3
        <4>2. m # n /\ m \in Nat /\ n \in Nat
          BY <1>2, <3>1 DEF Written
        <4>3. t.at[2] # entry'[k].at[2]
          BY <1>11, <3>1, <4>1, <4>2
        <4> QED
          BY <4>3
      <3> QED
        BY <1>7, <3>2, <3>3
    <2> QED
      BY <1>8, <2>1, <2>2 DEF NodesMoved
  <1> QED
    BY <1>6, <1>9, <1>12, <1>13 DEF TokensInv

LEMMA LandingKeepsLists ==
    ASSUME ListsInv, NEW tx, Written(tx), ChainLands(tx)
    PROVE  ListsInv'
  <1>1. frozen' = ChainFrozen(tx) /\ ChainListed(tx)
    BY DEF ChainLands, ChainAccepts
  <1>2. CASE tx.op = "init"
    <2>1. frozen' = [i \in DOMAIN frozen \cup {tx.by} |-> IF i = tx.by THEN {} ELSE frozen[i]]
      BY <1>1, <1>2 DEF ChainFrozen
    <2>2. tx.by \in FreezeAndSeizes
      BY <1>2 DEF Written
    <2> QED
      BY <2>1, <2>2 DEF ListsInv
  <1>3. CASE tx.op = "freeze"
    <2>1. frozen' = [frozen EXCEPT ![tx.by] = @ \cup {tx.target}]
      BY <1>1, <1>3 DEF ChainFrozen
    <2>2. tx.target \in Holders /\ tx.by \in DOMAIN frozen
      BY <1>1, <1>3 DEF Written, ChainListed
    <2> QED
      BY <2>1, <2>2 DEF ListsInv
  <1>4. CASE tx.op = "unfreeze"
    <2>1. frozen' = [frozen EXCEPT ![tx.by] = @ \ {tx.target}]
      BY <1>1, <1>4 DEF ChainFrozen
    <2> QED
      BY <2>1 DEF ListsInv
  <1>5. CASE tx.op \notin {"init", "freeze", "unfreeze"}
    <2>1. frozen' = frozen
      BY <1>1, <1>5 DEF ChainFrozen
    <2> QED
      BY <2>1 DEF ListsInv
  <1> QED
    BY <1>2, <1>3, <1>4, <1>5

LEMMA LandingKeepsLedger ==
    ASSUME LedgerInv, NEW tx, Placed(tx), Written(tx), ChainLands(tx)
    PROVE  LedgerInv'
  <1>1. ScriptsInv'
    BY DEF LedgerInv, ScriptsInv, ChainLands
  <1> QED
    BY <1>1, LandingKeepsDirectory, LandingKeepsNodes, LandingKeepsEntries, LandingKeepsTokens,
       LandingKeepsLists DEF LedgerInv

-----------------------------------------------------------------------------
(* The invariant.                                                          *)

LEMMA InitInv == Init => IInv
  <1> SUFFICES ASSUME Init PROVE IInv
    OBVIOUS
  <1> USE DEF Init, ChainInit
  <1>1. DirectoryInv
    <2>1. directory = {Origin} /\ DOMAIN entry = {0}
      OBVIOUS
    <2>2. {n.key : n \in directory} = {0}
      BY <2>1 DEF Origin
    <2> QED
      BY <2>1, <2>2, OriginSound DEF DirectoryInv
  <1>2. NodesInv
    BY PoliciesAreKeys DEF NodesInv, Keys
  <1>3. EntriesInv
    BY DEF EntriesInv
  <1>4. TokensInv
    BY FS_EmptySet DEF TokensInv
  <1>5. ListsInv /\ ScriptsInv
    <2>1. DOMAIN frozen = {}
      OBVIOUS
    <2> QED
      BY <2>1 DEF ListsInv, ScriptsInv
  <1>6. PoolInv
    BY DEF PoolInv
  <1>7. PluginsInv
    <2>1. \A id \in {Id(i) : i \in Configured} : \E i \in Configured : Id(i) = id
      OBVIOUS
    <2>2. \A id \in DOMAIN plugins : plugins[id] \in Configured
      BY <2>1
    <2> QED
      BY <2>2, ConfiguredAssumption DEF PluginsInv
  <1> QED
    BY <1>1, <1>2, <1>3, <1>4, <1>5, <1>6, <1>7 DEF IInv, LedgerInv

\* Landing a transaction that is placed and written keeps the invariant,
LEMMA LandingKeepsInv ==
    ASSUME IInv, NEW tx, Placed(tx), Written(tx), ChainLands(tx), UNCHANGED plugins
    PROVE  IInv'
  <1>1. PluginsInv'
    BY DEF IInv, PluginsInv
  <1>2. PoolInv'
    BY LandingKeepsPlaces DEF IInv, LedgerInv
  <1>3. LedgerInv'
    BY LandingKeepsLedger DEF IInv
  <1> QED
    BY <1>1, <1>2, <1>3 DEF IInv

\* What is only about the ledger stays while the ledger does.
LEMMA LedgerStays ==
    ASSUME LedgerInv, UNCHANGED ledger
    PROVE  /\ LedgerInv'
           /\ \A t : Placed(t) /\ Written(t) => Placed(t)' /\ Written(t)'
  <1>1. UNCHANGED <<directory, entry, tokens, frozen, published>>
    BY DEF ledger
  <1>2. DirectoryInv' /\ NodesInv'
    BY <1>1 DEF LedgerInv, DirectoryInv, NodesInv, Sound, Increasing, Disjoint, Complete, Linked,
                OwnNode, registryNode, fesNode
  <1>3. EntriesInv' /\ TokensInv' /\ ListsInv' /\ ScriptsInv'
    BY <1>1 DEF LedgerInv, EntriesInv, TokensInv, ListsInv, ScriptsInv, Policies, Instances
  <1>4. \A t : Placed(t) => Placed(t)'
    BY <1>1 DEF Placed, Covering, Brackets, OwnNode, registryNode, fesNode
  <1>5. \A t : Written(t) => Written(t)'
    BY <1>1 DEF Written, Positions
  <1> QED
    BY <1>2, <1>3, <1>4, <1>5 DEF LedgerInv

\* A step that leaves the ledger alone, and adds at most tx to the pool.
LEMMA PoolingKeepsInv ==
    ASSUME IInv, NEW tx, Placed(tx), Written(tx), pool' \subseteq pool \cup {tx},
           UNCHANGED <<ledger, plugins>>
    PROVE  IInv'
  <1>1. LedgerInv' /\ \A t : Placed(t) /\ Written(t) => Placed(t)' /\ Written(t)'
    BY LedgerStays DEF IInv
  <1>2. PoolInv'
    BY <1>1 DEF IInv, PoolInv
  <1>3. PluginsInv'
    BY DEF IInv, PluginsInv
  <1> QED
    BY <1>1, <1>2, <1>3 DEF IInv

\* so does building one, whether it lands now or later,
LEMMA BuildKeepsInv ==
    ASSUME IInv, NEW tx, Placed(tx) /\ Written(tx), Build(tx)
    PROVE  IInv'
  <1>1. CASE ChainLands(tx)
    BY <1>1, LandingKeepsInv DEF Build
  <1>2. CASE pool' = pool \cup {tx} /\ UNCHANGED ledger
    <2>1. UNCHANGED <<ledger, plugins>> /\ pool' \subseteq pool \cup {tx}
      BY <1>2 DEF Build
    <2> QED
      BY <2>1, PoolingKeepsInv
  <1> QED
    BY <1>1, <1>2 DEF Build

\* and so does every step.
LEMMA NextInv == IInv /\ [Next]_vars => IInv'
  <1> SUFFICES ASSUME IInv, [Next]_vars PROVE IInv'
    OBVIOUS
  <1>1. \A i \in Named \cup Fallback : i \in Instances
    BY WalletsAssumption DEF IInv, PluginsInv, Named, Fallback, requireSubstandard,
                             tryAllSubstandards
  <1>2. \A qty \in 1..MaxSupply : qty \in Nat \ {0}
    BY BoundsAssumption
  <1>3. TokensInv
    BY DEF IInv, LedgerInv
  <1>4. CASE Issues
    <2>1. PICK to \in Holders, qty \in 1..MaxSupply :
             \/ \E i \in Named : \E tx \in register(i, to, qty) : Build(tx)
             \/ \E i \in Fallback, p \in Policies : \E tx \in mint(i, p, to, qty) : Build(tx)
      BY <1>4 DEF Issues
    <2>2. qty \in Nat
      BY <1>2
    <2>3. PICK tx : Build(tx) /\ Placed(tx) /\ Written(tx)
      BY <1>1, <2>1, <2>2, RegistrationsBuilt, MintsBuilt
    <2> QED
      BY <2>3, BuildKeepsInv
  <1>5. CASE Redeems
    <2>1. PICK tx : Build(tx) /\ Placed(tx) /\ Written(tx)
      BY <1>3, <1>5, BurnsBuilt DEF Redeems
    <2> QED
      BY <2>1, BuildKeepsInv
  <1>6. CASE Transfers
    <2>1. PICK tx : Build(tx) /\ Placed(tx) /\ Written(tx)
      BY <1>2, <1>3, <1>6, TransfersBuilt DEF Transfers
    <2> QED
      BY <2>1, BuildKeepsInv
  <1>7. CASE Administers
    <2>1. PICK tx : Build(tx) /\ Placed(tx) /\ Written(tx)
      BY <1>2, <1>3, <1>7, AdministersBuilt DEF Administers
    <2> QED
      BY <2>1, BuildKeepsInv
  <1>8. CASE Complies
    <2>1. PICK i \in Named, p \in Policies, target \in Suspects :
             \E tx \in comply(i, p, target) : Build(tx)
      BY <1>8 DEF Complies
    <2>2. i \in FreezeAndSeizes
      BY <1>1, <2>1 DEF comply, Instances
    <2>3. PICK tx : Build(tx) /\ Placed(tx) /\ Written(tx)
      BY <2>1, <2>2, CompliesBuilt
    <2> QED
      BY <2>3, BuildKeepsInv
  <1>9. CASE \E i \in Instances : registerSubstandard(i)
    <2>1. PICK i \in Instances : registerSubstandard(i)
      BY <1>9
    <2>2. LedgerInv' /\ \A t : Placed(t) /\ Written(t) => Placed(t)' /\ Written(t)'
      BY <2>1, LedgerStays DEF registerSubstandard, IInv
    <2>3. PoolInv'
      BY <2>1, <2>2 DEF registerSubstandard, IInv, PoolInv
    <2>4. PluginsInv'
      BY <2>1 DEF registerSubstandard, requirePublishHandlers, IInv, PluginsInv
    <2> QED
      BY <2>2, <2>3, <2>4 DEF IInv
  <1>10. CASE \E tx \in pool : (ChainLands(tx) \/ ChainForgets(tx)) /\ UNCHANGED plugins
    <2>1. PICK tx \in pool : (ChainLands(tx) \/ ChainForgets(tx)) /\ UNCHANGED plugins
      BY <1>10
    <2>2. Placed(tx) /\ Written(tx)
      BY DEF IInv, PoolInv
    <2>3. CASE ChainLands(tx)
      BY <2>1, <2>2, <2>3, LandingKeepsInv
    <2>4. CASE ChainForgets(tx)
      <3>1. pool' \subseteq pool \cup {tx} /\ UNCHANGED <<ledger, plugins>>
        BY <2>1, <2>4 DEF ChainForgets
      <3> QED
        BY <2>2, <3>1, PoolingKeepsInv
    <2> QED
      BY <2>1, <2>3, <2>4
  <1>11. CASE UNCHANGED vars
    <2>1. UNCHANGED <<ledger, pool, plugins>>
      BY <1>11 DEF vars, ledger
    <2>2. LedgerInv' /\ \A t : Placed(t) /\ Written(t) => Placed(t)' /\ Written(t)'
      BY <2>1, LedgerStays DEF IInv
    <2> QED
      BY <2>1, <2>2 DEF IInv, PoolInv, PluginsInv
  <1> QED
    BY <1>4, <1>5, <1>6, <1>7, <1>8, <1>9, <1>10, <1>11 DEF Next

LEMMA Invariance == Spec => []IInv
  BY InitInv, NextInv, PTL DEF Spec

\* Every variable keeps its type, for any number of instances, holders and
\* transactions: the outputs of the supply are of registered policies, and the
\* plugins of the map (index.ts:224) are ones that could be initialised.
THEOREM TypeCorrect == Spec => []TypeOK
  <1>1. IInv => TypeOK
    BY DEF IInv, LedgerInv, DirectoryInv, EntriesInv, TokensInv, ListsInv, PluginsInv, TypeOK
  <1> QED
    BY <1>1, Invariance, PTL

\* The directory of any number of instances is a sound list of the registered
\* policies, however their registrations (dummy/index.ts:350,
\* freeze-and-seize/index.ts:420) race.
THEOREM DirectoryStaysSound == Spec => []DirectorySound
  <1>1. IInv => DirectorySound
    BY DEF IInv, LedgerInv, DirectoryInv, DirectorySound
  <1> QED
    BY <1>1, Invariance, PTL

-----------------------------------------------------------------------------
(* Whose token a build is accepted for.                                    *)

LEMMA SelectedSpent ==
    ASSUME NEW owner, NEW p, NEW qty, NEW tx,
           NEW s \in selectUtxosForAmount(Holdings(owner, p), qty), Refs(s) \subseteq tx.spends
    PROVE  TokensIn(tx) # {}
  <1>1. PICK t \in s : t \in tokens
    BY DEF selectUtxosForAmount, Holdings
  <1>2. t.at \in tx.spends
    BY DEF Refs
  <1> QED
    BY <1>1, <1>2 DEF TokensIn

\* A transfer that the dummy builds withdraws from its own transfer logic and
\* from the deployment's scripts, none of which another node names.
LEMMA DummyTransferRefused ==
    ASSUME NodesInv, NEW i \in Dummies, NEW p \in Policies \ {PolicyOf[i]},
           NEW from, NEW to, NEW qty, NEW tx \in dummyTransfer(i, from, to, p, qty)
    PROVE  ~ChainAccepts(tx)
  <1> SUFFICES ASSUME ChainAccepts(tx) PROVE FALSE
    OBVIOUS
  <1>1. PICK s \in selectUtxosForAmount(Holdings(from, p), qty) : \E refs, spent, positions :
          tx = Transferring(i, p, from, to, qty, refs, s, spent, positions)
    BY DEF dummyTransfer, When
  <1>2. /\ tx.policy = p /\ tx.act = "TRANSFER" /\ Refs(s) \subseteq tx.spends
        /\ tx.withdraws = {Plg, CoreTransfer, TransferLogic[i]}
    BY <1>1, TransferringIs
  <1>3. TokensIn(tx) # {}
    BY <1>2, SelectedSpent
  <1>4. p \in DOMAIN entry /\ entry[p].transfer \in {Plg, CoreTransfer, TransferLogic[i]}
    BY <1>2, <1>3 DEF ChainAccepts, ChainSpends, ChainTransfers
  <1>5. PICK j \in Instances : p = PolicyOf[j] /\ j # i
    BY DEF Policies
  <1>6. entry[p].transfer = TransferLogic[j]
    BY <1>4, <1>5 DEF NodesInv, OwnNode, registryNode, fesNode
  <1> QED
    BY <1>4, <1>5, <1>6, InstancesAssumption DEF Instances, Injection, IsInjective

LEMMA ThirdPartyTransferRefused ==
    ASSUME NodesInv, NEW i \in Dummies, NEW p \in Policies \ {PolicyOf[i]},
           NEW holder, NEW to, NEW qty, NEW tx \in thirdPartyTransfer(i, holder, to, p, qty)
    PROVE  ~ChainAccepts(tx)
  <1> SUFFICES ASSUME ChainAccepts(tx) PROVE FALSE
    OBVIOUS
  <1>1. PICK s \in selectUtxosForAmount(Holdings(holder, p), qty) : \E refs, outputs, positions :
          tx = ThirdPartyAct("thirdPartyTransfer", i, p, {}, TransferLogic[i], refs, Refs(s), 1,
                             outputs, positions)
    BY DEF thirdPartyTransfer, When
  <1>2. /\ tx.policy = p /\ tx.act = "THIRD_PARTY" /\ tx.spends = Refs(s)
        /\ tx.withdraws = {Plg, ThirdParty, TransferLogic[i]}
    BY <1>1, ThirdPartyActIs
  <1>3. TokensIn(tx) # {}
    BY <1>2, SelectedSpent
  <1>4. p \in DOMAIN entry /\ entry[p].thirdParty \in {Plg, ThirdParty, TransferLogic[i]}
    BY <1>2, <1>3 DEF ChainAccepts, ChainSpends, ChainSeizes
  <1>5. PICK j \in Instances : p = PolicyOf[j] /\ j # i
    BY DEF Policies
  <1>6. entry[p].thirdParty \in {TransferLogic[j], MintingLogic[j]}
    BY <1>4, <1>5 DEF NodesInv, OwnNode, registryNode, fesNode
  <1> QED
    BY <1>4, <1>5, <1>6, InstancesAssumption DEF Instances, Injection, IsInjective

\* For any number of tokens and plugins, the fall-back of index.ts:248 never
\* turns the refusal of a token's own plugin into a transaction of another.
THEOREM OwnersRefusalIsFinal == Spec => []OnlyOwnerServes
  <1>1. IInv => OnlyOwnerServes
    <2> SUFFICES ASSUME IInv, NEW i \in tryAllSubstandards,
                        NEW p \in Policies \ {PolicyOf[i]}, NEW tx \in Offers(i, p)
                 PROVE  ~ChainAccepts(tx)
      BY DEF OnlyOwnerServes
    <2>1. i \in Instances
      BY WalletsAssumption DEF IInv, PluginsInv, tryAllSubstandards
    <2>2. PICK from \in Holders, to \in Holders, qty \in 1..MaxSupply :
             \/ tx \in mint(i, p, to, qty) \cup burn(i, p)
             \/ tx \in transfer(i, p, from, to, qty) \cup administer(i, p, from, to, qty)
      BY DEF Offers
    <2>3. CASE i \in Dummies
      <3>1. mint(i, p, to, qty) = {} /\ burn(i, p) = {}
        BY <2>3 DEF mint, burn, dummyMint, dummyBurn, When
      <3>2. \/ tx \in dummyTransfer(i, from, to, p, qty)
            \/ tx \in thirdPartyTransfer(i, from, to, p, qty)
        BY <2>2, <2>3, <3>1 DEF transfer, administer
      <3> QED
        BY <2>3, <3>2, DummyTransferRefused, ThirdPartyTransferRefused DEF IInv, LedgerInv
    <2>4. CASE i \notin Dummies
      <3>1. mint(i, p, to, qty) = {} /\ transfer(i, p, from, to, qty) = {}
        BY <2>4 DEF mint, transfer, fesMint, fesTransfer, When
      <3>2. burn(i, p) = {}
        BY <2>4 DEF burn, fesBurn, When
      <3>3. administer(i, p, from, to, qty) = {}
        BY <2>4 DEF administer, seize, When
      <3> QED
        BY <2>2, <3>1, <3>2, <3>3
    <2> QED
      BY <2>3, <2>4
  <1> QED
    BY <1>1, Invariance, PTL

-----------------------------------------------------------------------------
(* Where a script finds what a builder wrote down.                         *)

\* The outputs of the deployment, the registry nodes and the tokens are told
\* apart by the ledger's order as well.
LEMMA AddressesApart ==
    ASSUME EntriesInv, TokensInv
    PROVE  /\ \A d \in Deployed : d \in Nat \X Nat
           /\ \A k \in DOMAIN entry :
                 /\ entry[k].at \in Nat \X Nat
                 /\ \A d \in Deployed \ {OriginRef} : InputRank(entry[k].at) # InputRank(d)
           /\ \A t \in tokens :
                 /\ t.at \in Nat \X Nat
                 /\ \A d \in Deployed : InputRank(t.at) # InputRank(d)
           /\ \A t, u \in tokens : InputRank(t.at) = InputRank(u.at) => t = u
  <1>1. \A d \in Deployed : d \in Nat \X Nat
    BY OutputsAssumption
  <1>2. \A a \in TxIds \X Nat : a \in Nat \X Nat /\ a[1] \in TxIds
    BY OutputsAssumption
  <1>3. ASSUME NEW a \in TxIds \X Nat, NEW d \in Deployed PROVE InputRank(a) # InputRank(d)
    <2>1. Bytes(a[1]) # Bytes(d[1])
      BY <1>2, OutputsAssumption
    <2> QED
      BY <2>1 DEF InputRank
  <1>4. OriginRef \in Deployed
    BY DEF Deployed
  <1>5. ASSUME NEW k \in DOMAIN entry
        PROVE  /\ entry[k].at \in Nat \X Nat
               /\ \A d \in Deployed \ {OriginRef} : InputRank(entry[k].at) # InputRank(d)
    <2>1. CASE entry[k].at = OriginRef
      BY <1>1, <1>4, <2>1, OutputsAssumption
    <2>2. CASE entry[k].at \in TxIds \X Nat
      BY <1>2, <1>3, <2>2
    <2> QED
      BY <2>1, <2>2 DEF EntriesInv
  <1>6. ASSUME NEW t \in tokens
        PROVE  t.at \in Nat \X Nat /\ \A d \in Deployed : InputRank(t.at) # InputRank(d)
    BY <1>2, <1>3 DEF TokensInv
  <1>7. ASSUME NEW t \in tokens, NEW u \in tokens, InputRank(t.at) = InputRank(u.at)
        PROVE  t = u
    <2>1. t.at \in TxIds \X Nat /\ u.at \in TxIds \X Nat
      BY DEF TokensInv
    <2>2. t.at[1] = u.at[1] /\ t.at[2] = u.at[2]
      BY <1>2, <1>7, <2>1, OutputsAssumption DEF InputRank
    <2>3. t.at = u.at
      BY <2>1, <2>2
    <2> QED
      BY <2>3 DEF TokensInv
  <1> QED
    BY <1>1, <1>5, <1>6, <1>7

\* A script that looks for a reference input where the builder counted it
\* finds it there.
LEMMA ReadFound ==
    ASSUME NEW refs \in Seq(Nat \X Nat), Distinct(InputRanks(refs)), NEW tx,
           tx.reads = Range(refs), NEW target, NEW n \in referenceInputIndexOf(refs, target)
    PROVE  ChainReads(tx, n, target)
  <1>1. InputRanks(refs) \in Seq(Rank) /\ DOMAIN InputRanks(refs) = DOMAIN refs
    BY InputRanksType
  <1>2. Entries(InputRanks(refs)) = {InputRank(r) : r \in tx.reads}
    BY <1>1 DEF Entries, InputRanks, Range
  <1>3. ChainFinds(Entries(InputRanks(refs)), n, InputRank(target))
    BY <1>1, PositionFound DEF referenceInputIndexOf
  <1> QED
    BY <1>2, <1>3 DEF ChainReads

\* The same of a withdrawal.
LEMMA WithdrawalFound ==
    ASSUME NEW all \in Seq({0, 1} \X Nat), Distinct(KeyRanks(all)), NEW tx,
           Range(all) = {ScriptKey(h) : h \in tx.withdraws},
           NEW hash, NEW n \in withdrawalIndexOf(all, ScriptKey(hash))
    PROVE  ChainWithdraws(tx, n, hash)
  <1>1. KeyRanks(all) \in Seq(Rank) /\ DOMAIN KeyRanks(all) = DOMAIN all
    BY KeyRanksType
  <1>2. Entries(KeyRanks(all)) = {KeyRank(k) : k \in Range(all)}
    BY <1>1 DEF Entries, KeyRanks, Range
  <1>3. Entries(KeyRanks(all)) = {KeyRank(ScriptKey(h)) : h \in tx.withdraws}
    BY <1>2
  <1>4. ChainFinds(Entries(KeyRanks(all)), n, KeyRank(ScriptKey(hash)))
    BY <1>1, PositionFound DEF withdrawalIndexOf
  <1> QED
    BY <1>3, <1>4 DEF ChainWithdraws

\* Two outputs that are told apart make a list of reads,
LEMMA TwoReads ==
    ASSUME NEW a \in Nat \X Nat, NEW b \in Nat \X Nat, InputRank(a) # InputRank(b)
    PROVE  LET refs == <<a, b>>
           IN  /\ refs \in Seq(Nat \X Nat) /\ Distinct(InputRanks(refs))
               /\ Range(refs) = {a, b}
  <1> DEFINE refs == <<a, b>>
  <1>1. /\ refs \in Seq(Nat \X Nat) /\ DOMAIN refs = 1..2 /\ refs[1] = a /\ refs[2] = b
    OBVIOUS
  <1> HIDE DEF refs
  <1>2. Range(refs) = {a, b}
    BY <1>1 DEF Range
  <1>3. Distinct(InputRanks(refs))
    BY <1>1 DEF Distinct, InputRanks
  <1> QED
    BY <1>1, <1>2, <1>3 DEF refs

\* and so do three.
LEMMA ThreeReads ==
    ASSUME NEW a \in Nat \X Nat, NEW b \in Nat \X Nat, NEW c \in Nat \X Nat,
           InputRank(a) # InputRank(b), InputRank(a) # InputRank(c), InputRank(b) # InputRank(c)
    PROVE  LET refs == <<a, b, c>>
           IN  /\ refs \in Seq(Nat \X Nat) /\ Distinct(InputRanks(refs))
               /\ Range(refs) = {a, b, c}
  <1> DEFINE refs == <<a, b, c>>
  <1>1. /\ refs \in Seq(Nat \X Nat) /\ DOMAIN refs = 1..3
        /\ refs[1] = a /\ refs[2] = b /\ refs[3] = c
    OBVIOUS
  <1> HIDE DEF refs
  <1>2. Range(refs) = {a, b, c}
    BY <1>1 DEF Range
  <1>3. Distinct(InputRanks(refs))
    BY <1>1 DEF Distinct, InputRanks
  <1> QED
    BY <1>1, <1>2, <1>3 DEF refs

\* A list of script credentials, as the ledger sees it.
LEMMA ScriptKeysListed ==
    ASSUME NEW N \in Nat, NEW hashes \in [1..N -> Nat], NEW all, DOMAIN all = 1..N,
           all = [n \in 1..N |-> all[n]],
           \A n \in 1..N : all[n] = ScriptKey(hashes[n])
    PROVE  /\ all \in Seq({0, 1} \X Nat)
           /\ Range(all) = {ScriptKey(h) : h \in Range(hashes)}
  <1>1. \A n \in 1..N : ScriptKey(hashes[n]) \in {0, 1} \X Nat
    BY DEF ScriptKey
  <1>2. all \in [1..N -> {0, 1} \X Nat]
    BY <1>1
  <1>3. all \in Seq({0, 1} \X Nat)
    BY <1>2, IsSequence
  <1>4. Range(all) = {ScriptKey(h) : h \in Range(hashes)}
    BY DEF Range
  <1> QED
    BY <1>3, <1>4

\* The dispatcher among three scripts.
LEMMA DispatcherFound ==
    ASSUME NEW a \in Nat, NEW b \in Nat, NEW tx, tx.withdraws = {Plg, a, b},
           NEW plan \in plbWithdrawalPlan(ScriptKey(Plg), <<ScriptKey(a), ScriptKey(b)>>)
    PROVE  ChainWithdraws(tx, plan.plgIdx, Plg)
  <1> DEFINE all == <<ScriptKey(Plg)>> \o <<ScriptKey(a), ScriptKey(b)>>
             hashes == <<Plg, a, b>>
  <1>1. Plg \in Nat
    BY InstancesAssumption
  <1>2. /\ hashes \in [1..3 -> Nat] /\ hashes[1] = Plg /\ hashes[2] = a /\ hashes[3] = b
        /\ DOMAIN hashes = 1..3
    BY <1>1
  <1>3. /\ DOMAIN all = 1..3 /\ all = [n \in 1..3 |-> all[n]]
        /\ all[1] = ScriptKey(Plg) /\ all[2] = ScriptKey(a) /\ all[3] = ScriptKey(b)
    OBVIOUS
  <1>4. Distinct(KeyRanks(all)) /\ plan.plgIdx \in withdrawalIndexOf(all, ScriptKey(Plg))
    <2> HIDE DEF all
    <2>1. plan \in {[all |-> all, plgIdx |-> n] :
              n \in IF Distinct(KeyRanks(all)) THEN withdrawalIndexOf(all, ScriptKey(Plg)) ELSE {}}
      BY DEF plbWithdrawalPlan, all
    <2> QED
      BY <2>1
  <1> HIDE DEF all, hashes
  <1>5. Range(hashes) = {Plg, a, b}
    BY <1>2 DEF Range
  <1>6. \A n \in 1..3 : all[n] = ScriptKey(hashes[n])
    BY <1>2, <1>3
  <1>7. all \in Seq({0, 1} \X Nat) /\ Range(all) = {ScriptKey(h) : h \in Range(hashes)}
    <2>1. hashes \in [1..3 -> Nat] /\ 3 \in Nat
      BY <1>2
    <2>2. DOMAIN all = 1..3 /\ all = [n \in 1..3 |-> all[n]]
      BY <1>3
    <2> QED
      BY <1>6, <2>1, <2>2, ScriptKeysListed
  <1>8. Range(all) = {ScriptKey(h) : h \in tx.withdraws}
    BY <1>5, <1>7
  <1> QED
    BY <1>4, <1>7, <1>8, WithdrawalFound

\* A plan of an issuance puts no entry in twice.
LEMMA IssuancePlanIs ==
    ASSUME NEW logic, NEW plg, NEW others, NEW refs, NEW params, NEW outputs, NEW source,
           NEW plan \in issuancePlan(logic, plg, others, refs, params, outputs, source)
    PROVE  LET all == plg \o <<logic>> \o others
           IN  /\ Distinct(KeyRanks(all)) /\ Distinct(InputRanks(refs))
               /\ plan.plgIdx \in IF plg = << >> THEN {-1} ELSE withdrawalIndexOf(all, plg[1])
               /\ plan.paramsIdx \in referenceInputIndexOf(refs, params)
               /\ plan.proof \in {source[1]} \X ProofIndex(refs, outputs, source)
  <1> DEFINE all == plg \o <<logic>> \o others
             plgIdx == IF plg = << >> THEN {-1} ELSE withdrawalIndexOf(all, plg[1])
             proofs == {source[1]} \X ProofIndex(refs, outputs, source)
  <1>1. /\ plan \in [all : {all}, plgIdx : plgIdx,
                     paramsIdx : referenceInputIndexOf(refs, params), proof : proofs]
        /\ Distinct(KeyRanks(all)) /\ Distinct(InputRanks(refs))
    <2> HIDE DEF all, plgIdx, proofs
    <2> QED
      BY DEF issuancePlan, all, plgIdx, proofs
  <1>2. /\ plan.plgIdx \in plgIdx
        /\ plan.paramsIdx \in referenceInputIndexOf(refs, params)
        /\ plan.proof \in proofs
    <2> HIDE DEF all, plgIdx, proofs
    <2> QED
      BY <1>1
  <1> QED
    BY <1>1, <1>2

\* An issue or a redemption under a registered policy refers to its node.
RefersToNode(p, plan) ==
    /\ Distinct(InputRanks(mintRefs(p)))
    /\ plan.paramsIdx \in referenceInputIndexOf(mintRefs(p), Params)
    /\ plan.proof \in {"reference-input"} \X referenceInputIndexOf(mintRefs(p), entry[p].at)

\* A plan over the reads of a mint finds the node among them.
LEMMA PlanRefersToNode ==
    ASSUME NEW p, NEW logic, NEW plg, NEW others,
           NEW plan \in issuancePlan(logic, plg, others, mintRefs(p), Params, << >>,
                                     <<"reference-input", entry[p].at>>)
    PROVE  RefersToNode(p, plan)
  <1> DEFINE node == entry[p].at
             source == <<"reference-input", node>>
             refs == mintRefs(p)
  <1>1. /\ Distinct(InputRanks(refs))
        /\ plan.paramsIdx \in referenceInputIndexOf(refs, Params)
        /\ plan.proof \in {source[1]} \X ProofIndex(refs, << >>, source)
    <2> HIDE DEF refs, source
    <2> QED
      BY IssuancePlanIs DEF refs, source
  <1>2. ProofIndex(refs, << >>, source) = referenceInputIndexOf(refs, node)
    BY DEF ProofIndex
  <1> QED
    BY <1>1, <1>2 DEF RefersToNode

\* issuance_logic finds the node that the proof of a mint or a burn names.
LEMMA NodeProofFound ==
    ASSUME EntriesInv, TokensInv, NEW i \in Instances, NEW p, p = PolicyOf[i], p \in DOMAIN entry,
           NEW plan, RefersToNode(p, plan),
           NEW tx, tx.policy = p, tx.reads = Range(mintRefs(p)),
           {MintingLogic[i], IssuanceLogic} \subseteq tx.withdraws,
           tx.issuance.paramsIdx = plan.paramsIdx, tx.issuance.proof = plan.proof
    PROVE  ChainIssues(tx) /\ ChainReads(tx, plan.paramsIdx, Params)
  <1> DEFINE node == entry[p].at
             refs == mintRefs(p)
  <1>1. /\ Distinct(InputRanks(refs))
        /\ plan.paramsIdx \in referenceInputIndexOf(refs, Params)
    BY DEF RefersToNode
  <1>3. plan.proof[1] = "reference-input" /\ plan.proof[2] \in referenceInputIndexOf(refs, node)
    BY DEF RefersToNode
  <1>4. refs \in Seq(Nat \X Nat)
    <2>1. {Params, LogicRef} \subseteq Deployed
      BY DEF Deployed
    <2> QED
      BY <2>1, AddressesApart DEF mintRefs
  <1> HIDE DEF refs
  <1>5. tx.reads = Range(refs)
    BY DEF refs
  <1>6. ChainReads(tx, plan.paramsIdx, Params) /\ ChainReads(tx, plan.proof[2], node)
    BY <1>1, <1>3, <1>4, <1>5, ReadFound
  <1>7. ChainIssues(tx)
    BY <1>3, <1>6 DEF ChainIssues
  <1> QED
    BY <1>6, <1>7

\* A registration points to the node among its own outputs.
LEMMA OutputProofFound ==
    ASSUME NEW i \in Instances, NEW tags, NEW N \in Nat, DOMAIN tags = 1..N,
           NEW to, NEW qty,
           NEW plan \in registerPlans(i, tags),
           NEW tx, tx.policy = PolicyOf[i], tx.reads = Range(registerRefs),
           {MintingLogic[i], IssuanceLogic} \subseteq tx.withdraws,
           tx.outputs = RegisterOutputs(tags, to, qty),
           tx.issuance.paramsIdx = plan.paramsIdx, tx.issuance.proof = plan.proof
    PROVE  ChainIssues(tx)
  <1> DEFINE source == <<"output", "new-node">>
             refs == registerRefs
  <1>1. /\ Distinct(InputRanks(refs))
        /\ plan.paramsIdx \in referenceInputIndexOf(refs, Params)
        /\ plan.proof \in {source[1]} \X ProofIndex(refs, tags, source)
    <2> HIDE DEF refs, source
    <2> QED
      BY IssuancePlanIs DEF refs, source, registerPlans
  <1>2. ProofIndex(refs, tags, source) = outputIndexOf(tags, "new-node")
    BY DEF ProofIndex
  <1>3. plan.proof[1] = "output" /\ plan.proof[2] \in outputIndexOf(tags, "new-node")
    BY <1>1, <1>2
  <1>4. plan.proof[2] + 1 \in 1..N /\ tags[plan.proof[2] + 1] = "new-node"
    BY <1>3 DEF outputIndexOf
  <1>5. refs \in Seq(Nat \X Nat)
    BY OutputsAssumption DEF registerRefs, Deployed
  <1> HIDE DEF refs
  <1>6. ChainReads(tx, plan.paramsIdx, Params)
    BY <1>1, <1>5, ReadFound DEF refs
  <1>7. /\ plan.proof[2] + 1 \in DOMAIN tx.outputs
        /\ tx.outputs[plan.proof[2] + 1].tag = "new-node"
    <2>1. DOMAIN tx.outputs = 1..N
      BY DEF RegisterOutputs
    <2>2. \A n \in 1..N : tx.outputs[n].tag = tags[n]
      BY OutputIs DEF RegisterOutputs, Pays
    <2> QED
      BY <1>4, <2>1, <2>2
  <1> QED
    BY <1>3, <1>6, <1>7 DEF ChainIssues

\* The issuer's script asks for the admin, that of another is not called, and
\* no transfer logic is.
LEMMA IssuersAgree ==
    ASSUME NEW i \in Instances, NEW tx,
           tx.withdraws \subseteq {MintingLogic[i], IssuanceLogic, Plg, ThirdParty},
           i \in FreezeAndSeizes => Admin \in tx.signers
    PROVE  ChainLogicAgrees(tx)
  <1>1. ASSUME NEW j \in FreezeAndSeizes
        PROVE  /\ MintingLogic[j] \in tx.withdraws => j = i
               /\ TransferLogic[j] \notin tx.withdraws
    <2>1. j \in Instances
      BY DEF Instances
    <2>2. MintingLogic[j] = MintingLogic[i] => j = i
      BY <2>1, InstancesAssumption DEF Injection, IsInjective
    <2>3. TransferLogic[j] # MintingLogic[i]
      BY <2>1, InstancesAssumption
    <2>4. {MintingLogic[j], TransferLogic[j]} \cap {Plg, CoreTransfer, ThirdParty, IssuanceLogic} = {}
      BY <2>1, InstancesAssumption
    <2> QED
      BY <2>2, <2>3, <2>4
  <1> QED
    BY <1>1 DEF ChainLogicAgrees

\* No other list than that of the instance is asked for.
LEMMA OwnersAgree ==
    ASSUME NEW i \in Instances, NEW tx,
           tx.withdraws \subseteq {TransferLogic[i], CoreTransfer, Plg, ThirdParty},
           i \in FreezeAndSeizes => /\ i \in DOMAIN frozen
                                    /\ ChainReads(tx, tx.proofIdx, BlacklistRef[i])
                                    /\ \A t \in TokensIn(tx) : t.owner \notin frozen[i]
    PROVE  ChainLogicAgrees(tx)
  <1>1. ASSUME NEW j \in FreezeAndSeizes
        PROVE  /\ MintingLogic[j] \notin tx.withdraws
               /\ TransferLogic[j] \in tx.withdraws => j = i
    <2>1. j \in Instances
      BY DEF Instances
    <2>2. TransferLogic[j] = TransferLogic[i] => j = i
      BY <2>1, InstancesAssumption DEF Injection, IsInjective
    <2>3. MintingLogic[j] # TransferLogic[i]
      BY <2>1, InstancesAssumption
    <2>4. {MintingLogic[j], TransferLogic[j]} \cap {Plg, CoreTransfer, ThirdParty, IssuanceLogic} = {}
      BY <2>1, InstancesAssumption
    <2> QED
      BY <2>2, <2>3, <2>4
  <1> QED
    BY <1>1 DEF ChainLogicAgrees

-----------------------------------------------------------------------------
(* What goes in and what comes out.                                        *)

\* A transaction consumes the tokens it was given, and no others.
LEMMA SpentTokens ==
    ASSUME TokensInv, NEW s \in SUBSET tokens, NEW tx, NEW rest,
           tx.spends = Refs(s) \cup rest, \A t \in tokens : t.at \notin rest
    PROVE  TokensIn(tx) = s
  BY DEF TokensIn, Refs, TokensInv

\* Reference scripts and registry nodes are not tokens.
LEMMA ScriptsAreNotTokens ==
    ASSUME EntriesInv, TokensInv, ScriptsInv, NEW payer, NEW spent \in UnfilteredFunds(payer)
    PROVE  /\ spent \subseteq {LogicRef, ThirdPartyRef}
           /\ \A t \in tokens : t.at \notin spent
  <1>1. spent \subseteq {LogicRef, ThirdPartyRef}
    BY DEF UnfilteredFunds, ScriptsInv
  <1>2. {LogicRef, ThirdPartyRef} \subseteq Deployed
    BY DEF Deployed
  <1> QED
    BY <1>1, <1>2, AddressesApart

\* One output of the supply, whatever else there is.
LEMMA OnePaid ==
    ASSUME NEW tx, NEW N \in Nat \ {0}, DOMAIN tx.outputs = 1..N,
           tx.outputs[1].tag \notin {"new-node", "covering-node", "cip68-reference"},
           tx.outputs[1].qty \in Nat,
           \A n \in 2..N : \/ tx.outputs[n].tag \in {"new-node", "covering-node", "cip68-reference"}
                           \/ tx.outputs[n].qty = 0
    PROVE  QuantityOut(tx) = tx.outputs[1].qty
  <1> DEFINE paid == [at |-> <<0, 1 - 1>>, policy |-> tx.policy, owner |-> tx.outputs[1].owner,
                      qty |-> tx.outputs[1].qty]
  <1>1. \A n \in 1..N : n = 1 \/ n \in 2..N
    OBVIOUS
  <1>2. Positions(tx) = IF tx.outputs[1].qty = 0 THEN {} ELSE {1}
    BY <1>1 DEF Positions
  <1>3. CASE tx.outputs[1].qty = 0
    <2>1. ChainTokens(tx, 0) = {}
      BY <1>2, <1>3 DEF ChainTokens
    <2> QED
      BY <1>3, <2>1, QuantityOfNone DEF QuantityOut
  <1>4. CASE tx.outputs[1].qty # 0
    <2>1. ChainTokens(tx, 0) = {paid}
      BY <1>2, <1>4 DEF ChainTokens
    <2>2. paid.qty = tx.outputs[1].qty
      OBVIOUS
    <2> HIDE DEF paid
    <2> QED
      BY <2>1, <2>2, QuantityOfOne DEF QuantityOut
  <1> QED
    BY <1>3, <1>4

\* A transfer's two outputs are worth what was selected.
LEMMA ChangePaid ==
    ASSUME NEW from, NEW to, NEW qty \in Nat \ {0}, NEW total \in Nat, total >= qty,
           NEW tx, tx.outputs = TransferOutputs(from, to, qty, total)
    PROVE  QuantityOut(tx) = total
  <1>1. CASE ~(total > qty)
    <2>1. tx.outputs = <<Pays("paid", to, qty)>>
      BY <1>1 DEF TransferOutputs
    <2>2. /\ DOMAIN tx.outputs = 1..1 /\ tx.outputs[1].tag = "paid"
          /\ tx.outputs[1].qty = qty
      BY <2>1, OutputIs DEF Pays
    <2>3. 1 \in Nat \ {0} /\ 2..1 = {}
      OBVIOUS
    <2>4. QuantityOut(tx) = tx.outputs[1].qty
      BY <2>2, <2>3, OnePaid
    <2> QED
      BY <1>1, <2>2, <2>4
  <1>2. CASE total > qty
    <2> DEFINE token(n) == [at |-> <<0, n - 1>>, policy |-> tx.policy,
                            owner |-> tx.outputs[n].owner, qty |-> tx.outputs[n].qty]
    <2>1. tx.outputs = <<Pays("change", from, total - qty), Pays("paid", to, qty)>>
      BY <1>2 DEF TransferOutputs
    <2>2. /\ DOMAIN tx.outputs = 1..2
          /\ tx.outputs[1].tag = "change" /\ tx.outputs[1].qty = total - qty
          /\ tx.outputs[2].tag = "paid" /\ tx.outputs[2].qty = qty
      BY <2>1, OutputIs DEF Pays
    <2>3. Positions(tx) = {1, 2}
      <3>1. total - qty > 0 /\ qty > 0
        BY <1>2
      <3> QED
        BY <2>2, <3>1 DEF Positions
    <2>4. ChainTokens(tx, 0) = {token(n) : n \in {1, 2}}
      BY <2>3 DEF ChainTokens
    <2>5. /\ token(1).qty = total - qty /\ token(2).qty = qty
          /\ token(1).at[2] = 0 /\ token(2).at[2] = 1
      BY <2>2
    <2> HIDE DEF token
    <2>6. ChainTokens(tx, 0) = {token(1)} \cup {token(2)} /\ token(2) \notin {token(1)}
      BY <2>4, <2>5
    <2>7. IsFiniteSet({token(1)})
      BY FS_Singleton
    <2>8. token(1).qty \in Int /\ token(2).qty \in Int
      BY <1>2, <2>5
    <2>9. Quantity({token(1)}) = token(1).qty
      BY <2>8, QuantityOfOne
    <2>10. Quantity({token(1)} \cup {token(2)}) = Quantity({token(1)}) + token(2).qty
      <3>1. \A t \in {token(1)} : t.qty \in Int
        BY <2>8
      <3> QED
        BY <2>6, <2>7, <2>8, <3>1, QuantityAdds
    <2> QED
      BY <2>5, <2>6, <2>9, <2>10 DEF QuantityOut
  <1> QED
    BY <1>1, <1>2

-----------------------------------------------------------------------------
(* What a plugin builds for its own token is accepted.                     *)

\* The rules that every transaction of a substandard but those of the
\* blacklist meets in one way.
LEMMA Accepted ==
    ASSUME NEW tx, tx.reads \cap tx.spends = {},
           QuantityOut(tx) = Quantity(TokensIn(tx)) + tx.minted,
           TokensIn(tx) # {} => ChainSpends(tx),
           tx.minted # 0 => ChainIssues(tx),
           ChainLogicAgrees(tx),
           tx.op \notin {"init", "freeze", "unfreeze"}
    PROVE  ChainAccepts(tx)
  BY DEF ChainAccepts, ChainListed

\* A mint of a plugin's own token is accepted.
LEMMA MintAccepted ==
    ASSUME LedgerInv, NEW i \in Instances, NEW p, p = PolicyOf[i], NEW to \in Holders,
           NEW qty \in Nat \ {0}, NEW tx \in mint(i, p, to, qty)
    PROVE  ChainAccepts(tx)
  <1>1. /\ p \in DOMAIN entry
        /\ \E signers : /\ i \in FreezeAndSeizes => Admin \in signers
                        /\ \E plan \in mintPlans(i, p) : tx = Minting(i, signers, to, p, qty, plan)
    BY InstancesAssumption DEF mint, dummyMint, fesMint, When, findRegistryNode, Instances
  <1>2. PICK signers :
          /\ i \in FreezeAndSeizes => Admin \in signers
          /\ \E plan \in mintPlans(i, p) : tx = Minting(i, signers, to, p, qty, plan)
    BY <1>1
  <1>3. PICK plan \in mintPlans(i, p) : tx = Minting(i, signers, to, p, qty, plan)
    BY <1>2
  <1>4. /\ tx.op = "mint" /\ tx.policy = p /\ tx.signers = signers
        /\ tx.reads = Range(mintRefs(p)) /\ tx.spends = {}
        /\ tx.withdraws = {MintingLogic[i], IssuanceLogic}
        /\ tx.outputs = <<Pays("user-token", to, qty)>> /\ tx.minted = qty
        /\ tx.issuance.paramsIdx = plan.paramsIdx /\ tx.issuance.proof = plan.proof
    BY <1>3, MintingIs
  <1>5. TokensIn(tx) = {}
    BY <1>4 DEF TokensIn
  <1>6. QuantityOut(tx) = qty
    <2>1. /\ DOMAIN tx.outputs = 1..1 /\ tx.outputs[1].tag = "user-token"
          /\ tx.outputs[1].qty = qty
      BY <1>4, OutputIs DEF Pays
    <2>2. 1 \in Nat \ {0} /\ 2..1 = {}
      OBVIOUS
    <2> QED
      BY <2>1, <2>2, OnePaid
  <1>7. ChainIssues(tx)
    <2>1. plan \in issuancePlan(ScriptKey(IssuanceLogic), << >>, <<ScriptKey(MintingLogic[i])>>,
                    mintRefs(p), Params, << >>, <<"reference-input", entry[p].at>>)
      BY DEF mintPlans
    <2>2. RefersToNode(p, plan)
      BY <2>1, PlanRefersToNode
    <2>3. EntriesInv /\ TokensInv /\ {MintingLogic[i], IssuanceLogic} \subseteq tx.withdraws
      BY <1>4 DEF LedgerInv
    <2> QED
      BY <1>1, <1>4, <2>2, <2>3, NodeProofFound
  <1>8. ChainLogicAgrees(tx)
    BY <1>2, <1>4, IssuersAgree
  <1>9. QuantityOut(tx) = Quantity(TokensIn(tx)) + tx.minted
    BY <1>4, <1>5, <1>6, QuantityOfNone
  <1> QED
    BY <1>4, <1>5, <1>7, <1>8, <1>9, Accepted

\* The outputs of the deployment are told apart.
LEMMA DeployedApart ==
    /\ {Params, IssuanceCbor, LogicRef, ThirdPartyRef} \subseteq Deployed \ {OriginRef}
    /\ \A i \in FreezeAndSeizes : BlacklistRef[i] \in Deployed \ {OriginRef}
    /\ Params # LogicRef /\ Params # ThirdPartyRef
    /\ \A i \in FreezeAndSeizes : BlacklistRef[i] \notin {Params, LogicRef, ThirdPartyRef}
  <1>1. Distinct(<<Params, IssuanceCbor, LogicRef, ThirdPartyRef, OriginRef>>)
    BY OutputsAssumption
  <1>2. /\ Params # OriginRef /\ IssuanceCbor # OriginRef /\ LogicRef # OriginRef
        /\ ThirdPartyRef # OriginRef /\ Params # LogicRef /\ Params # ThirdPartyRef
    BY <1>1 DEF Distinct
  <1> QED
    BY <1>2, OutputsAssumption DEF Deployed

\* A node or a token is none of the deployment's outputs.
LEMMA NodesApart ==
    ASSUME EntriesInv, TokensInv
    PROVE  /\ \A k \in DOMAIN entry, d \in Deployed \ {OriginRef} : entry[k].at # d
           /\ \A t \in tokens, d \in Deployed : t.at # d
  BY AddressesApart

\* A registration is accepted if its fee is paid from other outputs than those
\* it reads.
LEMMA RegistrationAccepted ==
    ASSUME LedgerInv, NEW i \in Instances, NEW to \in Holders, NEW qty \in Nat,
           NEW c \in Covering(directory, PolicyOf[i]), NEW signers, NEW logic,
           i \in FreezeAndSeizes => Admin \in signers,
           NEW N \in {3, 4}, NEW tags, DOMAIN tags = 1..N, tags[1] = "user-token",
           \A n \in 2..N : tags[n] \in {"cip68-reference", "new-node", "covering-node"},
           NEW plan \in registerPlans(i, tags)
    PROVE  ChainAccepts(Registration(i, signers, logic, tags, to, qty, c, {}, plan))
  <1> DEFINE tx == Registration(i, signers, logic, tags, to, qty, c, {}, plan)
  <1>1. /\ tx.op = "register" /\ tx.policy = PolicyOf[i] /\ tx.signers = signers
        /\ tx.reads = Range(registerRefs) /\ tx.spends = {entry[c.key].at} \cup {}
        /\ tx.withdraws = {MintingLogic[i], IssuanceLogic}
        /\ tx.outputs = RegisterOutputs(tags, to, qty) /\ tx.minted = qty
        /\ tx.issuance.paramsIdx = plan.paramsIdx /\ tx.issuance.proof = plan.proof
    BY RegistrationIs
  <1> HIDE DEF tx
  <1>2. c.key \in DOMAIN entry
    BY DEF LedgerInv, DirectoryInv, Covering
  <1>3. tx.reads \cap tx.spends = {}
    <2>1. Range(registerRefs) = {Params, IssuanceCbor, LogicRef}
      <3>1. DOMAIN registerRefs = 1..3
        BY DEF registerRefs
      <3>2. registerRefs[1] = Params /\ registerRefs[2] = IssuanceCbor /\ registerRefs[3] = LogicRef
        BY DEF registerRefs
      <3>3. 1..3 = {1, 2, 3}
        OBVIOUS
      <3> QED
        BY <3>1, <3>2, <3>3 DEF Range
    <2>2. \A d \in {Params, IssuanceCbor, LogicRef} : entry[c.key].at # d
      BY <1>2, DeployedApart, NodesApart DEF LedgerInv
    <2> QED
      BY <1>1, <2>1, <2>2
  <1>4. TokensIn(tx) = {}
    BY <1>1, <1>2 DEF TokensIn, LedgerInv, TokensInv
  <1>5. QuantityOut(tx) = qty
    <2>1. DOMAIN tx.outputs = 1..N
      BY <1>1 DEF RegisterOutputs
    <2>2. \A n \in 1..N : /\ tx.outputs[n].tag = tags[n]
                          /\ tx.outputs[n].qty = IF tags[n] = "user-token" THEN qty ELSE 1
      BY <1>1, OutputIs DEF RegisterOutputs, Pays
    <2>3. N \in Nat \ {0} /\ 1 \in 1..N /\ 2..N \subseteq 1..N
      OBVIOUS
    <2>4. /\ tx.outputs[1].tag \notin {"new-node", "covering-node", "cip68-reference"}
          /\ tx.outputs[1].qty = qty
          /\ \A n \in 2..N :
                tx.outputs[n].tag \in {"new-node", "covering-node", "cip68-reference"}
      BY <2>2, <2>3
    <2> QED
      BY <2>1, <2>3, <2>4, OnePaid
  <1>6. ChainIssues(tx)
    <2>1. {MintingLogic[i], IssuanceLogic} \subseteq tx.withdraws /\ N \in Nat
      BY <1>1
    <2> QED
      BY <1>1, <2>1, OutputProofFound
  <1>7. ChainLogicAgrees(tx)
    BY <1>1, IssuersAgree
  <1>8. QuantityOut(tx) = Quantity(TokensIn(tx)) + tx.minted
    BY <1>1, <1>4, <1>5, QuantityOfNone
  <1>9. ChainAccepts(tx)
    BY <1>1, <1>3, <1>4, <1>6, <1>7, <1>8, Accepted
  <1> QED
    BY <1>9 DEF tx

\* The fee payer of a registration by freeze-and-seize is the admin: its wallet
\* must not hold the reference scripts, or selection may spend what is read.
LEMMA RegisterAccepted ==
    ASSUME LedgerInv, ScriptWallet # Admin, NEW i \in Instances, NEW to \in Holders,
           NEW qty \in Nat, NEW tx \in register(i, to, qty)
    PROVE  ChainAccepts(tx)
  <1>1. CASE i \in Dummies
    <2>1. /\ DOMAIN dummyTags = 1..3 /\ dummyTags[1] = "user-token"
          /\ \A n \in 2..3 : dummyTags[n] \in {"cip68-reference", "new-node", "covering-node"}
      BY DEF dummyTags
    <2>2. PICK c \in Covering(directory, PolicyOf[i]), plan \in registerPlans(i, dummyTags) :
            tx = Registration(i, {}, registryNode(TransferLogic[i], TransferLogic[i]), dummyTags,
                              to, qty, c, {}, plan)
      BY <1>1 DEF register, dummyRegister, When
    <2>3. i \notin FreezeAndSeizes
      BY <1>1, InstancesAssumption
    <2>4. ChainAccepts(Registration(i, {}, registryNode(TransferLogic[i], TransferLogic[i]),
                                    dummyTags, to, qty, c, {}, plan))
      BY <2>1, <2>3, RegistrationAccepted
    <2> QED
      BY <2>2, <2>4
  <1>2. CASE i \notin Dummies
    <2>1. PICK hasCIP68 \in BOOLEAN : tx \in fesRegister(i, Admin, to, qty, hasCIP68)
      BY <1>2 DEF register
    <2>2. PICK tags : tags = fesTags(hasCIP68)
      OBVIOUS
    <2>3. PICK N \in {3, 4} :
            /\ DOMAIN tags = 1..N /\ tags[1] = "user-token"
            /\ \A n \in 2..N : tags[n] \in {"cip68-reference", "new-node", "covering-node"}
      BY <2>2, FesTags
    <2>4. UnfilteredFunds(Admin) = {{}}
      BY DEF UnfilteredFunds
    <2>5. PICK c \in Covering(directory, PolicyOf[i]), plan \in registerPlans(i, tags) :
            tx = Registration(i, {Admin}, fesNode(i), tags, to, qty, c, {}, plan)
      <3>1. PICK c \in Covering(directory, PolicyOf[i]), spent \in UnfilteredFunds(Admin),
                 plan \in When(findIssuanceLogicRefUtxo, registerPlans(i, fesTags(hasCIP68))) :
              tx = Registration(i, {Admin}, fesNode(i), fesTags(hasCIP68), to, qty, c, spent, plan)
        BY <2>1 DEF fesRegister
      <3>2. spent = {}
        BY <2>4
      <3>3. plan \in registerPlans(i, tags)
        BY <2>2 DEF When
      <3> QED
        BY <2>2, <3>1, <3>2, <3>3
    <2>6. ChainAccepts(Registration(i, {Admin}, fesNode(i), tags, to, qty, c, {}, plan))
      <3>1. i \in FreezeAndSeizes => Admin \in {Admin}
        OBVIOUS
      <3> QED
        BY <2>3, <3>1, RegistrationAccepted
    <2> QED
      BY <2>5, <2>6
  <1> QED
    BY <1>1, <1>2

\* others are the keys of what tx withdraws from beside the dispatcher.
Dispatched(tx, others) ==
    \E a, b \in Nat : others = <<ScriptKey(a), ScriptKey(b)>> /\ tx.withdraws = {Plg, a, b}

\* The positions of a transfer or of an act of an authority.
LEMMA PositionsFound ==
    ASSUME NEW refs \in Seq(Nat \X Nat), Distinct(InputRanks(refs)), NEW node, NEW proofs,
           NEW others, NEW positions \in Positioned(refs, node, proofs, others),
           NEW tx, tx.reads = Range(refs), Dispatched(tx, others)
    PROVE  /\ ChainReads(tx, positions.params, Params)
           /\ ChainReads(tx, positions.node, node)
           /\ positions.proof \in proofs
           /\ ChainWithdraws(tx, positions.plg, Plg)
  <1> DEFINE plans == plbWithdrawalPlan(ScriptKey(Plg), others)
             plgs == {plan.plgIdx : plan \in plans}
  <1>1. positions \in [params : referenceInputIndexOf(refs, Params),
                       node : referenceInputIndexOf(refs, node), proof : proofs, plg : plgs]
    <2> HIDE DEF plans
    <2> QED
      BY DEF Positioned, plans
  <1>2. /\ positions.params \in referenceInputIndexOf(refs, Params)
        /\ positions.node \in referenceInputIndexOf(refs, node)
        /\ positions.proof \in proofs /\ positions.plg \in plgs
    <2> HIDE DEF plgs
    <2> QED
      BY <1>1
  <1>3. PICK plan \in plans : positions.plg = plan.plgIdx
    <2> HIDE DEF plans
    <2> QED
      BY <1>2
  <1>4. ChainWithdraws(tx, plan.plgIdx, Plg)
    <2>1. PICK a \in Nat, b \in Nat :
            others = <<ScriptKey(a), ScriptKey(b)>> /\ tx.withdraws = {Plg, a, b}
      BY DEF Dispatched
    <2>2. plan \in plbWithdrawalPlan(ScriptKey(Plg), <<ScriptKey(a), ScriptKey(b)>>)
      BY <2>1
    <2> QED
      BY <2>1, <2>2, DispatcherFound
  <1> QED
    BY <1>2, <1>3, <1>4, ReadFound

\* An output reference is not the empty one.
LEMMA PairIsNotEmpty == ASSUME NEW x \in Nat \X Nat PROVE x # << >>
  <1>1. PICK a, b : x = <<a, b>>
    OBVIOUS
  <1>2. Len(<<a, b>>) = 2 /\ Len(<< >>) = 0
    OBVIOUS
  <1> QED
    BY <1>1, <1>2

\* The one entry there is comes first.
LEMMA OnlyFound ==
    ASSUME NEW r \in Rank
    PROVE  Cardinality({r}) = 1 /\ ChainFinds({r}, 0, r)
  <1>1. IsFiniteSet({r}) /\ Cardinality({r}) = 1
    BY FS_Singleton
  <1>2. {r} \in SUBSET Rank
    OBVIOUS
  <1>3. ChainOrder({r}) \in Surjection(1..1, {r})
    BY <1>1, <1>2, ChainOrders
  <1>4. ChainOrder({r})[1] = r
    BY <1>3 DEF Surjection
  <1>5. 0 + 1 = 1 /\ 1 \in 1..1
    OBVIOUS
  <1> QED
    BY <1>1, <1>4, <1>5 DEF ChainFinds

\* A token that is spent alone is carried on by one output.
LEMMA OneSeized ==
    ASSUME EntriesInv, TokensInv, NEW t \in tokens, NEW tx, tx.spends = {t.at},
           NEW k \in DOMAIN tx.outputs, tx.delegate.start + 1 = k, tx.outputs[k].keeps = t.at,
           tx.policy \in DOMAIN entry,
           ChainReads(tx, tx.delegate.nodeIdx, entry[tx.policy].at),
           entry[tx.policy].thirdParty \in tx.withdraws,
           tx.minted # 0 => tx.issuance.proof = <<"reference-input", tx.delegate.nodeIdx>>
    PROVE  TokensIn(tx) = {t} /\ ChainSeizes(tx)
  <1>1. TokensIn(tx) = {t}
    BY DEF TokensIn, TokensInv
  <1> DEFINE inputs == {InputRank(u.at) : u \in TokensIn(tx)}
  <1>2. inputs = {InputRank(t.at)}
    BY <1>1
  <1>3. t.at \in Nat \X Nat
    BY AddressesApart
  <1>4. InputRank(t.at) \in Rank
    BY <1>3 DEF InputRank, Bytes, Rank
  <1>5. t.at # << >>
    BY <1>3, PairIsNotEmpty
  <1> HIDE DEF inputs
  <1>6. Cardinality(inputs) = 1 /\ ChainFinds(inputs, 0, InputRank(t.at))
    BY <1>2, <1>4, OnlyFound
  <1>7. ASSUME NEW n \in 1..Cardinality(inputs)
        PROVE  /\ tx.delegate.start + n \in DOMAIN tx.outputs
               /\ tx.outputs[tx.delegate.start + n].keeps # << >>
               /\ ChainFinds(inputs, n - 1, InputRank(tx.outputs[tx.delegate.start + n].keeps))
    <2>1. n = 1 /\ n - 1 = 0
      BY <1>6
    <2>2. tx.delegate.start + n = k
      BY <2>1
    <2> QED
      BY <1>5, <1>6, <2>1, <2>2
  <1> QED
    BY <1>1, <1>7 DEF ChainSeizes, inputs

\* A seizure of a plugin's own token is accepted: the output after the
\* destination carries on the one input.
LEMMA SeizeAccepted ==
    ASSUME LedgerInv, NEW i \in FreezeAndSeizes, NEW p, p = PolicyOf[i], NEW t \in tokens,
           NEW to \in Holders, NEW tx \in seize(i, p, t, to)
    PROVE  ChainAccepts(tx)
  <1> DEFINE node == entry[p].at
             refs == <<Params, node, ThirdPartyRef>>
             outputs == <<Pays("destination", to, t.qty),
                          Output("continuation", t.owner, 0, t.at)>>
             others == <<ScriptKey(ThirdParty), ScriptKey(MintingLogic[i])>>
  <1>1. p \in DOMAIN entry
    BY DEF seize, When, findRegistryNode
  <1>2. PICK positions \in Positioned(refs, node, {-1}, others) :
          tx = ThirdPartyAct("seize", i, p, {Admin}, MintingLogic[i], refs, {t.at}, 1, outputs,
                             positions)
    <2> HIDE DEF refs, outputs, others
    <2> QED
      BY DEF seize, When, refs, outputs, others
  <1>3. i \in Instances /\ i \notin Dummies
    BY InstancesAssumption DEF Instances
  <1>4. EntriesInv /\ TokensInv /\ NodesInv
    BY DEF LedgerInv
  <1>5. /\ refs \in Seq(Nat \X Nat) /\ Distinct(InputRanks(refs))
        /\ Range(refs) = {Params, node, ThirdPartyRef}
    <2>1. /\ {Params, ThirdPartyRef} \subseteq Deployed \ {OriginRef} /\ Params # ThirdPartyRef
      BY DeployedApart
    <2>2. /\ Params \in Nat \X Nat /\ ThirdPartyRef \in Nat \X Nat /\ node \in Nat \X Nat
          /\ InputRank(Params) # InputRank(node) /\ InputRank(node) # InputRank(ThirdPartyRef)
      BY <1>1, <1>4, <2>1, AddressesApart
    <2>3. InputRank(Params) # InputRank(ThirdPartyRef)
      BY <2>1, OutputsAssumption
    <2> QED
      BY <2>2, <2>3, ThreeReads
  <1>6. MintingLogic[i] \in Nat /\ ThirdParty \in Nat
    BY <1>3, InstancesAssumption DEF Injection
  <1> HIDE DEF outputs
  <1>7. /\ tx.op = "seize" /\ tx.policy = p /\ tx.signers = {Admin}
        /\ tx.reads = Range(refs) /\ tx.spends = {t.at}
        /\ tx.withdraws = {Plg, ThirdParty, MintingLogic[i]}
        /\ tx.outputs = outputs /\ tx.minted = 0 /\ tx.act = "THIRD_PARTY"
        /\ tx.base.paramsIdx = positions.params /\ tx.base.wdrlIdx = positions.plg
        /\ tx.delegate.nodeIdx = positions.node /\ tx.delegate.start = 1
    <2> HIDE DEF refs
    <2> QED
      BY <1>2, ThirdPartyActIs
  <1>8. /\ DOMAIN outputs = 1..2 /\ outputs[1].tag = "destination" /\ outputs[1].qty = t.qty
        /\ outputs[2].qty = 0 /\ outputs[2].keeps = t.at
    BY OutputIs DEF outputs, Pays
  <1>9. /\ ChainReads(tx, positions.params, Params) /\ ChainReads(tx, positions.node, node)
        /\ ChainWithdraws(tx, positions.plg, Plg)
    <2>1. Dispatched(tx, others)
      BY <1>6, <1>7 DEF Dispatched
    <2> HIDE DEF refs, node, others
    <2> QED
      BY <1>5, <1>7, <2>1, PositionsFound
  <1>10. entry[p].thirdParty = MintingLogic[i]
    BY <1>1, <1>3, <1>4 DEF NodesInv, OwnNode, fesNode, registryNode
  <1>11. TokensIn(tx) = {t} /\ ChainSeizes(tx)
    <2>1. 2 \in DOMAIN tx.outputs /\ tx.delegate.start + 1 = 2
      BY <1>7, <1>8
    <2>2. tx.policy \in DOMAIN entry /\ ChainReads(tx, tx.delegate.nodeIdx, entry[tx.policy].at)
      BY <1>1, <1>7, <1>9
    <2>3. entry[tx.policy].thirdParty \in tx.withdraws
      BY <1>7, <1>10
    <2> QED
      BY <1>4, <1>7, <1>8, <2>1, <2>2, <2>3, OneSeized
  <1>12. ChainSpends(tx)
    BY <1>7, <1>9, <1>11 DEF ChainSpends, ChainDispatches
  <1>13. QuantityOut(tx) = t.qty /\ t.qty \in Nat
    <2>1. t.qty \in Nat
      BY <1>4 DEF TokensInv
    <2>2. 2..2 = {2} /\ 2 \in Nat \ {0}
      OBVIOUS
    <2>3. /\ DOMAIN tx.outputs = 1..2 /\ tx.outputs[1].qty = t.qty
          /\ tx.outputs[1].tag \notin {"new-node", "covering-node", "cip68-reference"}
          /\ \A n \in 2..2 : tx.outputs[n].qty = 0
      BY <1>7, <1>8, <2>2
    <2> QED
      BY <2>1, <2>2, <2>3, OnePaid
  <1>14. QuantityOut(tx) = Quantity(TokensIn(tx)) + tx.minted
    BY <1>7, <1>11, <1>13, QuantityOfOne
  <1>15. tx.reads \cap tx.spends = {}
    <2>1. t.at \notin {Params, node, ThirdPartyRef}
      BY <1>1, <1>4, NodesApart, DeployedApart DEF TokensInv
    <2> QED
      BY <1>5, <1>7, <2>1
  <1>16. ChainLogicAgrees(tx)
    BY <1>3, <1>7, IssuersAgree
  <1> QED
    BY <1>7, <1>12, <1>14, <1>15, <1>16, Accepted

\* A burn of a plugin's own token is accepted: proof and delegate name the same
\* node.
LEMMA BurnAccepted ==
    ASSUME LedgerInv, NEW i \in FreezeAndSeizes, NEW p, p = PolicyOf[i], NEW t \in tokens,
           NEW tx \in fesBurn(i, p, t)
    PROVE  ChainAccepts(tx)
  <1> DEFINE node == entry[p].at
             plans == issuancePlan(ScriptKey(IssuanceLogic), <<ScriptKey(Plg)>>,
                         <<ScriptKey(ThirdParty), ScriptKey(MintingLogic[i])>>,
                         mintRefs(p), Params, << >>, <<"reference-input", node>>)
             all == <<ScriptKey(Plg)>> \o <<ScriptKey(IssuanceLogic)>>
                       \o <<ScriptKey(ThirdParty), ScriptKey(MintingLogic[i])>>
             hashes == <<Plg, IssuanceLogic, ThirdParty, MintingLogic[i]>>
  <1>1. p \in DOMAIN entry
    BY DEF fesBurn, When, findRegistryNode
  <1>2. PICK plan \in plans, nodeIdx \in referenceInputIndexOf(mintRefs(p), node) :
          tx = Burning(i, p, t, plan, nodeIdx)
    <2> HIDE DEF plans
    <2> QED
      BY DEF fesBurn, When, plans
  <1>3. i \in Instances /\ i \notin Dummies
    BY InstancesAssumption DEF Instances
  <1>4. EntriesInv /\ TokensInv /\ NodesInv
    BY DEF LedgerInv
  <1>5. RefersToNode(p, plan)
    BY PlanRefersToNode
  <1>6. /\ tx.op = "burn" /\ tx.policy = p /\ tx.signers = {Admin}
        /\ tx.reads = Range(mintRefs(p)) /\ tx.spends = {t.at}
        /\ tx.withdraws = {MintingLogic[i], Plg, ThirdParty, IssuanceLogic}
        /\ tx.outputs = <<Output("continuation", t.owner, 0, t.at)>>
        /\ tx.minted = -t.qty /\ tx.act = "THIRD_PARTY"
        /\ tx.base.paramsIdx = plan.paramsIdx /\ tx.base.wdrlIdx = plan.plgIdx
        /\ tx.delegate.nodeIdx = nodeIdx /\ tx.delegate.start = 0
        /\ tx.issuance.paramsIdx = plan.paramsIdx /\ tx.issuance.proof = plan.proof
    BY <1>2, BurningIs
  <1>7. Distinct(KeyRanks(all)) /\ plan.plgIdx \in withdrawalIndexOf(all, ScriptKey(Plg))
    <2>1. <<ScriptKey(Plg)>> # << >> /\ <<ScriptKey(Plg)>>[1] = ScriptKey(Plg)
      BY SMT
    <2> DEFINE plg == <<ScriptKey(Plg)>>
    <2>2. /\ Distinct(KeyRanks(all))
          /\ plan.plgIdx \in IF plg = << >> THEN {-1} ELSE withdrawalIndexOf(all, plg[1])
      BY IssuancePlanIs
    <2> HIDE DEF all
    <2> QED
      BY <2>1, <2>2
  <1>8. ChainWithdraws(tx, plan.plgIdx, Plg)
    <2>1. {Plg, IssuanceLogic, ThirdParty, MintingLogic[i]} \subseteq Nat
      BY <1>3, InstancesAssumption DEF Injection
    <2>2. /\ hashes \in [1..4 -> Nat] /\ DOMAIN hashes = 1..4
          /\ hashes[1] = Plg /\ hashes[2] = IssuanceLogic
          /\ hashes[3] = ThirdParty /\ hashes[4] = MintingLogic[i]
      BY <2>1
    <2>3. /\ DOMAIN all = 1..4 /\ all = [n \in 1..4 |-> all[n]]
          /\ all[1] = ScriptKey(Plg) /\ all[2] = ScriptKey(IssuanceLogic)
          /\ all[3] = ScriptKey(ThirdParty) /\ all[4] = ScriptKey(MintingLogic[i])
      OBVIOUS
    <2> HIDE DEF all, hashes
    <2>4. 1..4 = {1, 2, 3, 4} /\ 4 \in Nat
      OBVIOUS
    <2>5. \A n \in 1..4 : all[n] = ScriptKey(hashes[n])
      BY <2>2, <2>3, <2>4
    <2>6. Range(hashes) = {Plg, IssuanceLogic, ThirdParty, MintingLogic[i]}
      BY <2>2, <2>4 DEF Range
    <2>7. all \in Seq({0, 1} \X Nat) /\ Range(all) = {ScriptKey(h) : h \in Range(hashes)}
      <3>1. hashes \in [1..4 -> Nat] /\ 4 \in Nat
        BY <2>2
      <3>2. DOMAIN all = 1..4 /\ all = [n \in 1..4 |-> all[n]]
        BY <2>3
      <3> QED
        BY <2>5, <3>1, <3>2, ScriptKeysListed
    <2>8. Range(hashes) = tx.withdraws
      BY <1>6, <2>6
    <2>9. Range(all) = {ScriptKey(h) : h \in tx.withdraws}
      BY <2>7, <2>8
    <2> QED
      BY <1>7, <2>7, <2>9, WithdrawalFound
  <1> HIDE DEF all, hashes, plans
  <1>9. ChainIssues(tx) /\ ChainReads(tx, plan.paramsIdx, Params)
    <2>1. {MintingLogic[i], IssuanceLogic} \subseteq tx.withdraws
      BY <1>6
    <2> QED
      BY <1>1, <1>3, <1>4, <1>5, <1>6, <2>1, NodeProofFound
  <1>10. ChainReads(tx, nodeIdx, node)
    <2>1. {Params, LogicRef} \subseteq Deployed
      BY DEF Deployed
    <2>2. mintRefs(p) \in Seq(Nat \X Nat)
      BY <1>1, <1>4, <2>1, AddressesApart DEF mintRefs
    <2> QED
      BY <1>5, <1>6, <2>2, ReadFound DEF RefersToNode
  <1>11. tx.issuance.proof = <<"reference-input", nodeIdx>>
    <2>1. \A m, n \in referenceInputIndexOf(mintRefs(p), node) : m = n
      BY DEF referenceInputIndexOf, IndexOf
    <2>2. plan.proof \in {"reference-input"} \X referenceInputIndexOf(mintRefs(p), node)
      BY <1>5 DEF RefersToNode
    <2>3. plan.proof = <<"reference-input", plan.proof[2]>> /\ plan.proof[2] = nodeIdx
      BY <2>1, <2>2
    <2> QED
      BY <1>6, <2>3
  <1>12. entry[p].thirdParty = MintingLogic[i]
    BY <1>1, <1>3, <1>4 DEF NodesInv, OwnNode, fesNode, registryNode
  <1>13. /\ DOMAIN tx.outputs = 1..1 /\ tx.outputs[1].tag = "continuation"
         /\ tx.outputs[1].qty = 0 /\ tx.outputs[1].keeps = t.at
    BY <1>6, OutputIs
  <1>14. TokensIn(tx) = {t} /\ ChainSeizes(tx)
    <2>1. 1 \in DOMAIN tx.outputs /\ tx.delegate.start + 1 = 1
      BY <1>6, <1>13
    <2>2. /\ tx.policy \in DOMAIN entry
          /\ ChainReads(tx, tx.delegate.nodeIdx, entry[tx.policy].at)
          /\ tx.issuance.proof = <<"reference-input", tx.delegate.nodeIdx>>
      BY <1>1, <1>6, <1>10, <1>11
    <2>3. entry[tx.policy].thirdParty \in tx.withdraws
      BY <1>6, <1>12
    <2> QED
      BY <1>4, <1>6, <1>13, <2>1, <2>2, <2>3, OneSeized
  <1>15. ChainSpends(tx)
    BY <1>6, <1>8, <1>9, <1>14 DEF ChainSpends, ChainDispatches
  <1>16. QuantityOut(tx) = 0
    <2>1. 1 \in Nat \ {0} /\ 2..1 = {}
      OBVIOUS
    <2>2. /\ tx.outputs[1].tag \notin {"new-node", "covering-node", "cip68-reference"}
          /\ DOMAIN tx.outputs = 1..1 /\ tx.outputs[1].qty \in Nat
      BY <1>13
    <2>3. QuantityOut(tx) = tx.outputs[1].qty
      BY <2>1, <2>2, OnePaid
    <2> QED
      BY <1>13, <2>3
  <1>17. QuantityOut(tx) = Quantity(TokensIn(tx)) + tx.minted
    <2>1. t.qty \in Nat
      BY <1>4 DEF TokensInv
    <2>2. Quantity({t}) = t.qty
      BY <2>1, QuantityOfOne
    <2> QED
      BY <1>6, <1>14, <1>16, <2>1, <2>2
  <1>18. tx.reads \cap tx.spends = {}
    <2>1. t.at \notin {Params, node, LogicRef}
      BY <1>1, <1>4, NodesApart, DeployedApart DEF TokensInv
    <2>2. Range(mintRefs(p)) = {Params, node, LogicRef}
      <3>1. DOMAIN mintRefs(p) = 1..3
        BY DEF mintRefs
      <3>2. mintRefs(p)[1] = Params /\ mintRefs(p)[2] = node /\ mintRefs(p)[3] = LogicRef
        BY DEF mintRefs
      <3>3. 1..3 = {1, 2, 3}
        OBVIOUS
      <3> QED
        BY <3>1, <3>2, <3>3 DEF Range
    <2> QED
      BY <1>6, <2>1, <2>2
  <1>19. ChainLogicAgrees(tx)
    <2>1. Admin \in tx.signers
      BY <1>6
    <2>2. tx.withdraws \subseteq {MintingLogic[i], IssuanceLogic, Plg, ThirdParty}
      BY <1>6
    <2> QED
      BY <1>3, <2>1, <2>2, IssuersAgree
  <1> QED
    BY <1>6, <1>9, <1>15, <1>17, <1>18, <1>19, Accepted

\* A transfer over any list of reads that names the params, the node and, if
\* need be, the sender's bracket in the blacklist is accepted.
LEMMA TransferringAccepted ==
    ASSUME LedgerInv, NEW i \in Instances, NEW p, p = PolicyOf[i], p \in DOMAIN entry,
           NEW from \in Holders, NEW to, NEW qty \in Nat \ {0},
           NEW s \in selectUtxosForAmount(Holdings(from, p), qty),
           NEW spent \in UnfilteredFunds(from),
           NEW refs \in Seq(Nat \X Nat), Distinct(InputRanks(refs)),
           \A r \in Range(refs) : r = entry[p].at \/ r \in Deployed \ {OriginRef, LogicRef, ThirdPartyRef},
           NEW proofs, NEW others, NEW positions \in Positioned(refs, entry[p].at, proofs, others),
           NEW tx, tx = Transferring(i, p, from, to, qty, refs, s, spent, positions),
           Dispatched(tx, others),
           i \in FreezeAndSeizes => /\ i \in DOMAIN frozen /\ from \notin frozen[i]
                                    /\ proofs = referenceInputIndexOf(refs, BlacklistRef[i])
    PROVE  ChainAccepts(tx)
  <1>1. EntriesInv /\ TokensInv /\ NodesInv /\ ScriptsInv
    BY DEF LedgerInv
  <1>2. /\ tx.op = "transfer" /\ tx.policy = p /\ tx.signers = {from}
        /\ tx.reads = Range(refs) /\ tx.spends = Refs(s) \cup spent
        /\ tx.withdraws = {Plg, CoreTransfer, TransferLogic[i]}
        /\ tx.outputs = TransferOutputs(from, to, qty, Quantity(s)) /\ tx.minted = 0
        /\ tx.act = "TRANSFER"
        /\ tx.base.paramsIdx = positions.params /\ tx.base.wdrlIdx = positions.plg
        /\ tx.delegate.nodeIdx = positions.node /\ tx.proofIdx = positions.proof
    BY TransferringIs
  <1>3. /\ s \in SUBSET tokens /\ \A t \in s : t.owner = from
        /\ Quantity(s) \in Nat /\ Quantity(s) >= qty
    BY <1>1, SelectedTyped
  <1>4. spent \subseteq {LogicRef, ThirdPartyRef} /\ \A t \in tokens : t.at \notin spent
    BY <1>1, ScriptsAreNotTokens
  <1>5. TokensIn(tx) = s
    <2>1. tx.spends = Refs(s) \cup spent
      BY <1>2
    <2>2. s \in SUBSET tokens
      BY <1>3
    <2> QED
      BY <1>1, <1>4, <2>1, <2>2, SpentTokens
  <1>6. QuantityOut(tx) = Quantity(s)
    BY <1>2, <1>3, ChangePaid
  <1>7. /\ ChainReads(tx, positions.params, Params) /\ ChainReads(tx, positions.node, entry[p].at)
        /\ positions.proof \in proofs /\ ChainWithdraws(tx, positions.plg, Plg)
    BY <1>2, PositionsFound
  <1>8. entry[p].transfer = TransferLogic[i]
    BY <1>1, InstancesAssumption DEF NodesInv, OwnNode, fesNode, registryNode, Instances
  <1>9. ChainSpends(tx)
    BY <1>2, <1>3, <1>5, <1>7, <1>8 DEF ChainSpends, ChainDispatches, ChainTransfers
  <1>10. tx.reads \cap tx.spends = {}
    <2>1. ASSUME NEW r \in Range(refs) PROVE r \notin Refs(s) /\ r \notin spent
      <3>1. CASE r = entry[p].at
        <4>1. r \notin Refs(s)
          BY <1>1, <1>3, <3>1 DEF Refs, TokensInv
        <4>2. r \notin {LogicRef, ThirdPartyRef}
          BY <1>1, <3>1, NodesApart, DeployedApart
        <4> QED
          BY <1>4, <4>1, <4>2
      <3>2. CASE r \in Deployed \ {OriginRef, LogicRef, ThirdPartyRef}
        <4>1. r \notin Refs(s)
          BY <1>1, <1>3, <3>2, NodesApart DEF Refs
        <4> QED
          BY <1>4, <3>2, <4>1
      <3> QED
        BY <3>1, <3>2
    <2> QED
      BY <1>2, <2>1
  <1>11. ChainLogicAgrees(tx)
    <2>1. tx.withdraws \subseteq {TransferLogic[i], CoreTransfer, Plg, ThirdParty}
      BY <1>2
    <2>2. ASSUME i \in FreezeAndSeizes
          PROVE  /\ i \in DOMAIN frozen /\ ChainReads(tx, tx.proofIdx, BlacklistRef[i])
                 /\ \A t \in TokensIn(tx) : t.owner \notin frozen[i]
      <3>1. positions.proof \in referenceInputIndexOf(refs, BlacklistRef[i])
        BY <1>7, <2>2
      <3>2. ChainReads(tx, positions.proof, BlacklistRef[i])
        BY <1>2, <3>1, ReadFound
      <3> QED
        BY <1>2, <1>3, <1>5, <2>2, <3>2
    <2> QED
      BY <2>1, <2>2, OwnersAgree
  <1>12. QuantityOut(tx) = Quantity(TokensIn(tx)) + tx.minted
    BY <1>2, <1>3, <1>5, <1>6
  <1> QED
    BY <1>2, <1>9, <1>10, <1>11, <1>12, Accepted

\* Both substandards build such a transfer.
LEMMA TransferAccepted ==
    ASSUME LedgerInv, NEW i \in Instances, NEW p, p = PolicyOf[i],
           NEW from \in Holders, NEW to, NEW qty \in Nat \ {0},
           NEW tx \in transfer(i, p, from, to, qty)
    PROVE  ChainAccepts(tx)
  <1> DEFINE node == entry[p].at
  <1>1. EntriesInv /\ TokensInv
    BY DEF LedgerInv
  <1>2. p \in DOMAIN entry
    BY DEF transfer, dummyTransfer, fesTransfer, When, findRegistryNode
  <1>3. TransferLogic[i] \in Nat /\ CoreTransfer \in Nat
    BY InstancesAssumption DEF Injection
  <1>4. /\ Params \in Deployed \ {OriginRef, LogicRef, ThirdPartyRef}
        /\ \A j \in FreezeAndSeizes :
              BlacklistRef[j] \in Deployed \ {OriginRef, Params, LogicRef, ThirdPartyRef}
    BY DeployedApart
  <1>5. /\ Params \in Nat \X Nat /\ node \in Nat \X Nat /\ InputRank(Params) # InputRank(node)
        /\ \A j \in FreezeAndSeizes :
              /\ BlacklistRef[j] \in Nat \X Nat
              /\ InputRank(BlacklistRef[j]) # InputRank(node)
              /\ InputRank(BlacklistRef[j]) # InputRank(Params)
    BY <1>1, <1>2, <1>4, AddressesApart, OutputsAssumption
  <1>6. CASE i \in Dummies
    <2> DEFINE refs == <<Params, node>>
               others == <<ScriptKey(TransferLogic[i]), ScriptKey(CoreTransfer)>>
    <2>1. PICK s \in selectUtxosForAmount(Holdings(from, p), qty), spent \in UnfilteredFunds(from),
               positions \in Positioned(refs, node, {-1}, others) :
            tx = Transferring(i, p, from, to, qty, refs, s, spent, positions)
      <3> HIDE DEF refs, others
      <3> QED
        BY <1>6 DEF transfer, dummyTransfer, When, refs, others
    <2>2. /\ refs \in Seq(Nat \X Nat) /\ Distinct(InputRanks(refs))
          /\ Range(refs) = {Params, node}
      BY <1>5, TwoReads
    <2>3. Dispatched(tx, others)
      <3>1. tx.withdraws = {Plg, TransferLogic[i], CoreTransfer}
        <4> HIDE DEF refs
        <4> QED
          BY <2>1, TransferringIs
      <3> QED
        BY <1>3, <3>1 DEF Dispatched
    <2>4. i \notin FreezeAndSeizes
      BY <1>6, InstancesAssumption
    <2> HIDE DEF refs, others
    <2>5. \A r \in Range(refs) :
            r = entry[p].at \/ r \in Deployed \ {OriginRef, LogicRef, ThirdPartyRef}
      BY <1>4, <2>2
    <2> QED
      BY <1>2, <2>1, <2>2, <2>3, <2>4, <2>5, TransferringAccepted
  <1>7. CASE i \notin Dummies
    <2> DEFINE refs == <<BlacklistRef[i], Params, node>>
               others == <<ScriptKey(CoreTransfer), ScriptKey(TransferLogic[i])>>
               proofs == referenceInputIndexOf(refs, BlacklistRef[i])
    <2>1. /\ i \in DOMAIN frozen /\ from \notin frozen[i]
          /\ \E s \in selectUtxosForAmount(Holdings(from, p), qty),
                spent \in UnfilteredFunds(from), positions \in Positioned(refs, node, proofs, others) :
                tx = Transferring(i, p, from, to, qty, refs, s, spent, positions)
      <3>1. i \in DOMAIN frozen /\ from \notin frozen[i]
        BY <1>7 DEF transfer, fesTransfer, When
      <3> HIDE DEF others
      <3>2. \E s \in selectUtxosForAmount(Holdings(from, p), qty),
                spent \in UnfilteredFunds(from), positions \in Positioned(refs, node, proofs, others) :
                tx = Transferring(i, p, from, to, qty, refs, s, spent, positions)
        <4> HIDE DEF refs
        <4> QED
          BY <1>7 DEF transfer, fesTransfer, When, refs, others
      <3> QED
        BY <3>1, <3>2
    <2>2. PICK s \in selectUtxosForAmount(Holdings(from, p), qty), spent \in UnfilteredFunds(from),
               positions \in Positioned(refs, node, proofs, others) :
            tx = Transferring(i, p, from, to, qty, refs, s, spent, positions)
      BY <2>1
    <2>3. i \in FreezeAndSeizes
      BY <1>7 DEF Instances
    <2>4. /\ refs \in Seq(Nat \X Nat) /\ Distinct(InputRanks(refs))
          /\ Range(refs) = {BlacklistRef[i], Params, node}
      BY <1>5, <2>3, ThreeReads
    <2>5. Dispatched(tx, others)
      <3>1. tx.withdraws = {Plg, CoreTransfer, TransferLogic[i]}
        <4> HIDE DEF refs
        <4> QED
          BY <2>2, TransferringIs
      <3> QED
        BY <1>3, <3>1 DEF Dispatched
    <2> HIDE DEF refs, others
    <2>6. \A r \in Range(refs) :
            r = entry[p].at \/ r \in Deployed \ {OriginRef, LogicRef, ThirdPartyRef}
      BY <1>4, <2>3, <2>4
    <2> QED
      BY <1>2, <2>1, <2>2, <2>4, <2>5, <2>6, TransferringAccepted
  <1> QED
    BY <1>6, <1>7

-----------------------------------------------------------------------------
(* An authority takes a quantity from several inputs: what the             *)
(* continuations keep and what the recipient gets is what they held.       *)

\* One input more is held, and what is missing of the quantity is taken from it.
LEMMA TakenOnce ==
    ASSUME NEW qty \in Nat, NEW sum \in Nat, NEW held \in Nat
    PROVE  LET Left(n) == IF n < qty THEN 0 ELSE n - qty
               due == IF qty > sum THEN qty - sum ELSE 0
           IN  Left(sum) + (IF held < due THEN 0 ELSE held - due) = Left(sum + held)
  OBVIOUS

\* sum[n] is what the first n inputs hold, kept[n] what is kept of them once
\* qty has been taken from one after the other.
TakesInTurn(N, qty, held, sum, kept) ==
    /\ held \in [1..N -> Nat]
    /\ sum \in [0..N -> Nat] /\ sum[0] = 0
    /\ kept \in [0..N -> Nat] /\ kept[0] = 0
    /\ \A n \in 1..N :
          LET due == IF qty > sum[n - 1] THEN qty - sum[n - 1] ELSE 0
          IN  /\ sum[n] = sum[n - 1] + held[n]
              /\ kept[n] = kept[n - 1] + (IF held[n] < due THEN 0 ELSE held[n] - due)

\* What is kept in the end is what is held beyond the quantity.
LEMMA TakenInTurn ==
    ASSUME NEW N \in Nat, NEW qty \in Nat, NEW held, NEW sum, NEW kept,
           TakesInTurn(N, qty, held, sum, kept)
    PROVE  kept[N] = IF sum[N] < qty THEN 0 ELSE sum[N] - qty
  <1> DEFINE Left(n) == IF n < qty THEN 0 ELSE n - qty
             Due(n) == IF qty > n THEN qty - n ELSE 0
             C == {k \in 0..N : kept[k] # Left(sum[k])}
  <1> SUFFICES ASSUME kept[N] # Left(sum[N]) PROVE FALSE
    OBVIOUS
  <1>1. N \in C /\ C \in SUBSET Nat
    OBVIOUS
  <1>2. \A k \in 0..N : k \in C <=> kept[k] # Left(sum[k])
    OBVIOUS
  <1>3. C \subseteq 0..N
    OBVIOUS
  <1>4. \A n \in 1..N :
          /\ sum[n] = sum[n - 1] + held[n]
          /\ kept[n] = kept[n - 1]
                         + (IF held[n] < Due(sum[n - 1]) THEN 0 ELSE held[n] - Due(sum[n - 1]))
    BY DEF TakesInTurn
  <1>5. Left(0) = 0 /\ kept[0] = 0 /\ sum[0] = 0
    BY DEF TakesInTurn
  <1> HIDE DEF C
  <1>6. PICK k \in C : \A j \in C : k <= j
    BY <1>1, LeastNatural
  <1>7. k \in 0..N /\ kept[k] # Left(sum[k])
    BY <1>2, <1>3
  <1>8. k # 0
    BY <1>5, <1>7
  <1>9. k \in 1..N /\ k - 1 \in 0..N /\ ~(k <= k - 1)
    BY <1>7, <1>8
  <1>10. kept[k - 1] = Left(sum[k - 1])
    <2> HIDE DEF Left
    <2> QED
      BY <1>2, <1>6, <1>9
  <1>11. sum[k - 1] \in Nat /\ held[k] \in Nat
    BY <1>9 DEF TakesInTurn
  <1>12. Left(sum[k - 1]) + (IF held[k] < Due(sum[k - 1]) THEN 0 ELSE held[k] - Due(sum[k - 1]))
           = Left(sum[k - 1] + held[k])
    BY <1>11, TakenOnce
  <1>13. kept[k] = Left(sum[k])
    <2> HIDE DEF Left, Due
    <2> QED
      BY <1>4, <1>9, <1>10, <1>12
  <1> QED
    BY <1>7, <1>13

\* The tokens at the first k inputs.
Upto(s, k) == {t \in s : \E m \in 1..k : sortTxInputs(Refs(s))[m] = t.at}

\* What is left of an input depends on those before it in the ledger's order.
LEMMA InputsInOrder ==
    ASSUME NEW s, IsFiniteSet(s), \A t \in s : t.at \in Nat \X Nat,
           \A t, u \in s : InputRank(t.at) = InputRank(u.at) => t = u
    PROVE  LET N == Cardinality(Refs(s))
               ordered == sortTxInputs(Refs(s))
           IN  /\ Upto(s, 0) = {} /\ Upto(s, N) = s
               /\ \A n \in 1..N :
                     LET held == {t \in s : t.at = ordered[n]}
                     IN  /\ {t \in s : Precedes(InputRank(t.at), InputRank(ordered[n]))}
                               = Upto(s, n - 1)
                         /\ Upto(s, n) = Upto(s, n - 1) \cup held
                         /\ Upto(s, n - 1) \cap held = {}
  <1> DEFINE inputs == Refs(s)
             N == Cardinality(inputs)
             ordered == sortTxInputs(inputs)
  <1>1. inputs \in SUBSET (Nat \X Nat) /\ Apart(inputs)
    BY DEF Refs, Apart
  <1>2. IsFiniteSet(inputs)
    BY RefsFinite
  <1>3. \A t \in s : t.at \in inputs
    BY DEF Refs
  <1> HIDE DEF inputs
  <1>4. /\ N \in Nat /\ ordered \in Surjection(1..N, inputs)
        /\ \A m, n \in 1..N : m < n => Precedes(InputRank(ordered[m]), InputRank(ordered[n]))
    BY <1>1, <1>2, SortPlaces
  <1> HIDE DEF N, ordered
  <1>5. /\ \A n \in 1..N : ordered[n] \in inputs
        /\ \A t \in s : \E m \in 1..N : ordered[m] = t.at
    BY <1>3, <1>4 DEF Surjection
  <1>6. \A n \in 1..N : InputRank(ordered[n]) \in Rank
    BY <1>1, <1>5 DEF InputRank, Bytes, Rank
  <1>7. \A k : Upto(s, k) = {t \in s : \E m \in 1..k : ordered[m] = t.at}
    BY DEF Upto, ordered, inputs
  <1>8. Upto(s, 0) = {} /\ Upto(s, N) = s
    <2>1. 1..0 = {}
      OBVIOUS
    <2> QED
      BY <1>5, <1>7, <2>1
  <1>9. ASSUME NEW n \in 1..N, NEW m \in 1..N
        PROVE  Precedes(InputRank(ordered[m]), InputRank(ordered[n])) <=> m < n
    <2>1. m < n \/ m = n \/ n < m
      OBVIOUS
    <2> QED
      BY <1>4, <1>6, <2>1, PrecedesIsStrict
  <1>10. ASSUME NEW n \in 1..N
         PROVE  LET held == {t \in s : t.at = ordered[n]}
                IN  /\ {t \in s : Precedes(InputRank(t.at), InputRank(ordered[n]))}
                          = Upto(s, n - 1)
                    /\ Upto(s, n) = Upto(s, n - 1) \cup held
                    /\ Upto(s, n - 1) \cap held = {}
    <2>1. \A m \in 1..n : m \in 1..(n - 1) \/ m = n
      BY <1>4
    <2>2. \A m \in 1..(n - 1) : m \in 1..N /\ m \in 1..n /\ m < n
      BY <1>4
    <2>3. n \in 1..n
      BY <1>4
    <2>4. \A m \in 1..N : m < n => m \in 1..(n - 1)
      BY <1>4
    <2>5. ~ Precedes(InputRank(ordered[n]), InputRank(ordered[n]))
      BY <1>6, PrecedesIsStrict
    <2>6. {t \in s : Precedes(InputRank(t.at), InputRank(ordered[n]))} = Upto(s, n - 1)
      <3>1. ASSUME NEW t \in s
            PROVE  Precedes(InputRank(t.at), InputRank(ordered[n])) <=> t \in Upto(s, n - 1)
        <4>1. PICK m \in 1..N : ordered[m] = t.at
          BY <1>5
        <4>2. Precedes(InputRank(t.at), InputRank(ordered[n])) => t \in Upto(s, n - 1)
          BY <1>7, <1>9, <2>4, <4>1
        <4>3. t \in Upto(s, n - 1) => Precedes(InputRank(t.at), InputRank(ordered[n]))
          BY <1>7, <1>9, <2>2
        <4> QED
          BY <4>2, <4>3
      <3>2. Upto(s, n - 1) \subseteq s
        BY <1>7
      <3> QED
        BY <3>1, <3>2
    <2>7. Upto(s, n) = Upto(s, n - 1) \cup {t \in s : t.at = ordered[n]}
      BY <1>7, <2>1, <2>2, <2>3
    <2>8. Upto(s, n - 1) \cap {t \in s : t.at = ordered[n]} = {}
      BY <2>5, <2>6
    <2> QED
      BY <2>6, <2>7, <2>8
  <1> QED
    BY <1>8, <1>10 DEF N, ordered, inputs

\* The first k of a list of tokens, without those of nothing.
Counted(list, k) == {list[n] : n \in {m \in 1..k : list[m].qty > 0}}

\* Their sum grows by one token at a time.
LEMMA CountedInTurn ==
    ASSUME NEW N \in Nat, NEW list, \A n \in 1..N : list[n].qty \in Nat,
           \A m, n \in 1..N : list[m] = list[n] => m = n
    PROVE  /\ \A k \in 0..N : IsFiniteSet(Counted(list, k)) /\ Quantity(Counted(list, k)) \in Nat
           /\ Quantity(Counted(list, 0)) = 0
           /\ \A n \in 1..N : Quantity(Counted(list, n))
                                = Quantity(Counted(list, n - 1)) + list[n].qty
  <1>1. ASSUME NEW k \in 0..N
        PROVE  /\ IsFiniteSet(Counted(list, k)) /\ Quantity(Counted(list, k)) \in Nat
               /\ \A t \in Counted(list, k) : t.qty \in Nat
    <2> DEFINE D == {m \in 1..k : list[m].qty > 0}
               f == [n \in D |-> list[n]]
    <2>1. IsFiniteSet(1..k)
      BY PlacesFinite
    <2>2. IsFiniteSet(D)
      BY <2>1, FS_Subset
    <2>3. Counted(list, k) = {list[n] : n \in D}
      BY DEF Counted
    <2>4. f \in Surjection(D, Counted(list, k))
      <3> HIDE DEF D
      <3> QED
        BY <2>3 DEF Surjection
    <2>5. IsFiniteSet(Counted(list, k))
      <3> HIDE DEF D, f
      <3> QED
        BY <2>2, <2>4, FS_Surjection
    <2>6. \A t \in Counted(list, k) : t.qty \in Nat
      BY DEF Counted
    <2> QED
      BY <2>5, <2>6, QuantityIsNatural
  <1>2. Counted(list, 0) = {}
    <2>1. 1..0 = {}
      OBVIOUS
    <2> QED
      BY <2>1 DEF Counted
  <1>3. ASSUME NEW n \in 1..N
        PROVE  Quantity(Counted(list, n)) = Quantity(Counted(list, n - 1)) + list[n].qty
    <2>1. /\ n \in 1..n /\ n - 1 \in 0..N
          /\ \A m \in 1..n : m \in 1..(n - 1) \/ m = n
          /\ \A m \in 1..(n - 1) : m \in 1..n /\ m \in 1..N /\ m # n
      OBVIOUS
    <2>2. list[n] \notin Counted(list, n - 1)
      BY <2>1 DEF Counted
    <2>3. list[n].qty \in Nat
      OBVIOUS
    <2>4. CASE list[n].qty = 0
      <3>1. Counted(list, n) = Counted(list, n - 1)
        BY <2>1, <2>4 DEF Counted
      <3> QED
        BY <1>1, <2>1, <2>4, <3>1
    <2>5. CASE list[n].qty # 0
      <3>1. Counted(list, n) = Counted(list, n - 1) \cup {list[n]}
        BY <2>1, <2>3, <2>5 DEF Counted
      <3>2. /\ IsFiniteSet(Counted(list, n - 1))
            /\ \A t \in Counted(list, n - 1) : t.qty \in Int
        BY <1>1, <2>1
      <3>3. list[n].qty \in Int
        BY <2>3
      <3> QED
        BY <2>2, <3>1, <3>2, <3>3, QuantityAdds
    <2> QED
      BY <2>4, <2>5
  <1> QED
    BY <1>1, <1>2, <1>3, QuantityOfNone

\* What the continuations keep of the inputs.
LEMMA ContinuationsKeep ==
    ASSUME NEW s, IsFiniteSet(s), \A t \in s : t.at \in Nat \X Nat /\ t.qty \in Nat,
           \A t, u \in s : InputRank(t.at) = InputRank(u.at) => t = u,
           NEW qty \in Nat, NEW list,
           \A n \in 1..Cardinality(Refs(s)) :
               list[n].qty = Remaining(s, sortTxInputs(Refs(s))[n], qty),
           \A m, n \in 1..Cardinality(Refs(s)) : list[m] = list[n] => m = n
    PROVE  LET kept == Counted(list, Cardinality(Refs(s)))
           IN  /\ IsFiniteSet(kept) /\ \A t \in kept : t.qty \in Nat
               /\ Quantity(kept)
                     = IF Quantity(s) < qty THEN 0 ELSE Quantity(s) - qty
  <1> DEFINE N == Cardinality(Refs(s))
             ordered == sortTxInputs(Refs(s))
             held == [n \in 1..N |-> Quantity({t \in s : t.at = ordered[n]})]
             sum == [k \in 0..N |-> Quantity(Upto(s, k))]
             kept == [k \in 0..N |-> Quantity(Counted(list, k))]
             due(n) == IF qty > sum[n - 1] THEN qty - sum[n - 1] ELSE 0
  <1>1. N \in Nat
    BY RefsFinite, FS_CardinalityType
  <1>2. \A u \in SUBSET s : /\ IsFiniteSet(u) /\ \A t \in u : t.qty \in Int
                            /\ Quantity(u) \in Nat
    BY FS_Subset, QuantityIsNatural
  <1>3. /\ Upto(s, 0) = {} /\ Upto(s, N) = s
        /\ \A n \in 1..N :
              /\ {t \in s : Precedes(InputRank(t.at), InputRank(ordered[n]))} = Upto(s, n - 1)
              /\ Upto(s, n) = Upto(s, n - 1) \cup {t \in s : t.at = ordered[n]}
              /\ Upto(s, n - 1) \cap {t \in s : t.at = ordered[n]} = {}
    BY InputsInOrder
  <1>4. \A k : Upto(s, k) \in SUBSET s
    BY DEF Upto
  <1>5. \A n \in 1..N : list[n].qty = Remaining(s, ordered[n], qty) /\ list[n].qty \in Nat
    BY RemainingTyped
  <1> HIDE DEF N, ordered
  <1>6. held \in [1..N -> Nat]
    <2>1. \A n \in 1..N : {t \in s : t.at = ordered[n]} \in SUBSET s
      OBVIOUS
    <2> QED
      BY <1>2, <2>1
  <1>7. sum \in [0..N -> Nat] /\ sum[0] = 0
    BY <1>1, <1>2, <1>3, <1>4, QuantityOfNone
  <1>8. /\ \A k \in 0..N : IsFiniteSet(Counted(list, k)) /\ Quantity(Counted(list, k)) \in Nat
        /\ Quantity(Counted(list, 0)) = 0
        /\ \A n \in 1..N : Quantity(Counted(list, n))
                             = Quantity(Counted(list, n - 1)) + list[n].qty
    <2>1. \A n \in 1..N : list[n].qty \in Nat
      BY <1>5
    <2>2. \A m, n \in 1..N : list[m] = list[n] => m = n
      BY DEF N
    <2> QED
      BY <1>1, <2>1, <2>2, CountedInTurn
  <1>9. kept \in [0..N -> Nat] /\ kept[0] = 0
    BY <1>1, <1>8
  <1>10. ASSUME NEW n \in 1..N
         PROVE  /\ sum[n] = sum[n - 1] + held[n]
                /\ kept[n] = kept[n - 1] + (IF held[n] < due(n) THEN 0 ELSE held[n] - due(n))
    <2>1. n \in 0..N /\ n - 1 \in 0..N
      BY <1>1
    <2> DEFINE these == {t \in s : t.at = ordered[n]}
               earlier == {t \in s : Precedes(InputRank(t.at), InputRank(ordered[n]))}
    <2>2. these \in SUBSET s
      OBVIOUS
    <2>3. /\ sum[n] = Quantity(Upto(s, n)) /\ sum[n - 1] = Quantity(Upto(s, n - 1))
          /\ held[n] = Quantity(these)
          /\ kept[n] = Quantity(Counted(list, n)) /\ kept[n - 1] = Quantity(Counted(list, n - 1))
      BY <2>1
    <2>4. earlier = Upto(s, n - 1) /\ Upto(s, n) = Upto(s, n - 1) \cup these
          /\ Upto(s, n - 1) \cap these = {}
      BY <1>3
    <2>5. Remaining(s, ordered[n], qty)
            = LET late == IF qty > Quantity(earlier) THEN qty - Quantity(earlier) ELSE 0
              IN  IF Quantity(these) < late THEN 0 ELSE Quantity(these) - late
      BY DEF Remaining
    <2> HIDE DEF these, earlier, held, sum, kept
    <2>6. sum[n] = sum[n - 1] + held[n]
      <3>1. /\ IsFiniteSet(Upto(s, n - 1)) /\ IsFiniteSet(these)
            /\ \A t \in Upto(s, n - 1) \cup these : t.qty \in Int
        BY <1>2, <1>4, <2>2
      <3>2. Quantity(Upto(s, n - 1) \cup these) = Quantity(Upto(s, n - 1)) + Quantity(these)
        BY <2>4, <3>1, QuantityOfUnion
      <3> QED
        BY <2>3, <2>4, <3>2
    <2>7. list[n].qty = IF held[n] < due(n) THEN 0 ELSE held[n] - due(n)
      BY <1>5, <2>3, <2>4, <2>5
    <2>8. kept[n] = kept[n - 1] + list[n].qty
      BY <1>8, <2>3
    <2> QED
      BY <2>6, <2>7, <2>8
  <1>11. sum[N] = Quantity(s) /\ kept[N] = Quantity(Counted(list, N))
    BY <1>1, <1>3
  <1> HIDE DEF held, sum, kept
  <1>12. kept[N] = IF sum[N] < qty THEN 0 ELSE sum[N] - qty
    <2>1. TakesInTurn(N, qty, held, sum, kept)
      BY <1>6, <1>7, <1>9, <1>10 DEF TakesInTurn
    <2> HIDE DEF due
    <2>2. \A M, q \in Nat : \A h, a, b :
            TakesInTurn(M, q, h, a, b) => b[M] = IF a[M] < q THEN 0 ELSE a[M] - q
      BY TakenInTurn
    <2>3. N \in Nat /\ qty \in Nat
      BY <1>1
    <2> QED
      BY <2>1, <2>2, <2>3
  <1>13. \A t \in Counted(list, N) : t.qty \in Nat
    BY <1>5 DEF Counted
  <1>14. IsFiniteSet(Counted(list, N))
    BY <1>1, <1>8
  <1> QED
    BY <1>11, <1>12, <1>13, <1>14 DEF N

\* What an authority's transfer pays out.
DestinationFirst(s, holder, to, qty) ==
    <<Pays("destination", to, qty)>> \o Continuations(s, holder, qty)

\* The destination and the continuations are worth what was selected.
LEMMA ThirdPartyPaid ==
    ASSUME EntriesInv, TokensInv, NEW p, NEW holder \in Holders, NEW to, NEW qty \in Nat \ {0},
           NEW s \in selectUtxosForAmount(Holdings(holder, p), qty),
           NEW tx,
           tx.outputs = DestinationFirst(s, holder, to, qty)
    PROVE  QuantityOut(tx) = Quantity(s)
  <1> DEFINE N == Cardinality(Refs(s))
             ordered == sortTxInputs(Refs(s))
             token(n) == [at |-> <<0, n - 1>>, policy |-> tx.policy,
                          owner |-> tx.outputs[n].owner, qty |-> tx.outputs[n].qty]
             list == [n \in 1..N |-> token(n + 1)]
  <1>1. /\ s \in SUBSET tokens /\ IsFiniteSet(s) /\ \A t \in s : t.qty \in Nat
        /\ Quantity(s) \in Nat /\ Quantity(s) >= qty
    BY SelectedTyped
  <1>2. /\ \A t \in s : t.at \in Nat \X Nat /\ t.qty \in Nat
        /\ \A t, u \in s : InputRank(t.at) = InputRank(u.at) => t = u
    BY <1>1, AddressesApart
  <1>3. /\ N \in Nat /\ DOMAIN tx.outputs = 1..(N + 1)
        /\ tx.outputs[1] = Pays("destination", to, qty)
        /\ \A n \in 1..N : tx.outputs[n + 1] = Continuations(s, holder, qty)[n]
    BY ThirdPartyOutputs DEF DestinationFirst
  <1>4. tx.outputs[1].tag = "destination" /\ tx.outputs[1].qty = qty
    BY <1>3, OutputIs DEF Pays
  <1>5. \A n \in 1..N : /\ tx.outputs[n + 1].tag = "continuation"
                        /\ tx.outputs[n + 1].qty = Remaining(s, ordered[n], qty)
    <2> DEFINE out == Continuations(s, holder, qty)
    <2>1. qty \in Nat
      OBVIOUS
    <2>2. \A n \in 1..N : out[n].tag = "continuation" /\ out[n].qty = Remaining(s, ordered[n], qty)
      BY <1>1, <2>1, ContinuationsTyped
    <2> HIDE DEF out, N, ordered
    <2>3. \A n \in 1..N : tx.outputs[n + 1] = out[n]
      BY <1>3 DEF out, N
    <2> QED
      BY <2>2, <2>3
  <1> HIDE DEF N, ordered
  <1>6. /\ \A n \in 1..(N + 1) : token(n).qty = tx.outputs[n].qty /\ token(n).at[2] = n - 1
        /\ \A n \in 1..N : list[n] = token(n + 1) /\ n + 1 \in 1..(N + 1)
        /\ 1 \in 1..(N + 1)
    BY <1>3
  <1>7. \A m, n \in 1..(N + 1) : token(m) = token(n) => m = n
    <2> HIDE DEF token
    <2>1. \A m, n \in 1..(N + 1) : token(m) = token(n) => m - 1 = n - 1
      BY <1>6
    <2> QED
      BY <1>3, <2>1
  <1>8. ChainTokens(tx, 0) = {token(n) : n \in Positions(tx)}
    BY DEF ChainTokens
  <1> HIDE DEF token, list
  <1>9. \A n \in 1..N : list[n].qty = Remaining(s, ordered[n], qty)
    BY <1>5, <1>6
  <1>10. \A m, n \in 1..N : list[m] = list[n] => m = n
    <2>1. ASSUME NEW m \in 1..N, NEW n \in 1..N, list[m] = list[n] PROVE m = n
      <3>1. token(m + 1) = token(n + 1) /\ m + 1 \in 1..(N + 1) /\ n + 1 \in 1..(N + 1)
        BY <1>6, <2>1
      <3>2. m + 1 = n + 1
        BY <1>7, <3>1
      <3> QED
        BY <1>3, <3>2
    <2> QED
      BY <2>1
  <1>11. /\ IsFiniteSet(Counted(list, N)) /\ \A t \in Counted(list, N) : t.qty \in Nat
         /\ Quantity(Counted(list, N)) = IF Quantity(s) < qty THEN 0 ELSE Quantity(s) - qty
    BY <1>1, <1>2, <1>9, <1>10, ContinuationsKeep DEF N, ordered
  <1>12. ChainTokens(tx, 0) = Counted(list, N) \cup {token(1)}
    <2>1. \A n \in 1..(N + 1) : n = 1 \/ (n - 1 \in 1..N /\ (n - 1) + 1 = n)
      BY <1>3
    <2>2. \A n \in 1..(N + 1) : n \in Positions(tx) <=> tx.outputs[n].qty > 0
      <3>1. \A n \in 1..(N + 1) :
              tx.outputs[n].tag \notin {"new-node", "covering-node", "cip68-reference"}
        BY <1>4, <1>5, <2>1
      <3> QED
        BY <1>3, <3>1 DEF Positions
    <2>3. Positions(tx) \subseteq 1..(N + 1)
      BY <1>3 DEF Positions
    <2>4. ASSUME NEW n \in Positions(tx) PROVE token(n) \in Counted(list, N) \cup {token(1)}
      <3>1. CASE n = 1
        BY <3>1
      <3>2. CASE n # 1
        <4>1. n - 1 \in 1..N /\ (n - 1) + 1 = n /\ tx.outputs[n].qty > 0
          BY <2>1, <2>2, <2>3, <3>2
        <4>2. list[n - 1] = token(n) /\ list[n - 1].qty > 0
          BY <1>6, <2>3, <4>1
        <4> QED
          BY <4>1, <4>2 DEF Counted
      <3> QED
        BY <3>1, <3>2
    <2>5. ASSUME NEW n \in 1..N, list[n].qty > 0 PROVE n + 1 \in Positions(tx)
      BY <1>6, <2>2, <2>5
    <2>6. 1 \in Positions(tx)
      <3>1. tx.outputs[1].qty > 0
        BY <1>4
      <3> QED
        BY <1>6, <2>2, <3>1
    <2>7. \A t \in Counted(list, N) : t \in ChainTokens(tx, 0)
      BY <1>6, <1>8, <2>5 DEF Counted
    <2>8. token(1) \in ChainTokens(tx, 0)
      BY <1>8, <2>6
    <2> QED
      BY <1>8, <2>4, <2>7, <2>8
  <1>13. token(1) \notin Counted(list, N)
    <2>1. \A n \in 1..N : n + 1 # 1
      BY <1>3
    <2>2. \A n \in 1..N : list[n] # token(1)
      BY <1>6, <1>7, <2>1
    <2> QED
      BY <2>2 DEF Counted
  <1>14. token(1).qty = qty
    BY <1>4, <1>6
  <1>15. Quantity(Counted(list, N) \cup {token(1)}) = Quantity(Counted(list, N)) + token(1).qty
    BY <1>11, <1>13, <1>14, QuantityAdds
  <1>16. QuantityOut(tx) = Quantity(Counted(list, N)) + qty
    BY <1>12, <1>14, <1>15 DEF QuantityOut
  <1>17. Quantity(Counted(list, N)) = Quantity(s) - qty
    BY <1>1, <1>11
  <1> QED
    BY <1>1, <1>16, <1>17

\* Each input is carried on by the output at its own place.
LEMMA ManySeized ==
    ASSUME EntriesInv, TokensInv, NEW p, NEW holder \in Holders, NEW to, NEW qty \in Nat \ {0},
           NEW s \in selectUtxosForAmount(Holdings(holder, p), qty),
           NEW tx, TokensIn(tx) = s,
           tx.outputs = DestinationFirst(s, holder, to, qty),
           tx.delegate.start = 1, tx.minted = 0, tx.policy \in DOMAIN entry,
           ChainReads(tx, tx.delegate.nodeIdx, entry[tx.policy].at),
           entry[tx.policy].thirdParty \in tx.withdraws
    PROVE  ChainSeizes(tx)
  <1> DEFINE inputs == Refs(s)
             N == Cardinality(inputs)
             ordered == sortTxInputs(inputs)
             ranks == {InputRank(t.at) : t \in TokensIn(tx)}
  <1>1. /\ s \in SUBSET tokens /\ IsFiniteSet(s) /\ \A t \in s : t.qty \in Nat
    BY SelectedTyped
  <1>2. inputs \in SUBSET (Nat \X Nat) /\ IsFiniteSet(inputs) /\ Apart(inputs)
    <2>1. IsFiniteSet(inputs)
      BY <1>1, RefsFinite
    <2>2. /\ \A t \in s : t.at \in Nat \X Nat
          /\ \A t, u \in s : InputRank(t.at) = InputRank(u.at) => t = u
      BY <1>1, AddressesApart
    <2>3. inputs \in SUBSET (Nat \X Nat) /\ Apart(inputs)
      BY <2>2 DEF Refs, Apart
    <2> QED
      BY <2>1, <2>3
  <1>3. ranks = {InputRank(r) : r \in inputs}
    BY DEF Refs
  <1> HIDE DEF inputs
  <1>4. /\ Cardinality({InputRank(r) : r \in inputs}) = N
        /\ \A n \in 1..N :
              ChainFinds({InputRank(r) : r \in inputs}, n - 1, InputRank(ordered[n]))
    BY <1>2, SortedFound
  <1>5. N \in Nat /\ ordered \in Surjection(1..N, inputs)
    BY <1>2, SortPlaces
  <1>6. /\ DOMAIN tx.outputs = 1..(N + 1)
        /\ \A n \in 1..N : tx.outputs[n + 1] = Continuations(s, holder, qty)[n]
    BY ThirdPartyOutputs DEF inputs, DestinationFirst
  <1>7. \A n \in 1..N : tx.outputs[n + 1].keeps = ordered[n]
    BY <1>1, <1>6, ContinuationsTyped DEF inputs
  <1>8. \A n \in 1..N : ordered[n] # << >>
    <2>1. \A n \in 1..N : ordered[n] \in Nat \X Nat
      BY <1>2, <1>5 DEF Surjection
    <2> HIDE DEF N, ordered
    <2> QED
      BY <2>1, PairIsNotEmpty
  <1> HIDE DEF N, ordered
  <1>9. ASSUME NEW n \in 1..N
        PROVE  /\ tx.delegate.start + n \in DOMAIN tx.outputs
               /\ tx.outputs[tx.delegate.start + n].keeps # << >>
               /\ ChainFinds(ranks, n - 1, InputRank(tx.outputs[tx.delegate.start + n].keeps))
    <2>1. tx.delegate.start + n = n + 1 /\ n + 1 \in 1..(N + 1)
      BY <1>5
    <2>2. tx.outputs[n + 1].keeps = ordered[n] /\ ordered[n] # << >>
      BY <1>7, <1>8
    <2>3. ChainFinds(ranks, n - 1, InputRank(ordered[n]))
      BY <1>3, <1>4
    <2> HIDE DEF ranks
    <2> QED
      BY <1>6, <2>1, <2>2, <2>3
  <1>10. Cardinality(ranks) = N
    BY <1>3, <1>4
  <1> QED
    BY <1>9, <1>10 DEF ChainSeizes

\* A transfer by the authority of a plugin's own token is accepted.
LEMMA ThirdPartyTransferAccepted ==
    ASSUME LedgerInv, NEW i \in Dummies, NEW p, p = PolicyOf[i],
           NEW holder \in Holders, NEW to, NEW qty \in Nat \ {0},
           NEW tx \in thirdPartyTransfer(i, holder, to, p, qty)
    PROVE  ChainAccepts(tx)
  <1> DEFINE node == entry[p].at
             refs == <<Params, node>>
             others == <<ScriptKey(ThirdParty), ScriptKey(TransferLogic[i])>>
  <1>1. p \in DOMAIN entry
    BY DEF thirdPartyTransfer, When, findRegistryNode
  <1>2. PICK s \in selectUtxosForAmount(Holdings(holder, p), qty),
             positions \in Positioned(refs, node, {-1}, others) :
          tx = ThirdPartyAct("thirdPartyTransfer", i, p, {}, TransferLogic[i], refs, Refs(s), 1,
                    <<Pays("destination", to, qty)>> \o Continuations(s, holder, qty), positions)
    <2> HIDE DEF refs, others
    <2> QED
      BY DEF thirdPartyTransfer, When, refs, others
  <1>3. i \in Instances /\ i \notin FreezeAndSeizes
    BY InstancesAssumption DEF Instances
  <1>4. EntriesInv /\ TokensInv /\ NodesInv
    BY DEF LedgerInv
  <1>5. /\ refs \in Seq(Nat \X Nat) /\ Distinct(InputRanks(refs)) /\ Range(refs) = {Params, node}
    BY <1>1, <1>4, AddressesApart, DeployedApart, TwoReads
  <1>6. TransferLogic[i] \in Nat /\ ThirdParty \in Nat
    BY <1>3, InstancesAssumption DEF Injection
  <1> DEFINE outputs == DestinationFirst(s, holder, to, qty)
  <1>7. tx = ThirdPartyAct("thirdPartyTransfer", i, p, {}, TransferLogic[i], refs, Refs(s), 1,
                           outputs, positions)
    BY <1>2 DEF DestinationFirst
  <1> HIDE DEF outputs
  <1>8. /\ tx.op = "thirdPartyTransfer" /\ tx.policy = p
        /\ tx.reads = Range(refs) /\ tx.spends = Refs(s)
        /\ tx.withdraws = {Plg, ThirdParty, TransferLogic[i]}
        /\ tx.outputs = outputs /\ tx.minted = 0 /\ tx.act = "THIRD_PARTY"
        /\ tx.base.paramsIdx = positions.params /\ tx.base.wdrlIdx = positions.plg
        /\ tx.delegate.nodeIdx = positions.node /\ tx.delegate.start = 1
    <2> HIDE DEF refs
    <2> QED
      BY <1>7, ThirdPartyActIs
  <1>9. s \in SUBSET tokens /\ Quantity(s) \in Nat
    BY <1>4, SelectedTyped
  <1>10. TokensIn(tx) = s
    BY <1>4, <1>8, <1>9 DEF TokensIn, Refs, TokensInv
  <1>11. /\ ChainReads(tx, positions.params, Params) /\ ChainReads(tx, positions.node, node)
         /\ ChainWithdraws(tx, positions.plg, Plg)
    <2>1. Dispatched(tx, others)
      BY <1>6, <1>8 DEF Dispatched
    <2> HIDE DEF refs, node, others
    <2> QED
      BY <1>2, <1>5, <1>8, <2>1, PositionsFound
  <1>12. entry[p].thirdParty = TransferLogic[i]
    BY <1>1, <1>3, <1>4 DEF NodesInv, OwnNode, registryNode
  <1>13. ChainSeizes(tx)
    <2>1. /\ tx.policy \in DOMAIN entry
          /\ ChainReads(tx, tx.delegate.nodeIdx, entry[tx.policy].at)
          /\ entry[tx.policy].thirdParty \in tx.withdraws
      BY <1>1, <1>8, <1>11, <1>12
    <2>2. tx.outputs = DestinationFirst(s, holder, to, qty)
      BY <1>8 DEF outputs
    <2>3. tx.delegate.start = 1 /\ tx.minted = 0
      BY <1>8
    <2> HIDE DEF refs, node, others
    <2> QED
      BY <1>4, <1>10, <2>1, <2>2, <2>3, ManySeized
  <1>14. ChainSpends(tx)
    BY <1>8, <1>11, <1>13 DEF ChainSpends, ChainDispatches
  <1>15. QuantityOut(tx) = Quantity(s)
    <2>1. tx.outputs = DestinationFirst(s, holder, to, qty)
      BY <1>8 DEF outputs
    <2> HIDE DEF refs, node, others
    <2> QED
      BY <1>4, <2>1, ThirdPartyPaid
  <1>16. QuantityOut(tx) = Quantity(TokensIn(tx)) + tx.minted
    BY <1>8, <1>9, <1>10, <1>15
  <1>17. tx.reads \cap tx.spends = {}
    <2>1. \A t \in s : t.at \notin {Params, node}
      BY <1>1, <1>4, <1>9, NodesApart, DeployedApart DEF TokensInv
    <2> QED
      BY <1>5, <1>8, <2>1 DEF Refs
  <1>18. ChainLogicAgrees(tx)
    <2>1. tx.withdraws \subseteq {TransferLogic[i], CoreTransfer, Plg, ThirdParty}
      BY <1>8
    <2> QED
      BY <1>3, <2>1, OwnersAgree
  <1> QED
    BY <1>8, <1>14, <1>16, <1>17, <1>18, Accepted

-----------------------------------------------------------------------------

\* All that a plugin can be brought to build on its own token is accepted.
LEMMA OffersAccepted ==
    ASSUME LedgerInv, NEW i \in Instances, NEW tx \in Offers(i, PolicyOf[i])
    PROVE  ChainAccepts(tx)
  <1> DEFINE p == PolicyOf[i]
  <1>1. \A qty \in 1..MaxSupply : qty \in Nat \ {0}
    BY BoundsAssumption
  <1>2. PICK to \in Holders, qty \in 1..MaxSupply :
          \/ tx \in mint(i, p, to, qty)
          \/ tx \in burn(i, p)
          \/ \E from \in Holders :
                tx \in transfer(i, p, from, to, qty) \/ tx \in administer(i, p, from, to, qty)
    BY DEF Offers
  <1>3. qty \in Nat \ {0}
    BY <1>1
  <1>4. CASE tx \in mint(i, p, to, qty)
    BY <1>3, <1>4, MintAccepted
  <1>5. CASE tx \in burn(i, p)
    <2>1. i \in FreezeAndSeizes /\ \E t \in tokens : tx \in fesBurn(i, p, t)
      BY <1>5 DEF burn, dummyBurn, Instances
    <2> QED
      BY <2>1, BurnAccepted
  <1>6. CASE \E from \in Holders : tx \in transfer(i, p, from, to, qty)
    BY <1>3, <1>6, TransferAccepted
  <1>7. CASE \E from \in Holders : tx \in administer(i, p, from, to, qty)
    <2>1. PICK from \in Holders : tx \in administer(i, p, from, to, qty)
      BY <1>7
    <2>2. CASE i \in Dummies
      BY <1>3, <2>1, <2>2, ThirdPartyTransferAccepted DEF administer
    <2>3. CASE i \notin Dummies
      <3>1. i \in FreezeAndSeizes /\ \E t \in tokens : tx \in seize(i, p, t, to)
        BY <2>1, <2>3 DEF administer, Holdings, Instances
      <3> QED
        BY <3>1, SeizeAccepted
    <2> QED
      BY <2>2, <2>3
  <1> QED
    BY <1>2, <1>4, <1>5, <1>6, <1>7

\* Every plugin that the protocol object holds builds, for its own token, only
\* what every validator accepts, in every state and whatever the ids, hashes,
\* selections and number of inputs.  The wallet that pays for the registrations
\* of freeze-and-seize must not be the one that holds the reference scripts.
THEOREM OwnBuildsLand ==
    ASSUME ScriptWallet # Admin PROVE Spec => []OwnBuildsAccepted
  <1>1. IInv => OwnBuildsAccepted
    <2> SUFFICES ASSUME IInv, NEW i \in tryAllSubstandards
                 PROVE  /\ \A tx \in Offers(i, PolicyOf[i]) : ChainAccepts(tx)
                        /\ \A to \in Holders : \A tx \in register(i, to, MaxSupply) :
                              ChainAccepts(tx)
      BY DEF OwnBuildsAccepted
    <2>1. LedgerInv /\ i \in Instances
      BY WalletsAssumption DEF IInv, PluginsInv, tryAllSubstandards
    <2>2. MaxSupply \in Nat
      BY BoundsAssumption
    <2> QED
      BY <2>1, <2>2, OffersAccepted, RegisterAccepted
  <1> QED
    BY <1>1, Invariance, PTL

-----------------------------------------------------------------------------
(* The tokens of a listed holder.                                          *)

\* The outputs a builder may pick to spend.
Live == {t.at : t \in tokens} \cup {entry[k].at : k \in DOMAIN entry}
            \cup {LogicRef, ThirdPartyRef}

\* tx spends outputs that are there, and of the programmable ones only those of
\* the policy it is about.
Spends(tx) ==
    /\ tx.act \in {"none", "TRANSFER", "THIRD_PARTY"}
    /\ tx.spends \subseteq Live
    /\ \A t \in TokensIn(tx) : t.policy = tx.policy

SpendsInv == \A tx \in pool : Spends(tx)

\* tx spends the selection s among the tokens of its policy, and scripts.
Selected(tx, s, scripts) ==
    /\ tx.act \in {"none", "TRANSFER", "THIRD_PARTY"}
    /\ s \subseteq tokens /\ \A t \in s : t.policy = tx.policy
    /\ scripts \subseteq {LogicRef, ThirdPartyRef}
    /\ tx.spends = Refs(s) \cup scripts

LEMMA SelectionSpends ==
    ASSUME LedgerInv, NEW tx, NEW s, NEW rest, Selected(tx, s, rest)
    PROVE  Spends(tx)
  <1> USE DEF Selected
  <1>1. \A t \in tokens : t.at \notin rest
    <2>1. {LogicRef, ThirdPartyRef} \subseteq Deployed
      BY DEF Deployed
    <2> QED
      BY <2>1, AddressesApart DEF LedgerInv
  <1>2. TokensIn(tx) = s
    BY <1>1, SpentTokens DEF LedgerInv
  <1>3. tx.spends \subseteq Live
    BY DEF Refs, Live
  <1> QED
    BY <1>2, <1>3 DEF Spends

\* A registration spends a registry node, and no token.
LEMMA RegistersSpend ==
    ASSUME LedgerInv, NEW i \in Instances, NEW to, NEW qty, NEW tx \in register(i, to, qty)
    PROVE  Spends(tx)
  <1>1. PICK c, spent :
          /\ c \in Covering(directory, PolicyOf[i])
          /\ spent = {} \/ spent \in UnfilteredFunds(Admin)
          /\ \E signers, logic, tags, plan :
                tx = Registration(i, signers, logic, tags, to, qty, c, spent, plan)
    <2>1. CASE i \in Dummies
      <3>1. PICK c \in Covering(directory, PolicyOf[i]) : \E plan :
              tx = Registration(i, {}, registryNode(TransferLogic[i], TransferLogic[i]),
                                dummyTags, to, qty, c, {}, plan)
        BY <2>1 DEF register, dummyRegister
      <3> HIDE DEF register
      <3> QED
        BY <3>1
    <2>2. CASE i \notin Dummies
      <3>1. PICK hasCIP68 \in BOOLEAN : tx \in fesRegister(i, Admin, to, qty, hasCIP68)
        BY <2>2 DEF register
      <3>2. PICK c \in Covering(directory, PolicyOf[i]), spent \in UnfilteredFunds(Admin) :
              \E plan : tx = Registration(i, {Admin}, fesNode(i), fesTags(hasCIP68), to, qty,
                                         c, spent, plan)
        BY <3>1 DEF fesRegister
      <3> QED
        BY <3>2
    <2> QED
      BY <2>1, <2>2
  <1>2. tx.act = "none" /\ tx.spends = {entry[c.key].at} \cup spent
    BY <1>1, RegistrationIs
  <1>3. spent \subseteq {LogicRef, ThirdPartyRef} /\ \A t \in tokens : t.at \notin spent
    BY <1>1, ScriptsAreNotTokens DEF LedgerInv
  <1>4. c.key \in DOMAIN entry
    BY <1>1 DEF LedgerInv, DirectoryInv, Covering
  <1>5. TokensIn(tx) = {}
    BY <1>2, <1>3, <1>4 DEF TokensIn, LedgerInv, TokensInv
  <1>6. tx.spends \subseteq Live
    BY <1>2, <1>3, <1>4 DEF Live
  <1> QED
    BY <1>2, <1>5, <1>6 DEF Spends

LEMMA MintsSpend ==
    ASSUME LedgerInv, NEW i, NEW p, NEW to, NEW qty, NEW tx \in mint(i, p, to, qty)
    PROVE  Spends(tx)
  <1>1. \E signers, plan : tx = Minting(i, signers, to, p, qty, plan)
    BY DEF mint, dummyMint, fesMint, When
  <1>2. tx.act = "none" /\ tx.spends = {}
    BY <1>1, MintingIs
  <1>3. Selected(tx, {}, {})
    BY <1>2 DEF Selected, Refs
  <1> QED
    BY <1>3, SelectionSpends

\* burn and seize: one token of the policy.
LEMMA OneSpent ==
    ASSUME LedgerInv, NEW t \in tokens, NEW tx, tx.act = "THIRD_PARTY",
           tx.spends = {t.at}, t.policy = tx.policy
    PROVE  Spends(tx)
  <1>1. Selected(tx, {t}, {})
    BY DEF Selected, Refs
  <1> QED
    BY <1>1, SelectionSpends

LEMMA BurnsSpend ==
    ASSUME LedgerInv, NEW i, NEW p, NEW tx \in burn(i, p)
    PROVE  Spends(tx)
  <1>1. PICK t \in tokens : tx \in fesBurn(i, p, t)
    BY DEF burn, dummyBurn
  <1>2. /\ t.policy = p
        /\ \E plan, nodeIdx : tx = Burning(i, p, t, plan, nodeIdx)
    BY <1>1 DEF fesBurn, When
  <1>3. tx.act = "THIRD_PARTY" /\ tx.spends = {t.at} /\ tx.policy = p
    BY <1>2, BurningIs
  <1> QED
    BY <1>2, <1>3, OneSpent

LEMMA TransfersSpend ==
    ASSUME LedgerInv, NEW i, NEW p, NEW from, NEW to, NEW qty \in Nat \ {0},
           NEW tx \in transfer(i, p, from, to, qty)
    PROVE  Spends(tx)
  <1>1. PICK s \in selectUtxosForAmount(Holdings(from, p), qty),
             spent \in UnfilteredFunds(from) : \E refs, positions :
              tx = Transferring(i, p, from, to, qty, refs, s, spent, positions)
    BY DEF transfer, dummyTransfer, fesTransfer, When
  <1>2. tx.act = "TRANSFER" /\ tx.spends = Refs(s) \cup spent /\ tx.policy = p
    BY <1>1, TransferringIs
  <1>3. s \in SUBSET tokens /\ \A t \in s : t.policy = p
    BY SelectedTyped DEF LedgerInv
  <1>4. spent \in SUBSET {LogicRef, ThirdPartyRef}
    BY ScriptsAreNotTokens DEF LedgerInv
  <1>5. Selected(tx, s, spent)
    BY <1>2, <1>3, <1>4 DEF Selected
  <1> QED
    BY <1>5, SelectionSpends

LEMMA AdministersSpend ==
    ASSUME LedgerInv, NEW i, NEW p, NEW holder, NEW to, NEW qty \in Nat \ {0},
           NEW tx \in administer(i, p, holder, to, qty)
    PROVE  Spends(tx)
  <1>1. CASE tx \in thirdPartyTransfer(i, holder, to, p, qty)
    <2>1. PICK s \in selectUtxosForAmount(Holdings(holder, p), qty) :
            \E refs, outputs, positions :
              tx = ThirdPartyAct("thirdPartyTransfer", i, p, {}, TransferLogic[i], refs, Refs(s),
                                 1, outputs, positions)
      BY <1>1 DEF thirdPartyTransfer, When
    <2>2. tx.act = "THIRD_PARTY" /\ tx.spends = Refs(s) /\ tx.policy = p
      BY <2>1, ThirdPartyActIs
    <2>3. s \in SUBSET tokens /\ \A t \in s : t.policy = p
      BY SelectedTyped DEF LedgerInv
    <2>4. Selected(tx, s, {})
      BY <2>2, <2>3 DEF Selected
    <2> QED
      BY <2>4, SelectionSpends
  <1>2. CASE \E t \in Holdings(holder, p) : tx \in seize(i, p, t, to)
    <2>1. PICK t \in tokens : t.policy = p /\ tx \in seize(i, p, t, to)
      BY <1>2 DEF Holdings
    <2>2. \E signers, authority, refs, outputs, positions :
            tx = ThirdPartyAct("seize", i, p, signers, authority, refs, {t.at}, 1, outputs,
                               positions)
      BY <2>1 DEF seize, When
    <2>3. tx.act = "THIRD_PARTY" /\ tx.spends = {t.at} /\ tx.policy = p
      BY <2>2, ThirdPartyActIs
    <2> QED
      BY <2>1, <2>3, OneSpent
  <1> QED
    BY <1>1, <1>2 DEF administer

LEMMA CompliesSpend ==
    ASSUME LedgerInv, NEW i, NEW p, NEW target, NEW tx \in comply(i, p, target)
    PROVE  Spends(tx)
  <1>1. tx.act = "none" /\ tx.spends = {}
    <2>1. CASE tx \in initCompliance(i)
      <3>1. tx = Blank("init", i, PolicyOf[i])
        BY <2>1 DEF initCompliance, When
      <3> QED
        BY <3>1, BlankIs
    <2>2. CASE tx \in freeze(i, p, target) \cup unfreeze(i, p, target)
      <3>1. \E op : tx = [Blank(op, i, p) EXCEPT !.target = target]
        BY <2>2 DEF freeze, unfreeze, When
      <3> QED
        BY <3>1, BlacklistTxIs
    <2> QED
      BY <2>1, <2>2 DEF comply
  <1>2. Selected(tx, {}, {})
    BY <1>1 DEF Selected, Refs
  <1> QED
    BY <1>2, SelectionSpends

\* Every output that a landing leaves unspent is still there, and what it adds
\* nobody has picked: a transaction under way loses its inputs to no other one,
\* and gets none.
LEMMA LandingKeepsSpends ==
    ASSUME LedgerInv, NEW tx, Placed(tx), Written(tx), ChainLands(tx),
           NEW t, Spends(t), t.spends \cap tx.spends = {}
    PROVE  Spends(t)'
  <1>1. PICK id \in TxIds \ ChainIdsInUse :
          /\ tokens' = (tokens \ TokensIn(tx)) \cup ChainTokens(tx, id)
          /\ entry' = ChainEntries(tx, id)
    BY DEF ChainLands
  <1>2. \A a \in Live : a[1] # id
    <2>1. /\ \A u \in tokens : u.at[1] # id
          /\ \A k \in DOMAIN entry : entry[k].at[1] # id
      BY <1>1 DEF ChainIdsInUse
    <2>2. \A d \in {LogicRef, ThirdPartyRef} : d[1] # id
      BY <1>1, OutputsAssumption DEF Deployed
    <2> QED
      BY <2>1, <2>2 DEF Live
  <1>3. \A u \in ChainTokens(tx, id) : u.at[1] = id
    BY DEF ChainTokens
  <1>4. TokensIn(t)' \subseteq TokensIn(t)
    BY <1>1, <1>2, <1>3 DEF TokensIn, Spends
  <1>5. ASSUME NEW a \in t.spends PROVE a \in Live'
    <2>1. CASE \E u \in tokens : a = u.at
      <3>1. PICK u \in tokens : a = u.at
        BY <2>1
      <3>2. u \in tokens'
        BY <1>1, <3>1 DEF TokensIn
      <3> QED
        BY <3>1, <3>2 DEF Live
    <2>2. CASE \E k \in DOMAIN entry : a = entry[k].at
      <3>1. PICK k \in DOMAIN entry : a = entry[k].at
        BY <2>2
      <3>2. k \in DOMAIN entry' /\ entry'[k].at = entry[k].at
        <4>1. CASE tx.splits = {}
          BY <1>1, <4>1 DEF ChainEntries
        <4>2. CASE tx.splits # {}
          <5>1. PICK j \in Instances : \E c \in Covering(directory, PolicyOf[j]) :
                   /\ tx.splits = {c} /\ tx.policy = PolicyOf[j]
                   /\ entry[c.key].at \in tx.spends
            BY <4>2 DEF Placed
          <5>2. PICK c \in Covering(directory, PolicyOf[j]) :
                   /\ tx.splits = {c} /\ tx.policy = PolicyOf[j]
                   /\ entry[c.key].at \in tx.spends
            BY <5>1
          <5>3. c.key # k
            BY <3>1, <5>2
          <5>4. k # tx.policy
            BY <5>2, CoveredIsAbsent, PoliciesAreKeys DEF LedgerInv
          <5> QED
            BY <1>1, <5>2, <5>3, <5>4 DEF ChainEntries
        <4> QED
          BY <4>1, <4>2
      <3> QED
        BY <3>1, <3>2 DEF Live
    <2>3. CASE a \in {LogicRef, ThirdPartyRef}
      BY <2>3 DEF Live
    <2> QED
      BY <2>1, <2>2, <2>3 DEF Spends, Live
  <1> QED
    BY <1>4, <1>5 DEF Spends

\* Building a transaction and submitting it, now or later.
LEMMA BuildKeepsSpends ==
    ASSUME IInv, SpendsInv, NEW tx, Placed(tx) /\ Written(tx) /\ Spends(tx), Build(tx)
    PROVE  SpendsInv'
  <1>1. CASE ChainLands(tx)
    <2>1. \A t \in pool' : t \in pool /\ t.spends \cap tx.spends = {}
      BY <1>1 DEF ChainLands
    <2> QED
      BY <1>1, <2>1, LandingKeepsSpends DEF IInv, SpendsInv
  <1>2. CASE pool' = pool \cup {tx} /\ UNCHANGED ledger
    BY <1>2 DEF SpendsInv, Spends, Live, TokensIn, ledger
  <1> QED
    BY <1>1, <1>2 DEF Build

LEMMA NextSpends == IInv /\ SpendsInv /\ [Next]_vars => SpendsInv'
  <1> SUFFICES ASSUME IInv, SpendsInv, [Next]_vars PROVE SpendsInv'
    OBVIOUS
  <1>1. \A i \in Named \cup Fallback : i \in Instances
    BY WalletsAssumption DEF IInv, PluginsInv, Named, Fallback, requireSubstandard,
                             tryAllSubstandards
  <1>2. \A qty \in 1..MaxSupply : qty \in Nat \ {0}
    BY BoundsAssumption
  <1>3. TokensInv /\ LedgerInv
    BY DEF IInv, LedgerInv
  <1>4. CASE Issues
    <2>1. PICK to \in Holders, qty \in 1..MaxSupply :
             \/ \E i \in Named : \E tx \in register(i, to, qty) : Build(tx)
             \/ \E i \in Fallback, p \in Policies : \E tx \in mint(i, p, to, qty) : Build(tx)
      BY <1>4 DEF Issues
    <2>2. qty \in Nat
      BY <1>2
    <2>3. PICK tx : Build(tx) /\ Placed(tx) /\ Written(tx) /\ Spends(tx)
      BY <1>1, <1>3, <2>1, <2>2, RegistrationsBuilt, MintsBuilt, RegistersSpend, MintsSpend
    <2> QED
      BY <2>3, BuildKeepsSpends
  <1>5. CASE Redeems
    <2>1. PICK tx : Build(tx) /\ Placed(tx) /\ Written(tx) /\ Spends(tx)
      BY <1>3, <1>5, BurnsBuilt, BurnsSpend DEF Redeems
    <2> QED
      BY <2>1, BuildKeepsSpends
  <1>6. CASE Transfers
    <2>1. PICK tx : Build(tx) /\ Placed(tx) /\ Written(tx) /\ Spends(tx)
      BY <1>2, <1>3, <1>6, TransfersBuilt, TransfersSpend DEF Transfers
    <2> QED
      BY <2>1, BuildKeepsSpends
  <1>7. CASE Administers
    <2>1. PICK tx : Build(tx) /\ Placed(tx) /\ Written(tx) /\ Spends(tx)
      BY <1>2, <1>3, <1>7, AdministersBuilt, AdministersSpend DEF Administers
    <2> QED
      BY <2>1, BuildKeepsSpends
  <1>8. CASE Complies
    <2>1. PICK i \in Named, p \in Policies, target \in Suspects :
             \E tx \in comply(i, p, target) : Build(tx)
      BY <1>8 DEF Complies
    <2>2. i \in FreezeAndSeizes
      BY <1>1, <2>1 DEF comply, Instances
    <2>3. PICK tx : Build(tx) /\ Placed(tx) /\ Written(tx) /\ Spends(tx)
      BY <1>3, <2>1, <2>2, CompliesBuilt, CompliesSpend
    <2> QED
      BY <2>3, BuildKeepsSpends
  <1>9. CASE \E i \in Instances : registerSubstandard(i)
    BY <1>9 DEF registerSubstandard, ledger, SpendsInv, Spends, Live, TokensIn
  <1>10. CASE \E tx \in pool : (ChainLands(tx) \/ ChainForgets(tx)) /\ UNCHANGED plugins
    <2>1. PICK tx \in pool : (ChainLands(tx) \/ ChainForgets(tx)) /\ UNCHANGED plugins
      BY <1>10
    <2>2. CASE ChainLands(tx)
      <3>1. \A t \in pool' : t \in pool /\ t.spends \cap tx.spends = {}
        BY <2>2 DEF ChainLands
      <3>2. Placed(tx) /\ Written(tx)
        BY DEF IInv, PoolInv
      <3> QED
        BY <1>3, <2>2, <3>1, <3>2, LandingKeepsSpends DEF SpendsInv
    <2>3. CASE ChainForgets(tx)
      BY <2>3 DEF ChainForgets, ledger, SpendsInv, Spends, Live, TokensIn
    <2> QED
      BY <2>1, <2>2, <2>3
  <1>11. CASE UNCHANGED vars
    BY <1>11 DEF vars, SpendsInv, Spends, Live, TokensIn
  <1> QED
    BY <1>4, <1>5, <1>6, <1>7, <1>8, <1>9, <1>10, <1>11 DEF Next

LEMMA SpendsInvariance == Spec => []SpendsInv
  <1>1. Init => SpendsInv
    BY DEF Init, ChainInit, SpendsInv
  <1> QED
    BY <1>1, NextSpends, Invariance, PTL DEF Spec

\* The node of a policy names the logic that looks at the list and the logic
\* that asks for the admin's signature, so one of the two agrees to whatever
\* spends a token of it.
LEMMA ListedIsKept ==
    ASSUME NodesInv, NEW i \in FreezeAndSeizes, NEW tx, Spends(tx), ChainAccepts(tx),
           NEW t \in TokensIn(tx), t.policy = PolicyOf[i],
           i \in DOMAIN frozen => t.owner \in frozen[i]
    PROVE  tx.act = "THIRD_PARTY" /\ Admin \in tx.signers
  <1>1. tx.policy = PolicyOf[i] /\ tx.act \in {"none", "TRANSFER", "THIRD_PARTY"}
    BY DEF Spends
  <1>2. ChainSpends(tx) /\ ChainLogicAgrees(tx)
    BY DEF ChainAccepts
  <1>3. OwnNode(i) = fesNode(i) /\ i \in Instances
    BY InstancesAssumption DEF OwnNode, Instances
  <1>4. CASE tx.act = "TRANSFER"
    <2>1. tx.policy \in DOMAIN entry /\ entry[tx.policy].transfer \in tx.withdraws
      BY <1>2, <1>4 DEF ChainSpends, ChainTransfers
    <2>2. TransferLogic[i] \in tx.withdraws
      BY <1>1, <1>3, <2>1 DEF NodesInv, fesNode, registryNode
    <2> QED
      BY <1>2, <2>2 DEF ChainLogicAgrees
  <1>5. CASE tx.act = "THIRD_PARTY"
    <2>1. tx.policy \in DOMAIN entry /\ entry[tx.policy].thirdParty \in tx.withdraws
      BY <1>2, <1>5 DEF ChainSpends, ChainSeizes
    <2>2. MintingLogic[i] \in tx.withdraws
      BY <1>1, <1>3, <2>1 DEF NodesInv, fesNode, registryNode
    <2> QED
      BY <1>2, <1>5, <2>2 DEF ChainLogicAgrees
  <1>6. CASE tx.act = "none"
    BY <1>2, <1>6 DEF ChainSpends, ChainDispatches
  <1> QED
    BY <1>1, <1>4, <1>5, <1>6

\* For any number of plugins and of transactions under way: whatever one builds
\* (freeze-and-seize/index.ts:1097, dummy/index.ts:838) or the fall-back of
\* index.ts:248 comes to, a listed holder keeps its tokens until the admin
\* seizes or burns them.
THEOREM FrozenTokensAreKept == Spec => []FrozenTokensStay
  <1>1. IInv /\ SpendsInv => FrozenTokensStay
    <2> SUFFICES ASSUME IInv, SpendsInv, NEW i \in DOMAIN frozen, NEW t \in tokens,
                        t.policy = PolicyOf[i], t.owner \in frozen[i],
                        NEW tx \in pool \cup UNION {Offers(j, PolicyOf[i]) :
                                                       j \in tryAllSubstandards},
                        t \in TokensIn(tx), ChainAccepts(tx)
                 PROVE  tx.act = "THIRD_PARTY" /\ Admin \in tx.signers
      BY DEF FrozenTokensStay
    <2>1. Spends(tx)
      <3>1. CASE tx \in pool
        BY <3>1 DEF SpendsInv
      <3>2. CASE \E j \in tryAllSubstandards : tx \in Offers(j, PolicyOf[i])
        <4>1. PICK j \in tryAllSubstandards : tx \in Offers(j, PolicyOf[i])
          BY <3>2
        <4>2. PICK p : p = PolicyOf[i]
          OBVIOUS
        <4>3. PICK from \in Holders, to \in Holders, qty \in 1..MaxSupply :
                 \/ tx \in mint(j, p, to, qty) \cup burn(j, p)
                 \/ tx \in transfer(j, p, from, to, qty) \cup administer(j, p, from, to, qty)
          BY <4>1, <4>2 DEF Offers
        <4>4. qty \in Nat \ {0} /\ LedgerInv
          BY BoundsAssumption DEF IInv
        <4> QED
          BY <4>3, <4>4, MintsSpend, BurnsSpend, TransfersSpend, AdministersSpend
      <3> QED
        BY <3>1, <3>2
    <2>2. i \in FreezeAndSeizes /\ NodesInv
      BY DEF IInv, LedgerInv, ListsInv
    <2> QED
      BY <2>1, <2>2, ListedIsKept
  <1> QED
    BY <1>1, Invariance, SpendsInvariance, PTL
=============================================================================
