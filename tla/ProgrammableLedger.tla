------------------------- MODULE ProgrammableLedger -------------------------
(***************************************************************************)
(* The chain of one CIP-113 deployment as its substandards share it: the   *)
(* directory of registered policies, the programmable outputs, the         *)
(* blacklists, and the on-chain validators as the comments in src/ and the *)
(* redeemers the builders write describe them.  A redeemer holds only      *)
(* positions, and the validators resolve them in the ledger's order.       *)
(***************************************************************************)
EXTENDS LedgerOrder, SortedList, Quantities, Functions

CONSTANTS
    Dummies,           \* instances of the dummy substandard
    FreezeAndSeizes,   \* instances of freeze-and-seize
    PolicyOf,          \* the policy each instance issues
    MintingLogic,      \* hash of its issue or issuer_admin script
    TransferLogic,     \* hash of its transfer logic
    Holders,           \* staking credentials; each has a wallet
    Admin,             \* the holder the issuer_admin scripts are bound to
    Plg, CoreTransfer, ThirdParty, IssuanceLogic,     \* hashes
    Params, IssuanceCbor, LogicRef, ThirdPartyRef,    \* outputs of the
    OriginRef, BlacklistRef,                          \*   deployment
    TxIds,             \* bound: transaction ids of live outputs
    MaxTokens,         \* bound: programmable outputs alive at a time
    MaxSupply,         \* bound: tokens of a policy alive at a time
    MaxPool            \* bound: transactions built and not yet landed

Instances == Dummies \cup FreezeAndSeizes
Policies == {PolicyOf[i] : i \in Instances}

ASSUME InstancesAssumption ==
    /\ Dummies \cap FreezeAndSeizes = {}
    /\ PolicyOf \in Injection(Instances, Keys)
    /\ MintingLogic \in Injection(Instances, Nat)
    /\ TransferLogic \in Injection(Instances, Nat)
    /\ \A i, j \in Instances : MintingLogic[i] # TransferLogic[j]
    /\ \A i \in Instances :
          {MintingLogic[i], TransferLogic[i]} \cap {Plg, CoreTransfer, ThirdParty, IssuanceLogic} = {}
    /\ {Plg, CoreTransfer, ThirdParty, IssuanceLogic} \subseteq Nat

Deployed == {Params, IssuanceCbor, LogicRef, ThirdPartyRef, OriginRef}
                \cup {BlacklistRef[i] : i \in FreezeAndSeizes}

\* Outputs are told apart, and an id is spelled in one way: every id comes out
\* of one decoder.
ASSUME OutputsAssumption ==
    /\ Deployed \subseteq Nat \X Nat
    /\ Distinct(<<Params, IssuanceCbor, LogicRef, ThirdPartyRef, OriginRef>>)
    /\ \A i \in FreezeAndSeizes :
          BlacklistRef[i] \notin {Params, IssuanceCbor, LogicRef, ThirdPartyRef, OriginRef}
    /\ \A p, q \in Deployed : InputRank(p) = InputRank(q) => p = q
    /\ TxIds \subseteq Nat
    /\ \A x, y \in TxIds : Bytes(x) = Bytes(y) => x = y
    /\ \A x \in TxIds, p \in Deployed : Bytes(x) # Bytes(p[1])

ASSUME BoundsAssumption == {MaxTokens, MaxSupply, MaxPool} \subseteq Nat

VARIABLES
    directory,  \* the registry nodes, as [key, next]
    entry,      \* of each registered key: the UTxO and the logic it names
    tokens,     \* programmable outputs: [at, policy, owner, qty]
    frozen,     \* who is on the blacklist of each instance that has one
    published,  \* reference scripts still unspent
    pool        \* transactions built and not yet landed

ledger == <<directory, entry, tokens, frozen, published>>

registryNode(transfer, thirdParty) == [transfer |-> transfer, thirdParty |-> thirdParty]

Blank(op, by, policy) ==
    [op |-> op, by |-> by, policy |-> policy, signers |-> {}, reads |-> {},
     spends |-> {}, withdraws |-> {}, outputs |-> << >>, minted |-> 0,
     base |-> [paramsIdx |-> -1, wdrlIdx |-> -1], act |-> "none",
     delegate |-> [nodeIdx |-> -1, start |-> -1], proofIdx |-> -1,
     issuance |-> [paramsIdx |-> -1, proof |-> <<"none", -1>>],
     splits |-> {}, logic |-> registryNode(0, 0), target |-> 0]

\* keeps: the UTxO whose address, datum and lovelace the output carries on.
Output(tag, owner, qty, keeps) ==
    [tag |-> tag, owner |-> owner, qty |-> qty, keeps |-> keeps]
Pays(tag, owner, qty) == Output(tag, owner, qty, << >>)

TokensIn(tx) == {t \in tokens : t.at \in tx.spends}

\* Where a programmable token may be: the registry nodes and the CIP-68
\* reference token of a registration are not outputs of its supply.
Positions(tx) ==
    {n \in DOMAIN tx.outputs :
        /\ tx.outputs[n].tag \notin {"new-node", "covering-node", "cip68-reference"}
        /\ tx.outputs[n].qty > 0}

\* The programmable outputs of transaction id.
ChainTokens(tx, id) ==
    {[at |-> <<id, n - 1>>, policy |-> tx.policy, owner |-> tx.outputs[n].owner,
      qty |-> tx.outputs[n].qty] : n \in Positions(tx)}

QuantityOut(tx) == Quantity(ChainTokens(tx, 0))

-----------------------------------------------------------------------------
(* The validators.                                                         *)

ChainReads(tx, n, input) ==
    ChainFinds({InputRank(r) : r \in tx.reads}, n, InputRank(input))

ChainWithdraws(tx, n, hash) ==
    ChainFinds({KeyRank(ScriptKey(h)) : h \in tx.withdraws}, n, KeyRank(ScriptKey(hash)))

\* programmable_logic_base finds the dispatcher, which demands a delegate.
ChainDispatches(tx) ==
    /\ ChainReads(tx, tx.base.paramsIdx, Params)
    /\ ChainWithdraws(tx, tx.base.wdrlIdx, Plg)
    /\ tx.act = "TRANSFER" => CoreTransfer \in tx.withdraws
    /\ tx.act = "THIRD_PARTY" => ThirdParty \in tx.withdraws
    /\ tx.act # "none"

\* transfer: the logic the node names agrees, and so does every owner.
ChainTransfers(tx) ==
    /\ tx.policy \in DOMAIN entry
    /\ ChainReads(tx, tx.delegate.nodeIdx, entry[tx.policy].at)
    /\ entry[tx.policy].transfer \in tx.withdraws
    /\ \A t \in TokensIn(tx) : t.owner \in tx.signers

\* third_party: the authority the node names agrees, and the inputs, in the
\* ledger's order, are carried on by the outputs from start onwards.
ChainSeizes(tx) ==
    LET inputs == {InputRank(t.at) : t \in TokensIn(tx)}
    IN  /\ tx.policy \in DOMAIN entry
        /\ ChainReads(tx, tx.delegate.nodeIdx, entry[tx.policy].at)
        /\ entry[tx.policy].thirdParty \in tx.withdraws
        /\ tx.minted # 0 => tx.issuance.proof = <<"reference-input", tx.delegate.nodeIdx>>
        /\ \A n \in 1..Cardinality(inputs) :
              LET k == tx.delegate.start + n
              IN  /\ k \in DOMAIN tx.outputs
                  /\ tx.outputs[k].keeps # << >>
                  /\ ChainFinds(inputs, n - 1, InputRank(tx.outputs[k].keeps))

ChainSpends(tx) ==
    /\ ChainDispatches(tx)
    /\ tx.act = "TRANSFER" => ChainTransfers(tx)
    /\ tx.act = "THIRD_PARTY" => ChainSeizes(tx)

\* issuance_mint and issuance_logic: the policy is bound to its minting logic
\* and its registry node is where the proof says.
ChainIssues(tx) ==
    LET n == tx.issuance.proof[2]
    IN  /\ ChainReads(tx, tx.issuance.paramsIdx, Params)
        /\ IssuanceLogic \in tx.withdraws
        /\ \E i \in Instances : PolicyOf[i] = tx.policy /\ MintingLogic[i] \in tx.withdraws
        /\ CASE tx.issuance.proof[1] = "output" ->
                  n + 1 \in DOMAIN tx.outputs /\ tx.outputs[n + 1].tag = "new-node"
             [] tx.issuance.proof[1] = "reference-input" ->
                  tx.policy \in DOMAIN entry /\ ChainReads(tx, n, entry[tx.policy].at)
             [] OTHER -> FALSE

\* The substandards' own logic.  The dummy's accepts anything.
ChainLogicAgrees(tx) ==
    \A i \in FreezeAndSeizes :
        /\ MintingLogic[i] \in tx.withdraws => Admin \in tx.signers
        /\ TransferLogic[i] \in tx.withdraws =>
              /\ i \in DOMAIN frozen
              /\ ChainReads(tx, tx.proofIdx, BlacklistRef[i])
              /\ \A t \in TokensIn(tx) : t.owner \notin frozen[i]

\* A blacklist node is where the transaction found it.
ChainListed(tx) ==
    /\ tx.op = "init" => tx.by \notin DOMAIN frozen
    /\ tx.op \in {"freeze", "unfreeze"} => tx.by \in DOMAIN frozen
    /\ tx.op = "freeze" => tx.target \notin frozen[tx.by]
    /\ tx.op = "unfreeze" => tx.target \in frozen[tx.by]

\* That an insertion splits the node that covers it is left to the builders
\* and to the rule that an output is spent once.
ChainAccepts(tx) ==
    /\ tx.reads \cap tx.spends = {}
    /\ QuantityOut(tx) = Quantity(TokensIn(tx)) + tx.minted
    /\ TokensIn(tx) # {} => ChainSpends(tx)
    /\ tx.minted # 0 => ChainIssues(tx)
    /\ ChainLogicAgrees(tx)
    /\ ChainListed(tx)

-----------------------------------------------------------------------------
(* Landing.                                                                *)

\* Output n of transaction id is the registry node of tag.
ChainNodeAt(tx, id, tag) ==
    <<id, CHOOSE n \in {j - 1 : j \in {j \in DOMAIN tx.outputs : tx.outputs[j].tag = tag}} : TRUE>>

ChainEntries(tx, id) ==
    [k \in DOMAIN entry \cup (IF tx.splits = {} THEN {} ELSE {tx.policy}) |->
        IF tx.splits # {} /\ k = tx.policy
        THEN [at |-> ChainNodeAt(tx, id, "new-node"), transfer |-> tx.logic.transfer,
              thirdParty |-> tx.logic.thirdParty]
        ELSE [at |-> IF k \in {c.key : c \in tx.splits}
                     THEN ChainNodeAt(tx, id, "covering-node") ELSE entry[k].at,
              transfer |-> entry[k].transfer, thirdParty |-> entry[k].thirdParty]]

ChainDirectory(tx) ==
    (directory \ tx.splits) \cup UNION {Split(c, tx.policy) : c \in tx.splits}

ChainFrozen(tx) ==
    CASE tx.op = "init" -> [i \in DOMAIN frozen \cup {tx.by} |->
                               IF i = tx.by THEN {} ELSE frozen[i]]
      [] tx.op = "freeze" -> [frozen EXCEPT ![tx.by] = @ \cup {tx.target}]
      [] tx.op = "unfreeze" -> [frozen EXCEPT ![tx.by] = @ \ {tx.target}]
      [] OTHER -> frozen

\* Ids of transactions with a live output.
ChainIdsInUse ==
    {t.at[1] : t \in tokens} \cup {entry[k].at[1] : k \in DOMAIN entry}

\* The bounds on what is alive after tx.
ChainHasRoom(tx) ==
    LET after == (tokens \ TokensIn(tx)) \cup ChainTokens(tx, 0)
    IN  /\ Cardinality(after) <= MaxTokens
        /\ \A p \in Policies : Quantity({t \in after : t.policy = p}) <= MaxSupply

ChainLands(tx) ==
    /\ ChainAccepts(tx)
    /\ ChainHasRoom(tx)
    /\ \E id \in TxIds \ ChainIdsInUse :
         /\ tokens' = (tokens \ TokensIn(tx)) \cup ChainTokens(tx, id)
         /\ entry' = ChainEntries(tx, id)
    /\ directory' = ChainDirectory(tx)
    /\ frozen' = ChainFrozen(tx)
    /\ published' = published \ tx.spends
    /\ pool' = {t \in pool \ {tx} : (t.reads \cup t.spends) \cap tx.spends = {}}

ChainForgets(tx) ==
    /\ pool' = pool \ {tx}
    /\ UNCHANGED ledger

ChainInit ==
    /\ directory = {Origin}
    /\ entry = [k \in {0} |-> [at |-> OriginRef, transfer |-> 0, thirdParty |-> 0]]
    /\ tokens = {}
    /\ frozen = << >>
    /\ published = {LogicRef, ThirdPartyRef}
    /\ pool = {}
=============================================================================
