--------------------------- MODULE FreezeAndSeize ---------------------------
(***************************************************************************)
(* The freeze-and-seize substandard: one token policy, the programmable    *)
(* outputs that hold it, and the blacklist its transfers must be proved    *)
(* against, with the transactions of                                       *)
(* src/substandards/freeze-and-seize/index.ts.                             *)
(*                                                                         *)
(* A builder reads UTxOs, returns a transaction and forgets it; the        *)
(* transaction lands later or never, after any others.  A builder awaits   *)
(* several reads, and is one step here: whatever it read must still be     *)
(* unspent when the transaction lands, so a build spread over a change of  *)
(* the chain yields a transaction that one step yields too, or one that    *)
(* can never land.  For the same reason a transaction leaves the pool as   *)
(* soon as a UTxO it spends or references is spent.                        *)
(*                                                                         *)
(* Names beginning with Chain are the ledger.  It is assumed to enforce    *)
(* only the UTxO rules, stake registration and the admin's signature: the  *)
(* validators would refuse more, but what is shown of the blacklist and of *)
(* the tokens rests on what the builders write.                            *)
(***************************************************************************)
EXTENDS SortedList, Quantities, Sequences, FiniteSets, Functions

CONSTANTS
    Holders,      \* staking credential hashes; each has a wallet
    Admin,        \* the holder whose key the scripts are parameterised by
    ScriptWallet, \* whose wallet holds the deployment's reference scripts
    Nobody,       \* reference scripts at an address no builder draws from
    TokenIds,     \* bound: outputs of the token alive at a time
    MaxSupply,    \* bound: tokens alive at a time
    MaxPool       \* bound: transactions built and not yet landed

ASSUME HoldersAssumption ==
    /\ Holders \subseteq Keys /\ Admin \in Holders
    /\ Nobody \notin Holders /\ ScriptWallet \in Holders \cup {Nobody}
    /\ IsFiniteSet(TokenIds) /\ MaxSupply \in Nat /\ MaxPool \in Nat

Units == {"user", "reference"}       \* (333) and (100) under CIP-68
Scripts == {"issuanceLogic", "thirdParty"}
Credentials == {"issuerAdmin", "transfer"}
Unique == Scripts \cup {"seed", "directory", "registryNode"}

VARIABLES
    nodes,      \* the blacklist
    tokens,     \* programmable outputs: [id, owner, unit, qty, datum]
    live,       \* which of the Unique outputs are unspent
    registered, \* stake credentials with a reward account
    pool        \* transactions built and not yet landed

vars == <<nodes, tokens, live, registered, pool>>

Output == [owner : Holders, unit : Units, qty : Nat \ {0},
           datum : {"void", "metadata"}]
Token == [id : TokenIds, owner : Holders, unit : Units, qty : Nat \ {0},
          datum : {"void", "metadata"}]
Operations == {"init", "register", "mint", "burn", "transfer", "freeze",
               "unfreeze", "seize"}
Tx == [op : Operations, payer : Holders, signers : SUBSET Holders,
       nodesIn : SUBSET Node, nodesRead : SUBSET Node, nodesOut : SUBSET Node,
       tokensIn : SUBSET Token, tokensOut : Seq(Output),
       uniqueIn : SUBSET Unique, uniqueRead : SUBSET Unique,
       uniqueOut : SUBSET Unique,
       withdraws : SUBSET Credentials, registers : SUBSET Credentials]

-----------------------------------------------------------------------------
(* What the builders share.                                                *)

Blank(op, payer) ==
    [op |-> op, payer |-> payer, signers |-> {payer},
     nodesIn |-> {}, nodesRead |-> {}, nodesOut |-> {},
     tokensIn |-> {}, tokensOut |-> << >>,
     uniqueIn |-> {}, uniqueRead |-> {}, uniqueOut |-> {},
     withdraws |-> {}, registers |-> {}]

buildAndSerialize(tx) ==
    /\ Cardinality(pool) < MaxPool
    /\ pool' = pool \cup {tx}
    /\ UNCHANGED <<nodes, tokens, live, registered>>

\* Without spendableWalletUtxos, coin selection may spend any reference
\* script that sits in the payer's wallet.
UnfilteredFunds(payer) ==
    IF payer = ScriptWallet THEN SUBSET (live \cap Scripts) ELSE {{}}

findRegistryNode == "registryNode" \in live

\* selectUtxosForAmount: a prefix, in the order the provider returned, that
\* first reaches the amount.
selectUtxosForAmount(utxos, qty) ==
    {s \in SUBSET utxos : /\ Quantity(s) >= qty
                          /\ \E last \in s : Quantity(s \ {last}) < qty}

\* Variant: the (100) label is not refused.
AnyToken(unit) == TRUE

assertNotReferenceToken(unit) == unit # "reference"

assertNoDatumLoss(utxos) == \A u \in utxos : u.datum = "void"

voidOutput(owner, unit, qty) ==
    [owner |-> owner, unit |-> unit, qty |-> qty, datum |-> "void"]

-----------------------------------------------------------------------------
(* The blacklist.                                                          *)

\* knowsRegistered: the caller supplied the checkStakeRegistration callback.
initCompliance(payer, knowsRegistered) ==
    /\ "seed" \in live
    /\ \E spent \in UnfilteredFunds(payer) :
         buildAndSerialize([Blank("init", payer) EXCEPT
             !.uniqueIn = {"seed"} \cup spent,
             !.nodesOut = {Origin},
             !.registers = IF knowsRegistered THEN Credentials \ registered
                                              ELSE Credentials])

freeze(payer, target) ==
    \E covering \in Covering(nodes, target) :
        buildAndSerialize([Blank("freeze", payer) EXCEPT
            !.nodesIn = {covering},
            !.nodesOut = Split(covering, target)])

unfreeze(payer, target) ==
    \E removed, preceding \in nodes :
        /\ removed.key = target
        /\ preceding.next = target
        /\ buildAndSerialize([Blank("unfreeze", payer) EXCEPT
               !.nodesIn = {removed, preceding},
               !.nodesOut = Merge(preceding, removed)])

-----------------------------------------------------------------------------
(* The token.  Mint, burn, seize and the blacklist spend only wallet UTxOs *)
(* that pass spendableWalletUtxos; register and transfer do not filter.    *)

\* Under CIP-68 the names are labelled here, and the (100) token goes to the
\* payer's own programmable output; without it the caller's name is used raw.
RegisterOutputs(payer, recipient, unit, qty, hasCIP68) ==
    LET user == voidOutput(recipient, IF hasCIP68 THEN "user" ELSE unit, qty)
        ref  == [owner |-> payer, unit |-> "reference", qty |-> 1,
                 datum |-> "metadata"]
    IN  IF hasCIP68 THEN <<user, ref>> ELSE <<user>>

\* The registry node covering the policy is split; it covers the policy
\* exactly until the policy has a node of its own.
register(payer, recipient, unit, qty, hasCIP68) ==
    /\ ~findRegistryNode
    /\ "issuanceLogic" \in live
    /\ \E spent \in UnfilteredFunds(payer) :
         buildAndSerialize([Blank("register", payer) EXCEPT
             !.signers = {payer, Admin},
             !.uniqueIn = {"directory"} \cup spent,
             !.uniqueOut = {"directory", "registryNode"},
             !.uniqueRead = {"issuanceLogic"},
             !.withdraws = {"issuerAdmin"},
             !.tokensOut = RegisterOutputs(payer, recipient, unit, qty, hasCIP68)])

\* The label of the asset name is not looked at: a second (100) token can be
\* minted, without metadata and to anyone.
mint(payer, recipient, unit, qty) ==
    /\ findRegistryNode
    /\ "issuanceLogic" \in live
    /\ buildAndSerialize([Blank("mint", payer) EXCEPT
           !.signers = {payer, Admin},
           !.uniqueRead = {"registryNode", "issuanceLogic"},
           !.withdraws = {"issuerAdmin"},
           !.tokensOut = <<voidOutput(recipient, unit, qty)>>])

\* The continuing output keeps address, datum and lovelace, and no token of
\* the policy: it no longer is a Token.
burn(payer, utxo) ==
    /\ findRegistryNode
    /\ "issuanceLogic" \in live
    /\ buildAndSerialize([Blank("burn", payer) EXCEPT
           !.signers = {payer, Admin},
           !.uniqueRead = {"registryNode", "issuanceLogic"},
           !.withdraws = {"issuerAdmin"},
           !.tokensIn = {utxo}])

\* Variant: nothing returns to the sender.
TransferKeepingChange(sender, recipient, unit, qty, total) ==
    <<voidOutput(recipient, unit, qty)>>

\* The sender's change first, then the recipient's output.
TransferOutputs(sender, recipient, unit, qty, total) ==
    LET paid   == voidOutput(recipient, unit, qty)
        change == voidOutput(sender, unit, total - qty)
    IN  IF total > qty THEN <<change, paid>> ELSE <<paid>>

\* One proof serves all inputs: they have one owner.
transfer(sender, recipient, unit, qty) ==
    /\ assertNotReferenceToken(unit)
    /\ findRegistryNode
    /\ \E selected \in selectUtxosForAmount(
                {t \in tokens : t.owner = sender /\ t.unit = unit}, qty) :
       \E proof \in Covering(nodes, sender) :
       \E spent \in UnfilteredFunds(sender) :
         /\ assertNoDatumLoss(selected)
         /\ buildAndSerialize([Blank("transfer", sender) EXCEPT
                !.nodesRead = {proof},
                !.uniqueRead = {"registryNode"},
                !.uniqueIn = spent,
                !.withdraws = {"transfer"},
                !.tokensIn = selected,
                !.tokensOut = TransferOutputs(sender, recipient, unit, qty,
                                              Quantity(selected))])

\* Output 0 takes the seized tokens; output 1 continues the input without.
seize(payer, utxo, destination) ==
    /\ assertNotReferenceToken(utxo.unit)
    /\ findRegistryNode
    /\ "thirdParty" \in live
    /\ buildAndSerialize([Blank("seize", payer) EXCEPT
           !.signers = {payer, Admin},
           !.uniqueRead = {"registryNode", "thirdParty"},
           !.withdraws = {"issuerAdmin"},
           !.tokensIn = {utxo},
           !.tokensOut = <<voidOutput(destination, utxo.unit, utxo.qty)>>])

-----------------------------------------------------------------------------
(* The ledger.                                                             *)

\* tx spends or references what landed has spent.
ChainConflicts(tx, landed) ==
    \/ (tx.nodesIn \cup tx.nodesRead) \cap landed.nodesIn # {}
    \/ tx.tokensIn \cap landed.tokensIn # {}
    \/ (tx.uniqueIn \cup tx.uniqueRead) \cap landed.uniqueIn # {}

ChainAccepts(tx) ==
    /\ tx.uniqueIn \cap tx.uniqueRead = {}
    /\ tx.withdraws \subseteq registered
    /\ tx.registers \cap registered = {}
    /\ tx.op \in {"freeze", "unfreeze"} \/ "issuerAdmin" \in tx.withdraws
           => Admin \in tx.signers

\* Output references are fresh; which they are is of no consequence.
ChainReferences(tx) ==
    CHOOSE f \in Injection(DOMAIN tx.tokensOut, TokenIds \ {t.id : t \in tokens}) : TRUE

ChainOutputs(tx) ==
    {[id |-> ChainReferences(tx)[i], owner |-> tx.tokensOut[i].owner,
      unit |-> tx.tokensOut[i].unit, qty |-> tx.tokensOut[i].qty,
      datum |-> tx.tokensOut[i].datum] : i \in DOMAIN tx.tokensOut}

\* The bounds on what is alive after tx.
ChainHasRoom(tx) ==
    /\ Cardinality(tokens) + Len(tx.tokensOut) <= Cardinality(TokenIds)
    /\ Quantity((tokens \ tx.tokensIn) \cup ChainOutputs(tx)) <= MaxSupply

ChainLands(tx) ==
    /\ ChainAccepts(tx)
    /\ ChainHasRoom(tx)
    /\ nodes' = (nodes \ tx.nodesIn) \cup tx.nodesOut
    /\ tokens' = (tokens \ tx.tokensIn) \cup ChainOutputs(tx)
    /\ live' = (live \ tx.uniqueIn) \cup tx.uniqueOut
    /\ registered' = registered \cup tx.registers
    /\ pool' = {t \in pool \ {tx} : ~ChainConflicts(t, tx)}

ChainForgets(tx) ==
    /\ pool' = pool \ {tx}
    /\ UNCHANGED <<nodes, tokens, live, registered>>

\* issuer_admin depends on the admin and the asset name alone, so an earlier
\* deployment may have registered it.
Init ==
    /\ nodes = {}
    /\ tokens = {}
    /\ live = Unique \ {"registryNode"}
    /\ registered \in {{}, {"issuerAdmin"}}
    /\ pool = {}

Administers ==
    \/ \E known \in BOOLEAN : initCompliance(Admin, known)
    \/ \E to \in Holders, unit \in Units, qty \in 1..MaxSupply :
           \/ \E hasCIP68 \in BOOLEAN : register(Admin, to, unit, qty, hasCIP68)
           \/ mint(Admin, to, unit, qty)
    \/ \E t \in tokens : burn(Admin, t) \/ \E to \in Holders : seize(Admin, t, to)
    \/ \E payer, target \in Holders : freeze(payer, target) \/ unfreeze(payer, target)

Transfers ==
    \E from, to \in Holders, unit \in Units, qty \in 1..MaxSupply :
        transfer(from, to, unit, qty)

Next ==
    \/ Administers
    \/ Transfers
    \/ \E tx \in pool : ChainLands(tx) \/ ChainForgets(tx)

Spec == Init /\ [][Next]_vars

-----------------------------------------------------------------------------
(* Properties.                                                             *)

\* Every variable keeps its type.
TypeOK ==
    /\ nodes \subseteq Node
    /\ tokens \subseteq Token
    /\ live \subseteq Unique
    /\ registered \subseteq Credentials
    /\ pool \subseteq Tx

\* Once initialised, and whatever freezes and unfreezes were built on the
\* same reads, the blacklist gives each holder exactly one verdict: a
\* covering node for transfer and freeze, or a node and its predecessor for
\* unfreeze.
BlacklistSound == nodes = {} \/ Sound(nodes)

\* A transfer lands only while its sender is not blacklisted, even if it was
\* built before the freeze.
FrozenCannotSend ==
    [][\A tx \in pool : tx.op = "transfer" /\ ChainLands(tx)
                            => tx.payer \notin Members(nodes)]_vars

\* The metadata of a CIP-68 token stays with the issuer that registered it, on
\* an output that holds the (100) token; and no transfer or seizure, of this
\* or of any later read, takes a (100) token from where it is.
MetadataKept ==
    [][/\ \A t \in tokens : t.datum = "metadata"
                                => t.unit = "reference" /\ t.owner = Admin
       /\ \A tx \in pool : ChainLands(tx) /\ tx.op # "burn"
                                => \A t \in tx.tokensIn : t.unit # "reference"]_vars

\* Transactions that race over UTxOs only ever freeze or unfreeze one holder,
\* or move, issue or redeem tokens as Compliance allows.
Promise == INSTANCE Compliance WITH
    frozen <- Members(nodes),
    balance <- [h \in Holders |->
                  Quantity({t \in tokens : t.owner = h /\ t.unit = "user"})]
KeepsPromise == Promise!Spec

\* README.md:196: a deployment that skipped compliance.init() "looks healthy
\* through bootstrap, register, mint and seize".
HealthyWithoutInit ==
    \A tx \in pool : nodes = {} /\ tx.op \in {"register", "mint", "seize"}
                        => ChainAccepts(tx)

\* evo-utils.ts:1384 of the funds of a builder: "ANY UTxO CARRYING A REFERENCE
\* SCRIPT IS OFF LIMITS", so no operation spends a live reference script.
ScriptsKept == Scripts \subseteq live
=============================================================================
