------------------------ MODULE FreezeAndSeizeProofs ------------------------
(***************************************************************************)
(* The blacklist stays sound, a frozen holder sends nothing, the (100)     *)
(* token keeps its metadata, and the transactions that land do what        *)
(* Compliance promises the holders, for any number of holders, of outputs  *)
(* and of transactions in flight.                                          *)
(*                                                                         *)
(* None of it is inductive: a transaction of the pool was built on an      *)
(* earlier list and on earlier tokens.  The strengthening says what every  *)
(* transaction of the pool still relies on: the nodes and the tokens it    *)
(* names are those of now, and what it writes follows from them.           *)
(***************************************************************************)
EXTENDS FreezeAndSeize, SortedListProofs, QuantityProofs

Held(h) == {t \in tokens : t.owner = h /\ t.unit = "user"}

\* What a transaction does to the list.
InitTx(tx) == "seed" \in tx.uniqueIn /\ tx.nodesIn = {} /\ tx.nodesOut = {Origin}

FreezeTx(tx) ==
    \E c \in nodes, k \in Holders : /\ Brackets(c, k)
                                    /\ tx.nodesIn = {c}
                                    /\ tx.nodesOut = Split(c, k)

UnfreezeTx(tx) ==
    \E r, p \in nodes : /\ r.key \in Holders /\ p.next = r.key
                        /\ tx.nodesIn = {r, p}
                        /\ tx.nodesOut = Merge(p, r)

LeavesList(tx) == tx.nodesIn = {} /\ tx.nodesOut = {}

\* What a transaction does to the tokens.
LeavesTokens(tx) == tx.tokensIn = {} /\ tx.tokensOut = << >>

\* A second output is of the (100) token.
IssuesTokens(tx) ==
    /\ tx.tokensIn = {}
    /\ Len(tx.tokensOut) \in 1..2
    /\ Len(tx.tokensOut) = 2 => tx.tokensOut[2].unit = "reference"

RedeemsToken(tx) == tx.tokensOut = << >> /\ \E t \in tokens : tx.tokensIn = {t}

\* What does not go to the recipient comes back.
MovesTokens(tx) ==
    /\ Len(tx.tokensOut) \in 1..2
    /\ \A n \in 1..Len(tx.tokensOut) : tx.tokensOut[n].unit = "user"
    /\ \E from \in Holders : /\ tx.tokensIn \subseteq Held(from)
                             /\ Len(tx.tokensOut) = 2 => tx.tokensOut[1].owner = from
    /\ Quantity(tx.tokensIn) = IF Len(tx.tokensOut) = 1 THEN tx.tokensOut[1].qty
                               ELSE tx.tokensOut[1].qty + tx.tokensOut[2].qty

\* One or the other.
Settles(tx) ==
    \/ (InitTx(tx) \/ FreezeTx(tx) \/ UnfreezeTx(tx)) /\ LeavesTokens(tx)
    \/ LeavesList(tx) /\ (IssuesTokens(tx) \/ RedeemsToken(tx) \/ MovesTokens(tx))

Proved(tx) == \E n \in tx.nodesRead : Brackets(n, tx.payer)

MetadataOut(tx) ==
    \A i \in DOMAIN tx.tokensOut : tx.tokensOut[i].datum = "metadata" =>
        tx.tokensOut[i].unit = "reference" /\ tx.tokensOut[i].owner = Admin

LeavesReference(tx) ==
    tx.op # "burn" => \A t \in tx.tokensIn : t.unit # "reference"

WithIssuer ==
    \A t \in tokens : t.datum = "metadata" => t.unit = "reference" /\ t.owner = Admin

Pending(tx) ==
    /\ tx.nodesRead \subseteq nodes
    /\ "seed" \notin tx.uniqueOut
    /\ "seed" \in tx.uniqueIn => "seed" \in live
    /\ Settles(tx)
    /\ tx.op = "transfer" => LeavesList(tx) /\ Proved(tx)
    /\ MetadataOut(tx) /\ LeavesReference(tx)

IInv ==
    /\ TypeOK
    /\ IsFiniteSet(tokens)
    /\ BlacklistSound
    /\ "seed" \in live => nodes = {}
    /\ WithIssuer
    /\ \A tx \in pool : Pending(tx)

-----------------------------------------------------------------------------
(* Every builder adds a transaction that Pending describes.                *)

\* TypeOK, as the proofs below use it.
LEMMA PoolTyped ==
    ASSUME IInv
    PROVE  /\ nodes \in SUBSET Node /\ tokens \in SUBSET Token /\ IsFiniteSet(tokens)
           /\ live \in SUBSET Unique /\ registered \in SUBSET Credentials
           /\ \A tx \in pool : tx \in Tx
  BY DEF IInv, TypeOK

\* A holder's hash is never the empty key of the origin.
LEMMA HoldersAreKeys == Admin \in Holders /\ \A h \in Holders : h \in Keys /\ h # 0
  BY HoldersAssumption DEF Keys

\* Adding a pending transaction keeps the invariant.
LEMMA AddedToPool ==
    ASSUME IInv, NEW tx \in Tx, Pending(tx), buildAndSerialize(tx)
    PROVE  IInv'
<1>1. UNCHANGED <<nodes, tokens, live, registered>> /\ pool' = pool \cup {tx}
  BY DEF buildAndSerialize
<1>2. \A t \in pool \cup {tx} : Pending(t) /\ t \in Tx
  BY DEF IInv, TypeOK
<1>3. ASSUME NEW t \in pool' PROVE Pending(t)'
  <2>1. Pending(t)
    BY <1>1, <1>2
  <2> QED
    BY <2>1, <1>1 DEF Pending, Settles, InitTx, FreezeTx, UnfreezeTx, LeavesList, LeavesTokens,
                      IssuesTokens, RedeemsToken, MovesTokens, Held, Proved, MetadataOut,
                      LeavesReference
<1>4. (TypeOK /\ IsFiniteSet(tokens) /\ BlacklistSound /\ WithIssuer)'
  BY <1>1, <1>2 DEF IInv, TypeOK, BlacklistSound, WithIssuer
<1> QED
  BY <1>1, <1>3, <1>4 DEF IInv

\* What coin selection adds is a reference script, never the seed.
LEMMA FundsAreScripts ==
    ASSUME NEW payer, NEW spent \in UnfilteredFunds(payer)
    PROVE  "seed" \notin spent /\ spent \in SUBSET Unique
BY DEF UnfilteredFunds, Scripts, Unique

\* initCompliance spends the seed, so it is pending only while there is no list.
LEMMA InitBuilt ==
    ASSUME IInv, NEW known \in BOOLEAN, initCompliance(Admin, known)
    PROVE  IInv'
<1>1. PICK spent \in UnfilteredFunds(Admin) :
         buildAndSerialize([Blank("init", Admin) EXCEPT
             !.uniqueIn = {"seed"} \cup spent,
             !.nodesOut = {Origin},
             !.registers = IF known THEN Credentials \ registered ELSE Credentials])
  BY DEF initCompliance
<1> DEFINE registers == IF known THEN Credentials \ registered ELSE Credentials
           tx == [Blank("init", Admin) EXCEPT
             !.uniqueIn = {"seed"} \cup spent,
             !.nodesOut = {Origin},
             !.registers = registers]
<1>2. /\ tx.nodesRead = {} /\ tx.payer = Admin /\ tx.uniqueOut = {}
      /\ tx.op = "init" /\ tx.tokensIn = {} /\ tx.tokensOut = << >>
      /\ tx.nodesIn = {} /\ tx.nodesOut = {Origin} /\ "seed" \in tx.uniqueIn
  BY DEF Blank
<1>3. "seed" \in live
  BY DEF initCompliance
<1>4. buildAndSerialize(tx)
  BY <1>1
<1>5. tx \in Tx
  <2>1. {Origin} \in SUBSET Node /\ {"seed"} \cup spent \in SUBSET Unique
    BY OriginSound, FundsAreScripts DEF Unique
  <2>2. registers \in SUBSET Credentials /\ "init" \in Operations /\ Admin \in Holders
    BY HoldersAssumption DEF Operations
  <2> HIDE DEF registers
  <2>3. << >> \in Seq(Output)
    OBVIOUS
  <2> QED
    BY <2>1, <2>2, <2>3 DEF Tx, Blank
<1> HIDE DEF tx
<1>6. Pending(tx)
  BY <1>2, <1>3 DEF Pending, Settles, InitTx, LeavesTokens, MetadataOut, LeavesReference
<1> QED
  BY <1>4, <1>5, <1>6, AddedToPool

\* freeze replaces the node that covers its target.
LEMMA FreezeBuilt ==
    ASSUME IInv, NEW payer \in Holders, NEW target \in Holders, freeze(payer, target)
    PROVE  IInv'
<1>1. PICK c \in nodes :
         /\ Brackets(c, target)
         /\ buildAndSerialize([Blank("freeze", payer) EXCEPT
                !.nodesIn = {c}, !.nodesOut = Split(c, target)])
  BY DEF freeze, Covering
<1> DEFINE tx == [Blank("freeze", payer) EXCEPT
                !.nodesIn = {c}, !.nodesOut = Split(c, target)]
<1>2. /\ tx.nodesRead = {} /\ tx.payer = payer /\ tx.uniqueOut = {}
      /\ tx.uniqueIn = {} /\ tx.op = "freeze" /\ tx.tokensIn = {} /\ tx.tokensOut = << >>
      /\ tx.nodesIn = {c} /\ tx.nodesOut = Split(c, target)
  BY DEF Blank
<1>3. buildAndSerialize(tx)
  BY <1>1
<1>4. tx \in Tx
  <2>1. {c} \in SUBSET Node /\ Split(c, target) \in SUBSET Node
    BY PoolTyped, HoldersAreKeys, SplitTyped
  <2>2. "freeze" \in Operations
    BY DEF Operations
  <2>3. << >> \in Seq(Output)
    OBVIOUS
  <2> QED
    BY <2>1, <2>2, <2>3 DEF Tx, Blank
<1> HIDE DEF tx
<1>5. FreezeTx(tx) /\ LeavesTokens(tx)
  BY <1>1, <1>2 DEF FreezeTx, LeavesTokens
<1>6. Pending(tx)
  BY <1>2, <1>5 DEF Pending, Settles, MetadataOut, LeavesReference
<1> QED
  BY <1>3, <1>4, <1>6, AddedToPool

\* unfreeze replaces a node and the one that points to it.
LEMMA UnfreezeBuilt ==
    ASSUME IInv, NEW payer \in Holders, NEW target \in Holders, unfreeze(payer, target)
    PROVE  IInv'
<1>1. PICK r \in nodes, p \in nodes :
         /\ r.key = target /\ p.next = target
         /\ buildAndSerialize([Blank("unfreeze", payer) EXCEPT
                !.nodesIn = {r, p}, !.nodesOut = Merge(p, r)])
  BY DEF unfreeze
<1> DEFINE tx == [Blank("unfreeze", payer) EXCEPT
                !.nodesIn = {r, p}, !.nodesOut = Merge(p, r)]
<1>2. /\ tx.nodesRead = {} /\ tx.payer = payer /\ tx.uniqueOut = {}
      /\ tx.uniqueIn = {} /\ tx.op = "unfreeze" /\ tx.tokensIn = {} /\ tx.tokensOut = << >>
      /\ tx.nodesIn = {r, p} /\ tx.nodesOut = Merge(p, r)
  BY DEF Blank
<1>3. buildAndSerialize(tx)
  BY <1>1
<1>4. tx \in Tx
  <2>1. {r, p} \in SUBSET Node /\ Merge(p, r) \in SUBSET Node
    BY PoolTyped, MergeTyped
  <2>2. "unfreeze" \in Operations
    BY DEF Operations
  <2>3. << >> \in Seq(Output)
    OBVIOUS
  <2> QED
    BY <2>1, <2>2, <2>3 DEF Tx, Blank
<1> HIDE DEF tx
<1>5. UnfreezeTx(tx) /\ LeavesTokens(tx)
  BY <1>1, <1>2 DEF UnfreezeTx, LeavesTokens
<1>6. Pending(tx)
  BY <1>2, <1>5 DEF Pending, Settles, MetadataOut, LeavesReference
<1> QED
  BY <1>3, <1>4, <1>6, AddedToPool

\* An output of a positive quantity is one.
LEMMA VoidOutputTyped ==
    ASSUME NEW owner \in Holders, NEW unit \in Units, NEW qty \in Nat \ {0}
    PROVE  /\ voidOutput(owner, unit, qty) \in Output
           /\ <<voidOutput(owner, unit, qty)>> \in Seq(Output)
  BY DEF voidOutput, Output

\* register writes the (100) token to the issuer's own output.
LEMMA RegisterBuilt ==
    ASSUME IInv, NEW to \in Holders, NEW unit \in Units, NEW qty \in 1..MaxSupply,
           NEW hasCIP68 \in BOOLEAN, register(Admin, to, unit, qty, hasCIP68)
    PROVE  IInv'
<1> DEFINE outs == RegisterOutputs(Admin, to, unit, qty, hasCIP68)
<1>1. PICK spent \in UnfilteredFunds(Admin) :
         buildAndSerialize([Blank("register", Admin) EXCEPT
             !.signers = {Admin, Admin},
             !.uniqueIn = {"directory"} \cup spent,
             !.uniqueOut = {"directory", "registryNode"},
             !.uniqueRead = {"issuanceLogic"},
             !.withdraws = {"issuerAdmin"},
             !.tokensOut = outs])
  BY DEF register
<1> DEFINE tx == [Blank("register", Admin) EXCEPT
             !.signers = {Admin, Admin},
             !.uniqueIn = {"directory"} \cup spent,
             !.uniqueOut = {"directory", "registryNode"},
             !.uniqueRead = {"issuanceLogic"},
             !.withdraws = {"issuerAdmin"},
             !.tokensOut = outs]
<1>2. \A i \in DOMAIN outs : outs[i].datum = "metadata" =>
         outs[i].unit = "reference" /\ outs[i].owner = Admin
  BY DEF RegisterOutputs, voidOutput
<1>3. /\ outs \in Seq(Output) /\ Len(outs) \in 1..2
      /\ Len(outs) = 2 => outs[2].unit = "reference"
  <2> DEFINE user == voidOutput(to, IF hasCIP68 THEN "user" ELSE unit, qty)
             ref == [owner |-> Admin, unit |-> "reference", qty |-> 1, datum |-> "metadata"]
  <2>1. qty \in Nat \ {0}
    BY HoldersAssumption
  <2>2. user \in Output
    BY <2>1, VoidOutputTyped DEF Units
  <2>3. ref \in Output /\ ref.unit = "reference"
    BY HoldersAssumption DEF Output, Units
  <2>4. outs = IF hasCIP68 THEN <<user, ref>> ELSE <<user>>
    BY DEF RegisterOutputs
  <2> HIDE DEF user, ref, outs
  <2> QED
    BY <2>2, <2>3, <2>4
<1> HIDE DEF outs
<1>4. /\ tx.nodesRead = {} /\ tx.payer = Admin
      /\ tx.uniqueOut = {"directory", "registryNode"}
      /\ tx.uniqueIn = {"directory"} \cup spent
      /\ tx.op = "register" /\ tx.tokensIn = {} /\ tx.tokensOut = outs
      /\ tx.nodesIn = {} /\ tx.nodesOut = {}
  BY DEF Blank
<1>5. buildAndSerialize(tx)
  BY <1>1
<1>6. tx \in Tx
  <2>1. /\ {"directory"} \cup spent \in SUBSET Unique /\ {"issuanceLogic"} \in SUBSET Unique
        /\ {"directory", "registryNode"} \in SUBSET Unique /\ {"issuerAdmin"} \in SUBSET Credentials
    BY FundsAreScripts DEF Unique, Scripts, Credentials
  <2>2. "register" \in Operations /\ Admin \in Holders
    BY HoldersAssumption DEF Operations
  <2> QED
    BY <1>3, <2>1, <2>2 DEF Tx, Blank
<1> HIDE DEF tx
<1>7. LeavesList(tx) /\ IssuesTokens(tx)
  BY <1>3, <1>4 DEF LeavesList, IssuesTokens
<1>8. Pending(tx)
  BY <1>2, <1>4, <1>7, FundsAreScripts DEF Pending, Settles, MetadataOut, LeavesReference
<1> QED
  BY <1>5, <1>6, <1>8, AddedToPool

\* mint writes no metadata.
LEMMA MintBuilt ==
    ASSUME IInv, NEW to \in Holders, NEW unit \in Units, NEW qty \in 1..MaxSupply,
           mint(Admin, to, unit, qty)
    PROVE  IInv'
<1> DEFINE out == voidOutput(to, unit, qty)
           tx == [Blank("mint", Admin) EXCEPT
           !.signers = {Admin, Admin},
           !.uniqueRead = {"registryNode", "issuanceLogic"},
           !.withdraws = {"issuerAdmin"},
           !.tokensOut = <<out>>]
<1>1. buildAndSerialize(tx)
  BY DEF mint
<1>2. out \in Output /\ <<out>> \in Seq(Output) /\ out.datum = "void"
  <2>1. qty \in Nat \ {0}
    BY HoldersAssumption
  <2> QED
    BY <2>1, VoidOutputTyped DEF voidOutput
<1> HIDE DEF out
<1>3. /\ tx.nodesRead = {} /\ tx.payer = Admin /\ tx.uniqueOut = {}
      /\ tx.uniqueIn = {} /\ tx.op = "mint" /\ tx.tokensIn = {}
      /\ tx.tokensOut = <<out>>
      /\ tx.nodesIn = {} /\ tx.nodesOut = {}
  BY DEF Blank
<1>4. tx \in Tx
  <2>1. /\ {"registryNode", "issuanceLogic"} \in SUBSET Unique
        /\ {"issuerAdmin"} \in SUBSET Credentials
    BY DEF Unique, Scripts, Credentials
  <2>2. "mint" \in Operations /\ Admin \in Holders
    BY HoldersAssumption DEF Operations
  <2> QED
    BY <1>2, <2>1, <2>2 DEF Tx, Blank
<1> HIDE DEF tx
<1>5. LeavesList(tx) /\ IssuesTokens(tx)
  BY <1>3 DEF LeavesList, IssuesTokens
<1>6. Pending(tx)
  BY <1>2, <1>3, <1>5 DEF Pending, Settles, MetadataOut, LeavesReference
<1> QED
  BY <1>1, <1>4, <1>6, AddedToPool

\* burn writes no token.
LEMMA BurnBuilt ==
    ASSUME IInv, NEW utxo \in tokens, burn(Admin, utxo)
    PROVE  IInv'
<1> DEFINE tx == [Blank("burn", Admin) EXCEPT
           !.signers = {Admin, Admin},
           !.uniqueRead = {"registryNode", "issuanceLogic"},
           !.withdraws = {"issuerAdmin"},
           !.tokensIn = {utxo}]
<1>1. buildAndSerialize(tx)
  BY DEF burn
<1>2. /\ tx.nodesRead = {} /\ tx.payer = Admin /\ tx.uniqueOut = {}
      /\ tx.uniqueIn = {} /\ tx.op = "burn" /\ tx.tokensIn = {utxo} /\ tx.tokensOut = << >>
      /\ tx.nodesIn = {} /\ tx.nodesOut = {}
  BY DEF Blank
<1>3. tx \in Tx
  <2>1. /\ {"registryNode", "issuanceLogic"} \in SUBSET Unique
        /\ {"issuerAdmin"} \in SUBSET Credentials /\ {utxo} \in SUBSET Token
    BY PoolTyped DEF Unique, Scripts, Credentials
  <2>2. "burn" \in Operations /\ Admin \in Holders
    BY HoldersAssumption DEF Operations
  <2>3. << >> \in Seq(Output)
    OBVIOUS
  <2> QED
    BY <2>1, <2>2, <2>3 DEF Tx, Blank
<1> HIDE DEF tx
<1>4. LeavesList(tx) /\ RedeemsToken(tx)
  BY <1>2 DEF LeavesList, RedeemsToken
<1>5. Pending(tx)
  BY <1>2, <1>4 DEF Pending, Settles, MetadataOut, LeavesReference
<1> QED
  BY <1>1, <1>3, <1>5, AddedToPool

\* seize does not take the (100) token, and moves all of an output.
LEMMA SeizeBuilt ==
    ASSUME IInv, NEW utxo \in tokens, NEW to \in Holders, seize(Admin, utxo, to)
    PROVE  IInv'
<1> DEFINE out == voidOutput(to, utxo.unit, utxo.qty)
           tx == [Blank("seize", Admin) EXCEPT
           !.signers = {Admin, Admin},
           !.uniqueRead = {"registryNode", "thirdParty"},
           !.withdraws = {"issuerAdmin"},
           !.tokensIn = {utxo},
           !.tokensOut = <<out>>]
<1>1. buildAndSerialize(tx) /\ utxo.unit # "reference"
  BY DEF seize, assertNotReferenceToken
<1>2. utxo \in Token /\ utxo.unit = "user" /\ utxo \in Held(utxo.owner)
  <2>1. utxo \in Token
    BY PoolTyped
  <2> QED
    BY <1>1, <2>1 DEF Token, Units, Held
<1>3. /\ out \in Output /\ <<out>> \in Seq(Output) /\ out.datum = "void"
      /\ out.unit = "user" /\ out.qty = utxo.qty
  BY <1>2, VoidOutputTyped DEF voidOutput, Token
<1> HIDE DEF out
<1>4. /\ tx.nodesRead = {} /\ tx.payer = Admin /\ tx.uniqueOut = {}
      /\ tx.uniqueIn = {} /\ tx.op = "seize" /\ tx.tokensIn = {utxo}
      /\ tx.tokensOut = <<out>>
      /\ tx.nodesIn = {} /\ tx.nodesOut = {}
  BY DEF Blank
<1>5. tx \in Tx
  <2>1. /\ {"registryNode", "thirdParty"} \in SUBSET Unique
        /\ {"issuerAdmin"} \in SUBSET Credentials /\ {utxo} \in SUBSET Token
    BY <1>2 DEF Unique, Scripts, Credentials
  <2>2. "seize" \in Operations /\ Admin \in Holders
    BY HoldersAssumption DEF Operations
  <2> QED
    BY <1>3, <2>1, <2>2 DEF Tx, Blank
<1> HIDE DEF tx
<1>6. MovesTokens(tx)
  <2>1. Quantity({utxo}) = utxo.qty /\ utxo.owner \in Holders
    BY <1>2, QuantityOfOne DEF Token
  <2>2. Len(tx.tokensOut) = 1 /\ tx.tokensOut[1] = out
    BY <1>4
  <2> QED
    BY <1>2, <1>3, <1>4, <2>1, <2>2 DEF MovesTokens
<1>7. Pending(tx)
  BY <1>1, <1>3, <1>4, <1>6 DEF Pending, Settles, LeavesList, MetadataOut, LeavesReference
<1> QED
  BY <1>1, <1>5, <1>7, AddedToPool

\* What a selection is worth.
LEMMA Selected ==
    ASSUME IInv, NEW utxos \in SUBSET tokens, NEW qty \in 1..MaxSupply,
           NEW selected \in selectUtxosForAmount(utxos, qty)
    PROVE  /\ selected \in SUBSET utxos /\ IsFiniteSet(selected)
           /\ Quantity(selected) \in Nat /\ Quantity(selected) >= qty
<1>1. selected \in SUBSET utxos /\ Quantity(selected) >= qty
  BY DEF selectUtxosForAmount
<1>2. IsFiniteSet(selected)
  BY <1>1, PoolTyped, FS_Subset
<1>3. \A t \in selected : t.qty \in Nat
  BY <1>1, PoolTyped DEF Token
<1> QED
  BY <1>1, <1>2, <1>3, QuantityIsNatural

\* transfer does not take the (100) token, returns what it does not pay, and
\* cites a current proof node.
LEMMA TransferBuilt ==
    ASSUME IInv, NEW from \in Holders, NEW to \in Holders, NEW unit \in Units,
           NEW qty \in 1..MaxSupply, transfer(from, to, unit, qty)
    PROVE  IInv'
<1> DEFINE utxos == {t \in tokens : t.owner = from /\ t.unit = unit}
<1>1. PICK selected \in selectUtxosForAmount(utxos, qty),
           proof \in Covering(nodes, from),
           spent \in UnfilteredFunds(from) :
         buildAndSerialize([Blank("transfer", from) EXCEPT
                !.nodesRead = {proof},
                !.uniqueRead = {"registryNode"},
                !.uniqueIn = spent,
                !.withdraws = {"transfer"},
                !.tokensIn = selected,
                !.tokensOut = TransferOutputs(from, to, unit, qty,
                                              Quantity(selected))])
  BY DEF transfer
<1> DEFINE total == Quantity(selected)
           outs == TransferOutputs(from, to, unit, qty, total)
           tx == [Blank("transfer", from) EXCEPT
                !.nodesRead = {proof},
                !.uniqueRead = {"registryNode"},
                !.uniqueIn = spent,
                !.withdraws = {"transfer"},
                !.tokensIn = selected,
                !.tokensOut = outs]
<1>2. unit # "reference" /\ unit = "user"
  BY DEF transfer, assertNotReferenceToken, Units
<1>3. selected \in SUBSET utxos /\ total \in Nat /\ total >= qty /\ qty \in Nat \ {0}
  BY Selected, HoldersAssumption
<1>4. /\ outs \in Seq(Output) /\ Len(outs) \in 1..2
      /\ \A i \in 1..Len(outs) : outs[i].datum = "void" /\ outs[i].unit = "user"
      /\ Len(outs) = 2 => outs[1].owner = from
      /\ total = IF Len(outs) = 1 THEN outs[1].qty ELSE outs[1].qty + outs[2].qty
  <2> DEFINE paid == voidOutput(to, unit, qty)
             change == voidOutput(from, unit, total - qty)
  <2>1. outs = IF total > qty THEN <<change, paid>> ELSE <<paid>>
    BY DEF TransferOutputs
  <2>2. /\ paid \in Output /\ paid.datum = "void" /\ paid.unit = "user" /\ paid.qty = qty
        /\ <<paid>> \in Seq(Output)
    BY <1>2, <1>3, VoidOutputTyped DEF voidOutput
  <2>3. change.datum = "void" /\ change.unit = "user" /\ change.owner = from
        /\ change.qty = total - qty
    BY <1>2 DEF voidOutput
  <2> HIDE DEF total
  <2>4. CASE total > qty
    <3>1. total - qty \in Nat \ {0}
      BY <1>3, <2>4
    <3>2. change \in Output
      BY <3>1, VoidOutputTyped
    <3> HIDE DEF paid, change, outs
    <3>3. outs = <<change, paid>>
      BY <2>1, <2>4
    <3>4. /\ outs \in Seq(Output) /\ Len(outs) = 2 /\ outs[1] = change /\ outs[2] = paid
      BY <2>2, <3>2, <3>3
    <3> QED
      BY <1>3, <2>2, <2>3, <3>4
  <2>5. CASE ~(total > qty)
    <3> HIDE DEF paid, change, outs
    <3>1. outs = <<paid>> /\ total = qty
      BY <1>3, <2>1, <2>5
    <3>2. /\ outs \in Seq(Output) /\ Len(outs) = 1 /\ outs[1] = paid
      BY <2>2, <3>1
    <3> QED
      BY <2>2, <3>1, <3>2
  <2> QED
    BY <2>4, <2>5
<1> HIDE DEF outs
<1>5. buildAndSerialize(tx)
  BY <1>1 DEF outs
<1>6. /\ tx.nodesRead = {proof} /\ tx.payer = from /\ tx.uniqueOut = {}
      /\ tx.uniqueIn = spent /\ tx.op = "transfer" /\ tx.tokensIn = selected /\ tx.tokensOut = outs
      /\ tx.nodesIn = {} /\ tx.nodesOut = {}
  BY DEF Blank
<1>7. proof \in nodes /\ Brackets(proof, from)
  BY DEF Covering
<1>8. tx \in Tx
  <2>1. /\ {"registryNode"} \in SUBSET Unique /\ {"transfer"} \in SUBSET Credentials
        /\ spent \in SUBSET Unique /\ {proof} \in SUBSET Node /\ selected \in SUBSET Token
    BY <1>3, <1>7, PoolTyped, FundsAreScripts DEF Unique, Credentials
  <2>2. "transfer" \in Operations
    BY DEF Operations
  <2> QED
    BY <1>4, <2>1, <2>2 DEF Tx, Blank
<1> HIDE DEF tx
<1>9. Proved(tx) /\ LeavesList(tx) /\ MetadataOut(tx) /\ LeavesReference(tx)
  <2>1. DOMAIN outs = 1..Len(outs)
    BY <1>4
  <2> QED
    BY <1>2, <1>3, <1>4, <1>6, <1>7, <2>1 DEF Proved, LeavesList, MetadataOut, LeavesReference
<1>10. MovesTokens(tx)
  <2>1. selected \subseteq Held(from)
    BY <1>2, <1>3 DEF Held
  <2> QED
    BY <1>4, <1>6, <2>1 DEF MovesTokens
<1>11. Pending(tx)
  BY <1>6, <1>7, <1>9, <1>10, FundsAreScripts DEF Pending, Settles
<1> QED
  BY <1>5, <1>8, <1>11, AddedToPool

-----------------------------------------------------------------------------
(* A transaction that lands, and those it leaves in the pool.              *)

\* The new list is sound, and the seed is gone once there is one.
LEMMA LandedList ==
    ASSUME IInv, NEW tx \in pool, ChainLands(tx)
    PROVE  /\ nodes' \in SUBSET Node
           /\ BlacklistSound'
           /\ "seed" \in live' => nodes' = {}
<1>1. /\ nodes' = (nodes \ tx.nodesIn) \cup tx.nodesOut
      /\ live' = (live \ tx.uniqueIn) \cup tx.uniqueOut
  BY DEF ChainLands
<1>2. Pending(tx) /\ nodes \in SUBSET Node /\ BlacklistSound
      /\ ("seed" \in live => nodes = {})
  BY DEF IInv, TypeOK
<1>3. "seed" \in live' => "seed" \in live /\ "seed" \notin tx.uniqueIn
  BY <1>1, <1>2 DEF Pending
<1>4. CASE InitTx(tx)
  <2>1. nodes' = {Origin} /\ "seed" \notin live'
    BY <1>1, <1>2, <1>3, <1>4 DEF InitTx, Pending
  <2> QED
    BY <2>1, OriginSound DEF BlacklistSound
<1>5. CASE FreezeTx(tx)
  <2>1. PICK c \in nodes, k \in Keys :
             /\ Brackets(c, k) /\ tx.nodesIn = {c} /\ tx.nodesOut = Split(c, k)
    BY <1>5, HoldersAreKeys DEF FreezeTx
  <2>2. Sound(nodes)
    BY <1>2 DEF BlacklistSound
  <2>3. nodes' = (nodes \ {c}) \cup Split(c, k)
    BY <1>1, <2>1
  <2>4. nodes' \in SUBSET Node /\ Sound(nodes)'
    BY <1>2, <2>1, <2>2, <2>3, SplitSound
  <2> QED
    BY <1>2, <1>3, <2>4 DEF BlacklistSound
<1>6. CASE UnfreezeTx(tx)
  <2>1. PICK r \in nodes, p \in nodes :
             /\ r.key # 0 /\ p.next = r.key
             /\ tx.nodesIn = {r, p} /\ tx.nodesOut = Merge(p, r)
    BY <1>6, HoldersAreKeys DEF UnfreezeTx
  <2>2. Sound(nodes)
    BY <1>2 DEF BlacklistSound
  <2>3. nodes' = (nodes \ {r, p}) \cup Merge(p, r)
    BY <1>1, <2>1
  <2>4. nodes' \in SUBSET Node /\ Sound(nodes)'
    BY <1>2, <2>1, <2>2, <2>3, MergeSound
  <2> QED
    BY <1>2, <1>3, <2>4 DEF BlacklistSound
<1>7. CASE LeavesList(tx)
  <2>1. nodes' = nodes
    BY <1>1, <1>7 DEF LeavesList
  <2> QED
    BY <1>2, <1>3, <2>1 DEF BlacklistSound
<1> QED
  BY <1>2, <1>4, <1>5, <1>6, <1>7 DEF Pending, Settles

\* A transaction declares at most two outputs.
LEMMA OutputsDeclared ==
    ASSUME IInv, NEW tx \in pool
    PROVE  /\ tx.tokensOut \in Seq(Output) /\ Len(tx.tokensOut) \in 0..2
           /\ DOMAIN tx.tokensOut = 1..Len(tx.tokensOut)
           /\ \A i \in 1..Len(tx.tokensOut) : tx.tokensOut[i] \in Output
           /\ tx.tokensIn \in SUBSET tokens
<1>1. tx.tokensOut \in Seq(Output) /\ Settles(tx)
  BY PoolTyped DEF IInv, Pending, Tx
<1>2. Len(tx.tokensOut) \in 0..2
  BY <1>1 DEF Settles, LeavesTokens, IssuesTokens, RedeemsToken, MovesTokens
<1>3. tx.tokensIn \in SUBSET tokens
  BY <1>1 DEF Settles, LeavesTokens, IssuesTokens, RedeemsToken, MovesTokens, Held
<1> QED
  BY <1>1, <1>2, <1>3

\* ChainReferences chooses among references that exist.
LEMMA FreshReferences ==
    ASSUME IInv, NEW tx \in pool, ChainHasRoom(tx)
    PROVE  ChainReferences(tx)
             \in Injection(DOMAIN tx.tokensOut, TokenIds \ {t.id : t \in tokens})
<1> DEFINE used == {t.id : t \in tokens}
           free == TokenIds \ used
           n == Len(tx.tokensOut)
<1>1. n \in 0..2 /\ DOMAIN tx.tokensOut = 1..n
  BY OutputsDeclared
<1>2. IsFiniteSet(used) /\ Cardinality(used) <= Cardinality(tokens)
  <2> DEFINE f == [t \in tokens |-> t.id]
  <2>1. f \in Surjection(tokens, used)
    BY DEF Surjection
  <2>2. IsFiniteSet(tokens)
    BY PoolTyped
  <2> HIDE DEF f, used
  <2> QED
    BY <2>1, <2>2, FS_Surjection
<1>3. IsFiniteSet(free) /\ Cardinality(free) >= n
  <2>1. TokenIds \cap used = used
    BY PoolTyped DEF Token
  <2>2. IsFiniteSet(TokenIds) /\ IsFiniteSet(tokens)
    BY HoldersAssumption, PoolTyped
  <2>3. Cardinality(tokens) + n <= Cardinality(TokenIds)
    BY DEF ChainHasRoom
  <2> HIDE DEF used, n
  <2>4. IsFiniteSet(free) /\ Cardinality(free) = Cardinality(TokenIds) - Cardinality(used)
    BY <2>1, <2>2, FS_Difference
  <2>5. /\ Cardinality(used) \in Nat /\ Cardinality(TokenIds) \in Nat
        /\ Cardinality(tokens) \in Nat
    BY <1>2, <2>2, FS_CardinalityType
  <2> QED
    BY <1>1, <1>2, <2>3, <2>4, <2>5
<1> HIDE DEF used, free, n
<1>4. \E f : f \in Injection(1..n, free)
  <2>1. CASE n = 0
    <3>1. [i \in 1..n |-> 0] \in Injection(1..n, free)
      BY <2>1 DEF Injection, IsInjective
    <3> QED
      BY <3>1
  <2>2. CASE n >= 1
    <3>1. PICK a : a \in free
      BY <1>1, <1>3, <2>2, FS_EmptySet
    <3>2. CASE n = 1
      <4>1. [i \in 1..n |-> a] \in Injection(1..n, free)
        BY <3>1, <3>2 DEF Injection, IsInjective
      <4> QED
        BY <4>1
    <3>3. CASE n = 2
      <4>1. IsFiniteSet(free \ {a}) /\ Cardinality(free \ {a}) = Cardinality(free) - 1
        BY <1>3, <3>1, FS_RemoveElement
      <4>2. PICK b : b \in free \ {a}
        <5>1. Cardinality(free) \in Nat /\ Cardinality(free) >= 2
          BY <1>3, <3>3, FS_CardinalityType
        <5>2. Cardinality(free \ {a}) # 0
          BY <4>1, <5>1
        <5> QED
          BY <4>1, <5>2, FS_EmptySet
      <4>3. [i \in 1..n |-> IF i = 1 THEN a ELSE b] \in Injection(1..n, free)
        BY <3>1, <3>3, <4>2 DEF Injection, IsInjective
      <4> QED
        BY <4>3
    <3> QED
      BY <1>1, <2>2, <3>2, <3>3
  <2> QED
    BY <1>1, <2>1, <2>2
<1> QED
  BY <1>1, <1>4 DEF ChainReferences, used, free

\* One output of ChainOutputs.
Landed(tx, i) ==
    [id |-> ChainReferences(tx)[i], owner |-> tx.tokensOut[i].owner,
     unit |-> tx.tokensOut[i].unit, qty |-> tx.tokensOut[i].qty,
     datum |-> tx.tokensOut[i].datum]

\* The outputs on chain are those declared, each once, and none was there.
LEMMA OutputsLanded ==
    ASSUME IInv, NEW tx \in pool, ChainLands(tx)
    PROVE  /\ \A i \in 1..Len(tx.tokensOut) :
                 /\ Landed(tx, i) \in Token /\ Landed(tx, i) \notin tokens
                 /\ Landed(tx, i).owner = tx.tokensOut[i].owner
                 /\ Landed(tx, i).unit = tx.tokensOut[i].unit
                 /\ Landed(tx, i).qty = tx.tokensOut[i].qty
           /\ \A i, j \in 1..Len(tx.tokensOut) : Landed(tx, i) = Landed(tx, j) => i = j
           /\ \A o : o \in ChainOutputs(tx) <=> \E i \in 1..Len(tx.tokensOut) : o = Landed(tx, i)
<1> DEFINE ids == ChainReferences(tx)
           out == tx.tokensOut
<1>1. /\ DOMAIN out = 1..Len(out)
      /\ \A i \in 1..Len(out) : out[i] \in Output
  BY OutputsDeclared
<1>2. ids \in Injection(DOMAIN out, TokenIds \ {t.id : t \in tokens})
  BY FreshReferences DEF ChainLands
<1>3. /\ \A i \in 1..Len(out) : ids[i] \in TokenIds /\ \A t \in tokens : t.id # ids[i]
      /\ \A i, j \in 1..Len(out) : ids[i] = ids[j] => i = j
  BY <1>1, <1>2 DEF Injection, IsInjective
<1>4. ASSUME NEW i \in 1..Len(out)
      PROVE  /\ Landed(tx, i) \in Token /\ Landed(tx, i) \notin tokens
             /\ Landed(tx, i).owner = out[i].owner
             /\ Landed(tx, i).unit = out[i].unit
             /\ Landed(tx, i).qty = out[i].qty
             /\ Landed(tx, i).id = ids[i]
  BY <1>1, <1>3 DEF Landed, Token, Output
<1>5. \A o : o \in ChainOutputs(tx) <=> \E i \in 1..Len(out) : o = Landed(tx, i)
  BY <1>1 DEF ChainOutputs, Landed
<1>6. \A i, j \in 1..Len(out) : Landed(tx, i) = Landed(tx, j) => i = j
  BY <1>3, <1>4
<1> QED
  BY <1>4, <1>5, <1>6

\* So they are finitely many tokens.
LEMMA OutputsFinite ==
    ASSUME IInv, NEW tx \in pool, ChainLands(tx)
    PROVE  /\ ChainOutputs(tx) \in SUBSET Token /\ IsFiniteSet(ChainOutputs(tx))
           /\ ChainOutputs(tx) \cap tokens = {}
<1> DEFINE n == Len(tx.tokensOut)
<1>1. /\ n \in 0..2
      /\ \A i \in 1..n : Landed(tx, i) \in Token /\ Landed(tx, i) \notin tokens
      /\ \A o : o \in ChainOutputs(tx) <=> \E i \in 1..n : o = Landed(tx, i)
  BY OutputsDeclared, OutputsLanded
<1> HIDE DEF n
<1>2. ChainOutputs(tx) \in SUBSET {Landed(tx, 1), Landed(tx, 2)}
  BY <1>1
<1>3. IsFiniteSet({Landed(tx, 1)} \cup {Landed(tx, 2)})
  BY FS_Singleton, FS_Union
<1>4. {Landed(tx, 1)} \cup {Landed(tx, 2)} = {Landed(tx, 1), Landed(tx, 2)}
  OBVIOUS
<1>5. IsFiniteSet(ChainOutputs(tx))
  BY <1>2, <1>3, <1>4, FS_Subset
<1> QED
  BY <1>1, <1>5

\* Every variable keeps its type when a transaction lands.
LEMMA LandedTypes ==
    ASSUME IInv, NEW tx \in pool, ChainLands(tx)
    PROVE  TypeOK' /\ IsFiniteSet(tokens')
<1>1. nodes' \in SUBSET Node
  BY LandedList
<1>2. tokens' = (tokens \ tx.tokensIn) \cup ChainOutputs(tx)
  BY DEF ChainLands
<1>3. tokens' \in SUBSET Token
  BY <1>2, PoolTyped, OutputsFinite
<1>4. IsFiniteSet(tokens')
  <2>1. IsFiniteSet(tokens \ tx.tokensIn)
    BY PoolTyped, FS_Difference
  <2> QED
    BY <1>2, <2>1, OutputsFinite, FS_Union
<1>5. live' \in SUBSET Unique /\ registered' \in SUBSET Credentials
  BY PoolTyped DEF ChainLands, Tx
<1>6. pool' \in SUBSET Tx
  BY PoolTyped DEF ChainLands
<1> QED
  BY <1>1, <1>3, <1>4, <1>5, <1>6 DEF TypeOK

\* Every output on chain is one that stayed or one the transaction declares.
LEMMA LandedTokens ==
    ASSUME IInv, NEW tx \in pool, ChainLands(tx)
    PROVE  WithIssuer'
<1>1. SUFFICES ASSUME NEW t \in tokens', t.datum = "metadata"
               PROVE  t.unit = "reference" /\ t.owner = Admin
  BY DEF WithIssuer
<1>2. t \in tokens \/ t \in ChainOutputs(tx)
  BY DEF ChainLands
<1>3. CASE t \in tokens
  BY <1>1, <1>3 DEF IInv, WithIssuer
<1>4. CASE t \in ChainOutputs(tx)
  <2>1. PICK i \in DOMAIN tx.tokensOut : /\ t.unit = tx.tokensOut[i].unit
                                         /\ t.owner = tx.tokensOut[i].owner
                                         /\ t.datum = tx.tokensOut[i].datum
    BY <1>4 DEF ChainOutputs
  <2>2. MetadataOut(tx)
    BY DEF IInv, Pending
  <2> QED
    BY <1>1, <2>1, <2>2 DEF MetadataOut
<1> QED
  BY <1>2, <1>3, <1>4

\* What stays in the pool does not conflict with what landed, so the nodes
\* and the seed it names are still there.
LEMMA LandedPool ==
    ASSUME IInv, NEW tx \in pool, ChainLands(tx), NEW t \in pool'
    PROVE  Pending(t)'
<1>1. /\ t \in pool /\ ~ChainConflicts(t, tx)
      /\ nodes' = (nodes \ tx.nodesIn) \cup tx.nodesOut
      /\ live' = (live \ tx.uniqueIn) \cup tx.uniqueOut
      /\ tokens' = (tokens \ tx.tokensIn) \cup ChainOutputs(tx)
  BY DEF ChainLands
<1>2. Pending(t)
  BY <1>1 DEF IInv
<1>3. /\ t.nodesIn \cap tx.nodesIn = {} /\ t.nodesRead \cap tx.nodesIn = {}
      /\ t.uniqueIn \cap tx.uniqueIn = {} /\ t.tokensIn \cap tx.tokensIn = {}
  BY <1>1 DEF ChainConflicts
<1>4. FreezeTx(t) => FreezeTx(t)'
  BY <1>1, <1>3 DEF FreezeTx
<1>5. UnfreezeTx(t) => UnfreezeTx(t)'
  BY <1>1, <1>3 DEF UnfreezeTx
<1>6. t.nodesRead \subseteq nodes' /\ ("seed" \in t.uniqueIn => "seed" \in live')
  BY <1>1, <1>2, <1>3 DEF Pending
<1>7. RedeemsToken(t) => RedeemsToken(t)'
  BY <1>1, <1>3 DEF RedeemsToken
<1>8. MovesTokens(t) => MovesTokens(t)'
  <2>1. \A h \in Holders : t.tokensIn \subseteq Held(h) => t.tokensIn \subseteq Held(h)'
    BY <1>1, <1>3 DEF Held
  <2> QED
    BY <2>1 DEF MovesTokens
<1>9. Settles(t)'
  BY <1>2, <1>4, <1>5, <1>7, <1>8
     DEF Pending, Settles, InitTx, LeavesList, LeavesTokens, IssuesTokens
<1> QED
  BY <1>2, <1>6, <1>9 DEF Pending, LeavesList, Proved, MetadataOut, LeavesReference

-----------------------------------------------------------------------------
(* Everything the theorems rest on: sound list, one-shot seed, metadata,   *)
(* and a pool whose reads are still current.                               *)
THEOREM Invariance == Spec => []IInv
<1>1. Init => IInv
  <2>1. Init => IsFiniteSet(tokens)
    BY FS_EmptySet DEF Init
  <2> QED
    BY <2>1 DEF Init, IInv, TypeOK, BlacklistSound, WithIssuer, Credentials
<1>2. IInv /\ [Next]_vars => IInv'
  <2> SUFFICES ASSUME IInv, [Next]_vars PROVE IInv'
    OBVIOUS
  <2>1. CASE Administers
    <3>1. ASSUME NEW known \in BOOLEAN, initCompliance(Admin, known) PROVE IInv'
      BY <3>1, InitBuilt
    <3>2. ASSUME NEW to \in Holders, NEW unit \in Units, NEW qty \in 1..MaxSupply,
                 (\E hasCIP68 \in BOOLEAN : register(Admin, to, unit, qty, hasCIP68))
                     \/ mint(Admin, to, unit, qty)
          PROVE  IInv'
      BY <3>2, RegisterBuilt, MintBuilt
    <3>3. ASSUME NEW t \in tokens,
                 burn(Admin, t) \/ \E to \in Holders : seize(Admin, t, to)
          PROVE  IInv'
      BY <3>3, BurnBuilt, SeizeBuilt
    <3>4. ASSUME NEW payer \in Holders, NEW target \in Holders,
                 freeze(payer, target) \/ unfreeze(payer, target)
          PROVE  IInv'
      BY <3>4, FreezeBuilt, UnfreezeBuilt
    <3> QED
      BY <2>1, <3>1, <3>2, <3>3, <3>4 DEF Administers
  <2>2. CASE Transfers
    BY <2>2, TransferBuilt DEF Transfers
  <2>3. ASSUME NEW tx \in pool, ChainLands(tx) PROVE IInv'
    BY <2>3, LandedList, LandedTypes, LandedTokens, LandedPool DEF IInv
  <2>4. ASSUME NEW tx \in pool, ChainForgets(tx) PROVE IInv'
    <3>1. UNCHANGED <<nodes, tokens, live, registered>> /\ pool' \subseteq pool
      BY <2>4 DEF ChainForgets
    <3>2. ASSUME NEW t \in pool' PROVE Pending(t)'
      <4>1. Pending(t)
        BY <3>1 DEF IInv
      <4> QED
        BY <4>1, <3>1 DEF Pending, Settles, InitTx, FreezeTx, UnfreezeTx, LeavesList,
                          LeavesTokens, IssuesTokens, RedeemsToken, MovesTokens, Held,
                          Proved, MetadataOut, LeavesReference
    <3> QED
      BY <3>1, <3>2 DEF IInv, TypeOK, BlacklistSound, WithIssuer
  <2>5. CASE UNCHANGED vars
    <3>1. UNCHANGED <<nodes, tokens, live, registered, pool>>
      BY <2>5 DEF vars
    <3>2. ASSUME NEW t \in pool' PROVE Pending(t)'
      <4>1. Pending(t)
        BY <3>1 DEF IInv
      <4> QED
        BY <4>1, <3>1 DEF Pending, Settles, InitTx, FreezeTx, UnfreezeTx, LeavesList,
                          LeavesTokens, IssuesTokens, RedeemsToken, MovesTokens, Held,
                          Proved, MetadataOut, LeavesReference
    <3> QED
      BY <3>1, <3>2 DEF IInv, TypeOK, BlacklistSound, WithIssuer
  <2> QED
    BY <2>1, <2>2, <2>3, <2>4, <2>5 DEF Next
<1> QED
  BY <1>1, <1>2, PTL DEF Spec

(* Every variable keeps its type: whatever a builder returns is a          *)
(* transaction, and the outputs that land are tokens with references of    *)
(* their own.                                                              *)
THEOREM TypeCorrect == Spec => []TypeOK
<1>1. IInv => TypeOK
  BY DEF IInv
<1> QED
  BY <1>1, Invariance, PTL

(* freeze and unfreeze, however they race, keep one verdict per holder:    *)
(* the covering node that freeze and transfer look up exists exactly for   *)
(* the holders that are not listed, the pair unfreeze needs for the others.*)
THEOREM BlacklistStaysSound == Spec => []BlacklistSound
<1>1. IInv => BlacklistSound
  BY DEF IInv
<1> QED
  BY <1>1, Invariance, PTL

(* register is the one operation that writes metadata, next to the (100)   *)
(* token and to the issuer; and whatever lands, only a burn takes a (100)  *)
(* token from its output.                                                  *)
THEOREM MetadataStays == Spec => MetadataKept
<1>1. IInv /\ [Next]_vars =>
        [/\ \A t \in tokens : t.datum = "metadata"
                                => t.unit = "reference" /\ t.owner = Admin
         /\ \A tx \in pool : ChainLands(tx) /\ tx.op # "burn"
                                => \A t \in tx.tokensIn : t.unit # "reference"]_vars
  BY DEF IInv, Pending, LeavesReference, WithIssuer
<1> QED
  BY <1>1, Invariance, PTL DEF Spec, MetadataKept

(* The proof node that transfer cites as a reference input is current when *)
(* the transfer lands, so the sender is not listed at that moment.         *)
THEOREM FrozenNeverSends == Spec => FrozenCannotSend
<1>1. ASSUME IInv, NEW tx \in pool, tx.op = "transfer"
      PROVE  tx.payer \notin Members(nodes)
  <2>1. /\ nodes \in SUBSET Node /\ BlacklistSound
        /\ tx.nodesRead \subseteq nodes /\ tx.payer \in Keys
        /\ \E n \in tx.nodesRead : Brackets(n, tx.payer)
    <3>1. tx \in Tx /\ Pending(tx)
      BY <1>1 DEF IInv, TypeOK
    <3>2. tx.payer \in Keys
      BY <3>1, HoldersAssumption DEF Tx
    <3> QED
      BY <1>1, <3>1, <3>2 DEF IInv, TypeOK, Pending, Proved
  <2>2. PICK n \in nodes : Brackets(n, tx.payer)
    BY <2>1
  <2>3. Sound(nodes)
    BY <2>1, <2>2 DEF BlacklistSound
  <2> QED
    BY <2>1, <2>2, <2>3, BracketedIsNotMember
<1>2. IInv /\ [Next]_vars =>
        [\A tx \in pool : tx.op = "transfer" /\ ChainLands(tx)
                             => tx.payer \notin Members(nodes)]_vars
  BY <1>1
<1> QED
  BY <1>2, Invariance, PTL DEF Spec, FrozenCannotSend

-----------------------------------------------------------------------------
(* What the holders see: who is frozen, and how much each of them holds.   *)

Balance == [h \in Holders |-> Quantity(Held(h))]

\* A holder has finitely many outputs, each of a positive quantity.
LEMMA HeldTyped ==
    ASSUME IInv, NEW h
    PROVE  /\ Held(h) \in SUBSET tokens /\ IsFiniteSet(Held(h))
           /\ \A t \in Held(h) : t.qty \in Nat \ {0}
           /\ Quantity(Held(h)) \in Nat
<1>1. Held(h) \in SUBSET tokens
  BY DEF Held
<1>2. IsFiniteSet(Held(h))
  BY <1>1, PoolTyped, FS_Subset
<1>3. \A t \in Held(h) : t.qty \in Nat \ {0}
  BY <1>1, PoolTyped DEF Token
<1>4. \A t \in Held(h) : t.qty \in Nat
  BY <1>3
<1>5. Quantity(Held(h)) \in Nat
  BY <1>2, <1>4, QuantityIsNatural
<1> QED
  BY <1>1, <1>2, <1>3, <1>5

\* A holder keeps what is not spent, and what is spent had its part in the
\* balance.
LEMMA BalanceSplits ==
    ASSUME IInv, NEW h, NEW spent
    PROVE  /\ IsFiniteSet(Held(h) \ spent)
           /\ Quantity(Held(h) \ spent) \in Nat /\ Quantity(Held(h) \cap spent) \in Nat
           /\ Quantity(Held(h)) = Quantity(Held(h) \ spent) + Quantity(Held(h) \cap spent)
<1> DEFINE kept == Held(h) \ spent
           gone == Held(h) \cap spent
<1>1. /\ IsFiniteSet(Held(h)) /\ \A t \in Held(h) : t.qty \in Nat
  BY HeldTyped
<1>2. /\ kept \in SUBSET Held(h) /\ gone \in SUBSET Held(h)
      /\ kept \cap gone = {} /\ kept \cup gone = Held(h)
  OBVIOUS
<1> HIDE DEF kept, gone
<1>3. IsFiniteSet(kept) /\ IsFiniteSet(gone)
  BY <1>1, <1>2, FS_Subset
<1>4. \A t \in kept \cup gone : t.qty \in Nat /\ t.qty \in Int
  BY <1>1, <1>2
<1>5. Quantity(kept) \in Nat /\ Quantity(gone) \in Nat
  BY <1>3, <1>4, QuantityIsNatural
<1>6. Quantity(kept \cup gone) = Quantity(kept) + Quantity(gone)
  BY <1>2, <1>3, <1>4, QuantityOfUnion
<1>7. Quantity(kept \cup gone) = Quantity(Held(h))
  BY <1>2
<1> QED
  BY <1>3, <1>5, <1>6, <1>7 DEF kept, gone

\* What output i of a transaction brings to the balance of h.
Credit(tx, h, i) ==
    IF /\ i <= Len(tx.tokensOut)
       /\ tx.tokensOut[i].owner = h /\ tx.tokensOut[i].unit = "user"
    THEN tx.tokensOut[i].qty ELSE 0

\* Each output is credited once, to its owner.
LEMMA LandedBalance ==
    ASSUME IInv, NEW tx \in pool, ChainLands(tx), NEW h
    PROVE  /\ Quantity(Held(h))' = Quantity(Held(h) \ tx.tokensIn)
                                      + Credit(tx, h, 1) + Credit(tx, h, 2)
           /\ Credit(tx, h, 1) \in Nat /\ Credit(tx, h, 2) \in Nat
<1> DEFINE n == Len(tx.tokensOut)
           owns(i) == i <= n /\ tx.tokensOut[i].owner = h /\ tx.tokensOut[i].unit = "user"
           A == Held(h) \ tx.tokensIn
           B == A \cup IF owns(1) THEN {Landed(tx, 1)} ELSE {}
           C == B \cup IF owns(2) THEN {Landed(tx, 2)} ELSE {}
<1>1. n \in 0..2 /\ \A i \in 1..n : tx.tokensOut[i] \in Output
  BY OutputsDeclared
<1>2. /\ \A i \in 1..n : /\ Landed(tx, i) \in Token /\ Landed(tx, i) \notin tokens
                         /\ Landed(tx, i).owner = tx.tokensOut[i].owner
                         /\ Landed(tx, i).unit = tx.tokensOut[i].unit
                         /\ Landed(tx, i).qty = tx.tokensOut[i].qty
      /\ \A i, j \in 1..n : Landed(tx, i) = Landed(tx, j) => i = j
      /\ \A o : o \in ChainOutputs(tx) <=> \E i \in 1..n : o = Landed(tx, i)
  BY OutputsLanded
<1>3. tokens' = (tokens \ tx.tokensIn) \cup ChainOutputs(tx)
  BY DEF ChainLands
<1>4. A \in SUBSET tokens /\ IsFiniteSet(A) /\ (\A t \in A : t.qty \in Int)
      /\ Quantity(A) \in Nat
  <2>1. Held(h) \in SUBSET tokens /\ \A t \in Held(h) : t.qty \in Nat \ {0}
    BY HeldTyped
  <2>2. IsFiniteSet(A) /\ Quantity(A) \in Nat
    BY BalanceSplits
  <2> QED
    BY <2>1, <2>2
<1>5. Held(h)' = C
  <2>1. \A t : t \in Held(h)' <=> t \in tokens' /\ t.owner = h /\ t.unit = "user"
    BY DEF Held
  <2>2. \A t : t \in A <=> t \in tokens \ tx.tokensIn /\ t.owner = h /\ t.unit = "user"
    BY DEF Held
  <2> HIDE DEF A, n
  <2>3. \A t : t \in ChainOutputs(tx) /\ t.owner = h /\ t.unit = "user" <=>
                 (owns(1) /\ t = Landed(tx, 1)) \/ (owns(2) /\ t = Landed(tx, 2))
    <3>1. \A t : t \in ChainOutputs(tx) <=>
                   (1 <= n /\ t = Landed(tx, 1)) \/ (2 <= n /\ t = Landed(tx, 2))
      BY <1>1, <1>2
    <3>2. /\ 1 <= n => 1 \in 1..n
          /\ 2 <= n => 2 \in 1..n
      BY <1>1
    <3> QED
      BY <1>2, <3>1, <3>2
  <2> QED
    BY <1>3, <2>1, <2>2, <2>3
<1> HIDE DEF A
<1>6. ASSUME NEW i \in {1, 2}, owns(i)
      PROVE  /\ i \in 1..n /\ Landed(tx, i).qty = tx.tokensOut[i].qty
             /\ tx.tokensOut[i].qty \in Nat /\ Landed(tx, i) \notin A
  BY <1>1, <1>2, <1>4, <1>6 DEF Output
<1> DEFINE c1 == Credit(tx, h, 1)
           c2 == Credit(tx, h, 2)
<1>7. /\ c1 = IF owns(1) THEN tx.tokensOut[1].qty ELSE 0
      /\ c2 = IF owns(2) THEN tx.tokensOut[2].qty ELSE 0
  BY DEF Credit
<1>8. c1 \in Nat /\ c2 \in Nat
  BY <1>6, <1>7
<1>9. owns(1) /\ owns(2) => Landed(tx, 2) # Landed(tx, 1)
  BY <1>2, <1>6
<1> HIDE DEF c1, c2, n
<1>10. IsFiniteSet(B) /\ (\A t \in B : t.qty \in Int) /\ Quantity(B) = Quantity(A) + c1
       /\ (owns(2) => Landed(tx, 2) \notin B)
  <2>1. CASE owns(1)
    <3>1. Landed(tx, 1) \notin A /\ Landed(tx, 1).qty \in Int /\ c1 = Landed(tx, 1).qty
      BY <1>6, <1>7, <2>1
    <3>2. B = A \cup {Landed(tx, 1)}
      BY <2>1
    <3> HIDE DEF B
    <3>3. Quantity(A \cup {Landed(tx, 1)}) = Quantity(A) + c1
      BY <1>4, <3>1, QuantityAdds
    <3>4. IsFiniteSet(A \cup {Landed(tx, 1)})
      BY <1>4, FS_AddElement
    <3>5. owns(2) => Landed(tx, 2) \notin B
      BY <1>6, <1>9, <2>1, <3>2
    <3> QED
      BY <1>4, <3>1, <3>2, <3>3, <3>4, <3>5
  <2>2. CASE ~owns(1)
    <3>1. B = A /\ c1 = 0
      BY <1>7, <2>2
    <3> HIDE DEF B
    <3>2. Quantity(B) = Quantity(A)
      BY <3>1
    <3> QED
      BY <1>4, <1>6, <3>1, <3>2
  <2> QED
    BY <2>1, <2>2
<1> HIDE DEF B
<1>11. Quantity(C) = Quantity(B) + c2
  <2>1. CASE owns(2)
    <3>1. Landed(tx, 2) \notin B /\ Landed(tx, 2).qty \in Int /\ c2 = Landed(tx, 2).qty
      BY <1>6, <1>7, <1>10, <2>1
    <3>2. C = B \cup {Landed(tx, 2)}
      BY <2>1
    <3> HIDE DEF C
    <3>3. Quantity(B \cup {Landed(tx, 2)}) = Quantity(B) + c2
      BY <1>10, <3>1, QuantityAdds
    <3> QED
      BY <3>2, <3>3
  <2>2. CASE ~owns(2)
    <3>1. C = B /\ c2 = 0
      BY <1>7, <2>2
    <3> HIDE DEF C
    <3>2. Quantity(C) = Quantity(B)
      BY <3>1
    <3>3. Quantity(B) \in Nat
      BY <1>4, <1>8, <1>10
    <3> QED
      BY <3>1, <3>2, <3>3
  <2> QED
    BY <2>1, <2>2
<1>12. Quantity(Held(h))' = Quantity(C)
  BY <1>5
<1> HIDE DEF C
<1>13. Quantity(Held(h))' = Quantity(A) + c1 + c2
  BY <1>4, <1>8, <1>10, <1>11, <1>12
<1> QED
  BY <1>8, <1>13 DEF A, c1, c2

\* Balances after a transaction lands, holder by holder.
LEMMA BalanceTyped ==
    ASSUME IInv
    PROVE  /\ Balance \in [Holders -> Nat]
           /\ \A h \in Holders : Balance[h] = Quantity(Held(h))
           /\ Balance' = [h \in Holders |-> Quantity(Held(h))']
<1>1. \A h \in Holders : Quantity(Held(h)) \in Nat
  BY HeldTyped
<1> QED
  BY <1>1 DEF Balance

\* mint and register: tokens appear at one holder or, of the (100) token alone,
\* at none.
LEMMA IssueLanded ==
    ASSUME IInv, NEW tx \in pool, ChainLands(tx), IssuesTokens(tx)
    PROVE  \/ Balance' = Balance
           \/ \E to \in Holders : /\ Balance'[to] > Balance[to]
                                  /\ Balance' = [Balance EXCEPT ![to] = Balance'[to]]
<1> DEFINE out == tx.tokensOut[1]
<1>1. out \in Output
  BY OutputsDeclared DEF IssuesTokens
<1>2. ASSUME NEW h \in Holders
      PROVE  /\ Quantity(Held(h)) \in Nat
             /\ Quantity(Held(h))' = Quantity(Held(h))
                       + IF out.owner = h /\ out.unit = "user" THEN out.qty ELSE 0
  <2>1. Held(h) \ tx.tokensIn = Held(h)
    BY DEF IssuesTokens
  <2>2. Quantity(Held(h) \ tx.tokensIn) = Quantity(Held(h))
    BY <2>1
  <2>3. Credit(tx, h, 2) = 0
    BY DEF Credit, IssuesTokens
  <2>4. Credit(tx, h, 1) = IF out.owner = h /\ out.unit = "user" THEN out.qty ELSE 0
    BY DEF Credit, IssuesTokens
  <2>5. Quantity(Held(h))' = Quantity(Held(h) \ tx.tokensIn)
                                      + Credit(tx, h, 1) + Credit(tx, h, 2)
    BY LandedBalance
  <2>6. Quantity(Held(h)) \in Nat /\ Credit(tx, h, 1) \in Nat
    BY HeldTyped, LandedBalance
  <2> QED
    BY <2>2, <2>3, <2>4, <2>5, <2>6
<1>3. /\ Balance \in [Holders -> Nat]
      /\ \A h \in Holders : Balance[h] = Quantity(Held(h))
      /\ Balance' = [h \in Holders |-> Quantity(Held(h))']
  BY BalanceTyped
<1>4. \A h \in Holders : Balance'[h] = Balance[h]
                       + IF out.owner = h /\ out.unit = "user" THEN out.qty ELSE 0
  BY <1>2, <1>3
<1>5. DOMAIN Balance' = Holders /\ Balance' = [h \in Holders |-> Balance'[h]]
  BY <1>3
<1>6. out.owner \in Holders /\ out.qty \in Nat \ {0}
  BY <1>1 DEF Output
<1> HIDE DEF out
<1>7. CASE out.unit = "user"
  <2>1. Balance'[out.owner] > Balance[out.owner]
    BY <1>3, <1>4, <1>6, <1>7
  <2>2. Balance' = [Balance EXCEPT ![out.owner] = Balance'[out.owner]]
    <3>1. \A h \in Holders : h # out.owner => Balance'[h] = Balance[h]
      BY <1>3, <1>4
    <3> QED
      BY <1>3, <1>5, <1>6, <3>1
  <2> QED
    BY <1>6, <2>1, <2>2
<1>8. CASE out.unit # "user"
  <2>1. \A h \in Holders : Balance'[h] = Balance[h]
    BY <1>3, <1>4, <1>8
  <2> QED
    BY <1>3, <1>5, <2>1
<1> QED
  BY <1>7, <1>8

\* burn: one holder loses what the output held.
LEMMA RedeemLanded ==
    ASSUME IInv, NEW tx \in pool, ChainLands(tx), RedeemsToken(tx)
    PROVE  \/ Balance' = Balance
           \/ \E from \in Holders : \E q \in 1..Balance[from] :
                 Balance' = [Balance EXCEPT ![from] = @ - q]
<1>1. PICK t \in tokens : tx.tokensIn = {t}
  BY DEF RedeemsToken
<1>2. t.owner \in Holders /\ t.qty \in Nat \ {0} /\ t.qty \in Int
  BY PoolTyped DEF Token
<1>3. ASSUME NEW h \in Holders
      PROVE  /\ Quantity(Held(h)) \in Nat /\ Quantity(Held(h))' \in Nat
             /\ Quantity(Held(h)) = Quantity(Held(h))'
                       + IF t.owner = h /\ t.unit = "user" THEN t.qty ELSE 0
  <2>1. Held(h) \cap tx.tokensIn = IF t.owner = h /\ t.unit = "user" THEN {t} ELSE {}
    BY <1>1 DEF Held
  <2>2. Quantity({}) = 0 /\ Quantity({t}) = t.qty
    BY <1>2, QuantityOfNone, QuantityOfOne
  <2>3. Quantity(Held(h) \cap tx.tokensIn)
           = IF t.owner = h /\ t.unit = "user" THEN t.qty ELSE 0
    BY <2>1, <2>2
  <2>4. Credit(tx, h, 1) = 0 /\ Credit(tx, h, 2) = 0
    BY DEF Credit, RedeemsToken
  <2>5. Quantity(Held(h))' = Quantity(Held(h) \ tx.tokensIn)
                                      + Credit(tx, h, 1) + Credit(tx, h, 2)
    BY LandedBalance
  <2>6. /\ Quantity(Held(h) \ tx.tokensIn) \in Nat
        /\ Quantity(Held(h)) = Quantity(Held(h) \ tx.tokensIn)
                                 + Quantity(Held(h) \cap tx.tokensIn)
    BY BalanceSplits
  <2>7. Quantity(Held(h)) \in Nat
    BY HeldTyped
  <2> QED
    BY <2>3, <2>4, <2>5, <2>6, <2>7
<1>4. /\ Balance \in [Holders -> Nat]
      /\ \A h \in Holders : Balance[h] = Quantity(Held(h))
      /\ Balance' = [h \in Holders |-> Quantity(Held(h))']
  BY BalanceTyped
<1>5. \A h \in Holders : /\ Balance[h] \in Nat /\ Balance'[h] \in Nat
                         /\ Balance[h] = Balance'[h]
                              + IF t.owner = h /\ t.unit = "user" THEN t.qty ELSE 0
  BY <1>3, <1>4
<1>6. Balance' = [h \in Holders |-> Balance'[h]]
  BY <1>4
<1>7. CASE t.unit = "user"
  <2>1. t.qty \in 1..Balance[t.owner] /\ Balance'[t.owner] = Balance[t.owner] - t.qty
    BY <1>2, <1>5, <1>7
  <2>2. Balance' = [Balance EXCEPT ![t.owner] = @ - t.qty]
    <3>1. \A h \in Holders : h # t.owner => Balance'[h] = Balance[h]
      BY <1>5
    <3> QED
      BY <1>2, <1>4, <1>6, <2>1, <3>1
  <2> QED
    BY <1>2, <2>1, <2>2
<1>8. CASE t.unit # "user"
  <2>1. \A h \in Holders : Balance'[h] = Balance[h]
    BY <1>5, <1>8
  <2> QED
    BY <1>4, <1>6, <2>1
<1> QED
  BY <1>7, <1>8

\* transfer and seize: what one holder loses the other one gets, change
\* included.
LEMMA MoveLanded ==
    ASSUME IInv, NEW tx \in pool, ChainLands(tx), MovesTokens(tx)
    PROVE  \/ Balance' = Balance
           \/ \E from, to \in Holders : \E q \in 1..Balance[from] :
                 /\ from # to
                 /\ Balance' = [Balance EXCEPT ![from] = @ - q, ![to] = @ + q]
<1> DEFINE n == Len(tx.tokensOut)
           out(i) == tx.tokensOut[i]
           total == Quantity(tx.tokensIn)
<1>1. PICK from \in Holders : /\ tx.tokensIn \subseteq Held(from)
                              /\ n = 2 => out(1).owner = from
  BY DEF MovesTokens
<1>2. /\ n \in {1, 2} /\ \A i \in 1..n : out(i) \in Output /\ out(i).unit = "user"
      /\ total = IF n = 1 THEN out(1).qty ELSE out(1).qty + out(2).qty
  <2>1. n \in 1..2 /\ \A i \in 1..n : out(i) \in Output
    BY OutputsDeclared DEF MovesTokens
  <2>2. \A i \in 1..n : out(i).unit = "user"
    BY DEF MovesTokens
  <2>3. total = IF n = 1 THEN out(1).qty ELSE out(1).qty + out(2).qty
    BY DEF MovesTokens
  <2> QED
    BY <2>1, <2>2, <2>3
<1> DEFINE to == out(n).owner
           q == out(n).qty
           change == IF n = 2 THEN out(1).qty ELSE 0
<1>3. to \in Holders /\ q \in Nat \ {0} /\ change \in Nat /\ total = q + change
  BY <1>2 DEF Output
<1>4. ASSUME NEW h \in Holders
      PROVE  /\ Credit(tx, h, 1) + Credit(tx, h, 2)
                   = (IF h = to THEN q ELSE 0) + (IF h = from THEN change ELSE 0)
             /\ Credit(tx, h, 1) \in Nat /\ Credit(tx, h, 2) \in Nat
  <2>1. Credit(tx, h, 1) \in Nat /\ Credit(tx, h, 2) \in Nat
    BY LandedBalance
  <2>2. CASE n = 1
    <3>1. Credit(tx, h, 2) = 0 /\ change = 0
      BY <2>2 DEF Credit
    <3>2. Credit(tx, h, 1) = IF h = to THEN q ELSE 0
      BY <1>2, <2>2 DEF Credit
    <3> HIDE DEF to, q, change
    <3> QED
      BY <1>3, <2>1, <3>1, <3>2
  <2>3. CASE n = 2
    <3>1. Credit(tx, h, 1) = IF h = from THEN change ELSE 0
      BY <1>1, <1>2, <2>3 DEF Credit
    <3>2. Credit(tx, h, 2) = IF h = to THEN q ELSE 0
      BY <1>2, <2>3 DEF Credit
    <3> HIDE DEF to, q, change
    <3> QED
      BY <1>3, <2>1, <3>1, <3>2
  <2> QED
    BY <1>2, <2>1, <2>2, <2>3
<1> HIDE DEF n, out, to, q, change
<1>5. ASSUME NEW h \in Holders
      PROVE  /\ Quantity(Held(h)) \in Nat /\ Quantity(Held(h))' \in Nat
             /\ h = from => Quantity(Held(h)) >= total
             /\ Quantity(Held(h))' + (IF h = from THEN total ELSE 0) = Quantity(Held(h))
                   + (IF h = to THEN q ELSE 0) + (IF h = from THEN change ELSE 0)
  <2>1. Held(h) \cap tx.tokensIn = IF h = from THEN tx.tokensIn ELSE {}
    BY <1>1 DEF Held
  <2>2. Quantity(Held(h) \cap tx.tokensIn) = IF h = from THEN total ELSE 0
    BY <2>1, QuantityOfNone
  <2>3. Quantity(Held(h))' = Quantity(Held(h) \ tx.tokensIn)
                                      + Credit(tx, h, 1) + Credit(tx, h, 2)
    BY LandedBalance
  <2>4. /\ Quantity(Held(h) \ tx.tokensIn) \in Nat
        /\ Quantity(Held(h)) = Quantity(Held(h) \ tx.tokensIn)
                                 + Quantity(Held(h) \cap tx.tokensIn)
    BY BalanceSplits
  <2> HIDE DEF total
  <2> QED
    BY <1>3, <1>4, <2>2, <2>3, <2>4
<1>6. /\ Balance \in [Holders -> Nat]
      /\ \A h \in Holders : Balance[h] = Quantity(Held(h))
      /\ Balance' = [h \in Holders |-> Quantity(Held(h))']
  BY BalanceTyped
<1> HIDE DEF total
<1>7. \A h \in Holders :
         /\ Balance[h] \in Nat /\ Balance'[h] \in Nat
         /\ h = from => Balance[h] >= total
         /\ Balance'[h] + (IF h = from THEN total ELSE 0) = Balance[h]
                   + (IF h = to THEN q ELSE 0) + (IF h = from THEN change ELSE 0)
  BY <1>5, <1>6
<1>8. Balance' = [h \in Holders |-> Balance'[h]]
  BY <1>6
<1>9. CASE from = to
  <2>1. \A h \in Holders : Balance'[h] = Balance[h]
    BY <1>3, <1>7, <1>9
  <2> QED
    BY <1>6, <1>8, <2>1
<1>10. CASE from # to
  <2>1. q \in 1..Balance[from]
    BY <1>3, <1>7
  <2>2. Balance'[from] = Balance[from] - q /\ Balance'[to] = Balance[to] + q
    BY <1>3, <1>7, <1>10
  <2>3. \A h \in Holders : h # from /\ h # to => Balance'[h] = Balance[h]
    BY <1>7
  <2>4. Balance' = [Balance EXCEPT ![from] = @ - q, ![to] = @ + q]
    BY <1>3, <1>6, <1>8, <1>10, <2>2, <2>3
  <2> QED
    BY <1>3, <1>10, <2>1, <2>4
<1> QED
  BY <1>9, <1>10

\* A transaction changes the list or the tokens, never both.
LEMMA LandedKeepsPromise ==
    ASSUME IInv, NEW tx \in pool, ChainLands(tx)
    PROVE  [Promise!Next]_<<Members(nodes), Balance>>
<1>1. /\ nodes' = (nodes \ tx.nodesIn) \cup tx.nodesOut
      /\ tokens' = (tokens \ tx.tokensIn) \cup ChainOutputs(tx)
  BY DEF ChainLands
<1>2. Settles(tx) /\ nodes \in SUBSET Node /\ BlacklistSound
  BY DEF IInv, TypeOK, Pending
<1>3. LeavesTokens(tx) => Balance' = Balance
  <2> SUFFICES ASSUME LeavesTokens(tx) PROVE Balance' = Balance
    OBVIOUS
  <2>1. ChainOutputs(tx) = {}
    BY OutputsDeclared DEF ChainOutputs, LeavesTokens
  <2>2. tokens' = tokens
    BY <1>1, <2>1 DEF LeavesTokens
  <2> QED
    BY <2>2 DEF Balance, Held
<1>4. LeavesList(tx) => Members(nodes)' = Members(nodes)
  BY <1>1 DEF LeavesList, Members
<1>5. CASE InitTx(tx) /\ LeavesTokens(tx)
  <2>1. nodes = {} /\ nodes' = {Origin}
    BY <1>1, <1>5 DEF IInv, Pending, InitTx
  <2>2. Members(nodes)' = Members(nodes)
    BY <2>1 DEF Members, Origin
  <2> QED
    BY <1>3, <1>5, <2>2
<1>6. CASE FreezeTx(tx) /\ LeavesTokens(tx)
  <2>1. PICK c \in nodes, k \in Holders :
             /\ Brackets(c, k) /\ tx.nodesIn = {c} /\ tx.nodesOut = Split(c, k)
    BY <1>6 DEF FreezeTx
  <2>2. Sound(nodes) /\ k \in Keys
    BY <1>2, HoldersAreKeys DEF BlacklistSound
  <2>3. nodes' = (nodes \ {c}) \cup Split(c, k)
    BY <1>1, <2>1
  <2>4. Members(nodes') = Members(nodes) \cup {k}
    BY <1>2, <2>1, <2>2, <2>3, MembersAfterSplit
  <2>5. k \notin Members(nodes)
    BY <1>2, <2>1, <2>2, BracketedIsNotMember
  <2>6. Promise!Freeze(k)
    BY <1>3, <1>6, <2>4, <2>5 DEF Promise!Freeze, Balance, Held
  <2> QED
    BY <2>6 DEF Promise!Next
<1>7. CASE UnfreezeTx(tx) /\ LeavesTokens(tx)
  <2>1. PICK r \in nodes, p \in nodes :
             /\ r.key \in Holders /\ p.next = r.key
             /\ tx.nodesIn = {r, p} /\ tx.nodesOut = Merge(p, r)
    BY <1>7 DEF UnfreezeTx
  <2>2. Sound(nodes) /\ r.key # 0
    BY <1>2, <2>1, HoldersAreKeys DEF BlacklistSound
  <2>3. nodes' = (nodes \ {r, p}) \cup Merge(p, r)
    BY <1>1, <2>1
  <2>4. Members(nodes') = Members(nodes) \ {r.key}
    BY <1>2, <2>1, <2>2, <2>3, MembersAfterMerge
  <2>5. r.key \in Members(nodes)
    BY <2>2 DEF Members
  <2>6. Promise!Unfreeze(r.key)
    BY <1>3, <1>7, <2>4, <2>5 DEF Promise!Unfreeze, Balance, Held
  <2> QED
    BY <2>1, <2>6 DEF Promise!Next
<1>8. CASE LeavesList(tx) /\ IssuesTokens(tx)
  <2>1. CASE Balance' = Balance
    BY <1>4, <1>8, <2>1
  <2>2. ASSUME NEW to \in Holders, Balance'[to] > Balance[to],
               Balance' = [Balance EXCEPT ![to] = Balance'[to]]
        PROVE  Promise!Next
    <3>1. Promise!Issue(to)
      BY <1>4, <1>8, <2>2 DEF Promise!Issue, Balance, Held
    <3> QED
      BY <3>1 DEF Promise!Next
  <2> QED
    BY <1>8, <2>1, <2>2, IssueLanded
<1>9. CASE LeavesList(tx) /\ RedeemsToken(tx)
  <2>1. CASE Balance' = Balance
    BY <1>4, <1>9, <2>1
  <2>2. ASSUME NEW from \in Holders, NEW q \in 1..Balance[from],
               Balance' = [Balance EXCEPT ![from] = @ - q]
        PROVE  Promise!Next
    <3>1. Promise!Redeem(from, q)
      BY <1>4, <1>9, <2>2 DEF Promise!Redeem, Balance, Held
    <3> QED
      BY <3>1 DEF Promise!Next, Balance, Held
  <2> QED
    BY <1>9, <2>1, <2>2, RedeemLanded
<1>10. CASE LeavesList(tx) /\ MovesTokens(tx)
  <2>1. CASE Balance' = Balance
    BY <1>4, <1>10, <2>1
  <2>2. ASSUME NEW from \in Holders, NEW to \in Holders, NEW q \in 1..Balance[from],
               from # to, Balance' = [Balance EXCEPT ![from] = @ - q, ![to] = @ + q]
        PROVE  Promise!Next
    <3>1. Promise!Move(from, to, q)
      BY <1>4, <1>10, <2>2 DEF Promise!Move, Balance, Held
    <3> QED
      BY <3>1 DEF Promise!Next, Balance, Held
  <2> QED
    BY <1>10, <2>1, <2>2, MoveLanded
<1> QED
  BY <1>2, <1>5, <1>6, <1>7, <1>8, <1>9, <1>10 DEF Settles

(* Transactions that race over UTxOs only ever freeze or unfreeze one      *)
(* holder, or move, issue or redeem tokens: what one holder loses the      *)
(* other gets, and no change of the blacklist moves a token.               *)
THEOREM ImplementsCompliance == Spec => KeepsPromise
<1>1. Init => Promise!Init
  <2>1. Quantity({}) = 0
    BY QuantityOfNone
  <2>2. ASSUME Init
        PROVE  Members(nodes) = {} /\ Balance = [h \in Holders |-> 0]
    <3>1. \A h : Held(h) = {}
      BY <2>2 DEF Init, Held
    <3> QED
      BY <2>1, <2>2, <3>1 DEF Init, Members, Balance
  <2> QED
    BY <2>2 DEF Promise!Init, Balance, Held
<1>2. ASSUME IInv, [Next]_vars PROVE [Promise!Next]_<<Members(nodes), Balance>>
  <2>1. CASE \E tx \in pool : ChainLands(tx)
    BY <1>2, <2>1, LandedKeepsPromise
  <2>2. CASE UNCHANGED <<nodes, tokens>>
    BY <2>2 DEF Members, Balance, Held
  <2>3. UNCHANGED <<nodes, tokens>> \/ \E tx \in pool : ChainLands(tx)
    <3>1. CASE Administers
      BY <3>1 DEF Administers, initCompliance, register, mint, burn, seize, freeze, unfreeze,
                  buildAndSerialize
    <3>2. CASE Transfers
      BY <3>2 DEF Transfers, transfer, buildAndSerialize
    <3>3. CASE \E tx \in pool : ChainForgets(tx)
      BY <3>3 DEF ChainForgets
    <3>4. CASE UNCHANGED vars
      BY <3>4 DEF vars
    <3> QED
      BY <1>2, <3>1, <3>2, <3>3, <3>4 DEF Next
  <2> QED
    BY <2>1, <2>2, <2>3
<1>3. IInv /\ [Next]_vars =>
        [Promise!Next]_<<Members(nodes),
            [h \in Holders |->
                Quantity({t \in tokens : t.owner = h /\ t.unit = "user"})]>>
  BY <1>2 DEF Balance, Held
<1> QED
  BY <1>1, <1>3, Invariance, PTL DEF Spec, KeepsPromise, Promise!Spec
=============================================================================
