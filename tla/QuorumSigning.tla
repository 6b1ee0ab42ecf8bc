--------------------------- MODULE QuorumSigning ---------------------------
(***************************************************************************)
(* The rotation of an authority whose tree has any shape, from the build   *)
(* to the ledger (src/standard/upgrade.ts, src/provider/tx-utils.ts): the  *)
(* signers' wallets are asked one after the other, their witness sets are  *)
(* merged and counted, and only then is anything submitted.  Meanwhile     *)
(* another quorum may rotate the tree, and the caller may build again with *)
(* the sets of the first build still in hand.                              *)
(***************************************************************************)
EXTENDS MultisigTree

CONSTANTS
    NewTrees,       \* trees an operator may rotate to
    Wallets, Holds, \* the keys of each wallet
    Payer,          \* the key of the inputs that pay the fee
    None,
    MaxSets,        \* bound: witness sets in the caller's hands
    MaxMoves        \* bound: moves of the config NFT

ASSUME SigningAssumption ==
    /\ NewTrees \subseteq Trees
    /\ IsFiniteSet(KeyHashes) /\ Payer \in KeyHashes
    /\ Holds \in [Wallets -> SUBSET KeyHashes]
    /\ MaxSets \in Nat /\ MaxMoves \in Nat

VARIABLES
    tree,       \* the datum of the config UTxO
    moves,      \* how often that UTxO moved, which identifies it
    built,      \* the last transaction built: its body
    collected,  \* the witness sets the wallets returned, in order
    sent        \* the transaction submitted: [body, sets]

vars == <<tree, moves, built, collected, sent>>

Required(body) == body.signers \cup {Payer}

buildRotateMultisigTx(newTree, signerKeyHashes) ==
    /\ sent = None
    /\ unsupportedLeafKinds(tree) = {}
    /\ multisigScriptDatum(newTree)
    /\ newTree # tree
    /\ signerKeyHashes # {}
    /\ satisfiesMultisigTree(tree, Signed(signerKeyHashes))
    /\ built' = [ref |-> moves, newTree |-> newTree, signers |-> signerKeyHashes]
    /\ UNCHANGED <<tree, moves, collected, sent>>

\* A wallet signs with what it holds of the keys required, and succeeds with
\* an empty set when it holds none.
signTx(w) ==
    /\ built # None /\ Len(collected) < MaxSets
    /\ collected' = Append(collected,
           {[key |-> k, over |-> built] : k \in Holds[w] \cap Required(built)})
    /\ UNCHANGED <<tree, moves, built, sent>>

\* The caller throws the answers away.
StartOver ==
    /\ collected' = << >>
    /\ UNCHANGED <<tree, moves, built, sent>>

\* Merging accumulates, so a witness given twice is there twice; an empty set
\* merges without a word, and only an empty list of sets is refused.
assembleMultiSignedTx(body, sets) == [body |-> body, sets |-> sets]

\* Variant: the sets are counted, not what is in them.
countWitnessSets(tx) == Len(tx.sets)

countVKeyWitnesses(tx) == Cardinality(UNION {{n} \X tx.sets[n] : n \in DOMAIN tx.sets})

assertVKeyWitnessCount(tx, expected) == countVKeyWitnesses(tx) = expected

\* One sequential program, as in test/harness/upgrade-preview.ts, awaits what
\* it submitted before it builds again.
Submit ==
    /\ built # None /\ collected # << >>
    /\ sent' = assembleMultiSignedTx(built, collected)
    /\ assertVKeyWitnessCount(sent', Cardinality(Required(built)))
    /\ built' = None /\ collected' = << >>
    /\ UNCHANGED <<tree, moves>>

-----------------------------------------------------------------------------
(* The ledger.                                                             *)

Merged(tx) == UNION {tx.sets[n] : n \in DOMAIN tx.sets}

ChainValidates(tx) ==
    /\ \A w \in Merged(tx) : w.over = tx.body
    /\ Required(tx.body) \subseteq {w.key : w \in Merged(tx)}
    /\ satisfiesMultisigTree(tree, Signed(tx.body.signers))

ChainSettles ==
    /\ sent # None /\ sent' = None
    /\ IF sent.body.ref = moves /\ ChainValidates(sent)
       THEN /\ moves < MaxMoves
            /\ tree' = sent.body.newTree /\ moves' = moves + 1
       ELSE UNCHANGED <<tree, moves>>
    /\ UNCHANGED <<built, collected>>

\* Another quorum of the authority, with the same encoder.
ChainRotates(newTree) ==
    /\ moves < MaxMoves
    /\ multisigScriptDatum(newTree)
    /\ tree' = newTree /\ moves' = moves + 1
    /\ UNCHANGED <<built, collected, sent>>

-----------------------------------------------------------------------------
Init ==
    /\ tree \in {t \in Trees : multisigScriptDatum(t)}
    /\ moves = 0
    /\ built = None
    /\ collected = << >>
    /\ sent = None

Next ==
    \/ \E t \in NewTrees, s \in SUBSET KeyHashes : buildRotateMultisigTx(t, s)
    \/ \E w \in Wallets : signTx(w)
    \/ StartOver
    \/ Submit
    \/ ChainSettles
    \/ \E t \in NewTrees : ChainRotates(t)

Spec == Init /\ [][Next]_vars

-----------------------------------------------------------------------------
(* Properties.                                                             *)

\* No authority that the SDK writes acts on no evidence at all, and none
\* without a time leaf acts on a validity interval alone (encodeChildren: an
\* empty AllOf is a permissionless authority).
NeverPermissionless ==
    LET bound == [time |-> 1, inclusive |-> TRUE]
        timed == MultisigEvidence({}, {}, bound, bound)
    IN  /\ ~satisfiesMultisigTree(tree, Signed({}))
        /\ LeafKinds[tree] \cap {"before", "after"} = {} => ~satisfiesMultisigTree(tree, timed)

\* No authority that the SDK writes is beyond everybody's reach, which would
\* be "the one mistake with no repair path" (upgrade.ts:552): every key and
\* every script together satisfy it, unless it has a time leaf, and every key
\* does in a transaction that buildRotateMultisigTx builds.
NeverUnsatisfiable ==
    LeafKinds[tree] \cap {"before", "after"} = {} =>
        satisfiesMultisigTree(tree,
            MultisigEvidence(KeyHashes,
                IF unsupportedLeafKinds(tree) = {} THEN {} ELSE ScriptHashes, << >>, << >>))

\* A quorum of signature leaves counts people: however it is written, as many
\* different keys as it requires have to sign (encodeChildren: "[A, A, B] at
\* threshold 2 is met by A alone").
SignersCountOnce ==
    tree.type = "at-least" /\ (\A n \in DOMAIN tree.scripts : tree.scripts[n].type = "signature") =>
        \A s \in SUBSET KeyHashes :
            satisfiesMultisigTree(tree, Signed(s)) =>
                Cardinality(s \cap {tree.scripts[n].hash : n \in DOMAIN tree.scripts})
                    >= tree.required

(* What is submitted over a config UTxO that is still there is refused     *)
(* only for what counting cannot see: a set merged twice, or one made for  *)
(* an earlier build.  A wallet that signed nothing never gets so far, and  *)
(* a quorum that the preflight accepted is one.                            *)
RefusalsUnderstood ==
    sent # None /\ sent.body.ref = moves =>
        \/ ChainValidates(sent)
        \/ \E i, j \in DOMAIN sent.sets : i # j /\ sent.sets[i] \cap sent.sets[j] # {}
        \/ \E w \in Merged(sent) : w.over # sent.body
=============================================================================
