---------------------------- MODULE MultisigTree ----------------------------
(***************************************************************************)
(* The tree of an upgrade authority as the SDK writes, reads and evaluates *)
(* it (src/core/evo-utils.ts, src/standard/upgrade.ts), with the checks of *)
(* the encoder.  UpgradeLifecycle keeps only what a flat list decides.     *)
(*                                                                         *)
(* Encoding keeps every field, so equal bytes are equal trees here; a tree *)
(* the encoder refuses may still be on chain, and is evaluated.            *)
(* Recursion is by functions on the trees that occur.                      *)
(***************************************************************************)
EXTENDS Integers, SequencesExt

CONSTANTS
    KeyHashes, ScriptHashes,
    BadHashes,   \* not 28 bytes long
    Trees,       \* the trees that occur, with all that they are made of
    Depth,       \* of a tree; more than that of its members
    MULTISIG_MAX_SIZE

Signature(hash) == [type |-> "signature", hash |-> hash]
Script(hash) == [type |-> "script", hash |-> hash]
Before(time) == [type |-> "before", time |-> time]
After(time) == [type |-> "after", time |-> time]
AllOf(scripts) == [type |-> "all-of", scripts |-> scripts]
AnyOf(scripts) == [type |-> "any-of", scripts |-> scripts]
AtLeast(n, scripts) == [type |-> "at-least", required |-> n, scripts |-> scripts]

IsList(t) == t.type \in {"all-of", "any-of", "at-least"}

\* Trees have the shapes that MultisigScriptTree declares, and end.
ASSUME TreesAssumption ==
    /\ (KeyHashes \cup ScriptHashes) \cap BadHashes = {}
    /\ Depth \in [Trees -> Nat]
    /\ \A t \in Trees :
          \/ t \in [type : {"signature"}, hash : KeyHashes \cup BadHashes]
          \/ t \in [type : {"script"}, hash : ScriptHashes \cup BadHashes]
          \/ t \in [type : {"before", "after"}, time : Int]
          \/ t \in [type : {"all-of", "any-of"}, scripts : Seq(Trees)]
          \/ t \in [type : {"at-least"}, required : Int, scripts : Seq(Trees)]
    /\ \A t \in Trees :
          IsList(t) => \A n \in DOMAIN t.scripts : Depth[t.scripts[n]] < Depth[t]

multisigSize[t \in Trees] ==
    IF IsList(t) THEN 1 + FoldSeq(LAMBDA c, size : size + multisigSize[c], 0, t.scripts)
                 ELSE 1

\* Variants: no lower bound, no upper bound, a child that is counted twice.
AnyThreshold(t) == t.required <= Len(t.scripts)
Unreachable(t) == t.required >= 1
Repeatable(scripts) == scripts # << >>

ThresholdOk(t) == t.required >= 1 /\ t.required <= Len(t.scripts)

ChildrenOk(scripts) == scripts # << >> /\ IsInjective(scripts)

encodeMultisigNode[t \in Trees] ==
    IF IsList(t)
    THEN /\ t.type = "at-least" => ThresholdOk(t)
         /\ ChildrenOk(t.scripts)
         /\ \A n \in DOMAIN t.scripts : encodeMultisigNode[t.scripts[n]]
    ELSE t.type \in {"signature", "script"} => t.hash \notin BadHashes

\* What may be written.  Reading a datum back enforces none of this.
multisigScriptDatum(t) == multisigSize[t] <= MULTISIG_MAX_SIZE /\ encodeMultisigNode[t]

\* A bound of the validity interval is [time, inclusive], or << >> if absent.
MultisigEvidence(signatories, withdrawals, lower, upper) ==
    [signatories |-> signatories, withdrawals |-> withdrawals, lower |-> lower, upper |-> upper]

Signed(signatories) == MultisigEvidence(signatories, {}, << >>, << >>)

Within(low, high, inclusive) == IF inclusive THEN low <= high ELSE low < high

\* The verdict on a node, given the members of a list that are met.
Met(t, met, evidence) ==
    CASE t.type = "signature" -> t.hash \in evidence.signatories
      [] t.type = "script"    -> t.hash \in evidence.withdrawals
      [] t.type = "all-of"    -> met = DOMAIN t.scripts
      [] t.type = "any-of"    -> met # {}
      [] t.type = "at-least"  -> Cardinality(met) >= t.required
      [] t.type = "before"    ->
           /\ evidence.upper # << >>
           /\ Within(evidence.upper.time, t.time, evidence.upper.inclusive)
      [] t.type = "after"     ->
           /\ evidence.lower # << >>
           /\ Within(t.time, evidence.lower.time, evidence.lower.inclusive)

satisfiesMultisigTree(tree, evidence) ==
    LET go[t \in Trees] ==
          Met(t, IF IsList(t) THEN {n \in DOMAIN t.scripts : go[t.scripts[n]]} ELSE {}, evidence)
    IN  go[tree]

LeafKinds[t \in Trees] ==
    IF IsList(t) THEN UNION {LeafKinds[t.scripts[n]] : n \in DOMAIN t.scripts} ELSE {t.type}

unsupportedLeafKinds(t) == LeafKinds[t] \ {"signature"}
=============================================================================
