---------------------------- MODULE LedgerOrder ----------------------------
(***************************************************************************)
(* The positions that redeemers carry (src/core/ledger-order.ts).  A       *)
(* builder lists reference inputs and withdrawals in the order it adds     *)
(* them; the ledger hands a script both in an order of its own, and a      *)
(* redeemer names an entry by its position there.                          *)
(*                                                                         *)
(* A hash is a hex string.  Bytes are what the ledger compares; the        *)
(* strings 2b and 2b + 1 spell the bytes b in lower and in upper case.     *)
(* A TxInput is <<txHash, outputIndex>>, a WithdrawalKey <<kind, hash>>    *)
(* with kind 0 for a script and 1 for a key.  An operation that may refuse *)
(* denotes a set: its result, or nothing.                                  *)
(***************************************************************************)
EXTENDS Integers, Sequences, FiniteSets

Bytes(hex) == hex \div 2

InputRank(i) == <<Bytes(i[1]), i[2]>>

ScriptKey(hash) == <<0, hash>>

\* Every script precedes every key, whatever the hashes.
KeyRank(k) == <<k[1], Bytes(k[2])>>

Precedes(p, q) == p[1] < q[1] \/ (p[1] = q[1] /\ p[2] < q[2])

Distinct(ranks) == \A i, j \in DOMAIN ranks : ranks[i] = ranks[j] => i = j

\* Variant: the place in the list the builder wrote.
AsListed(ranks, r) == {i - 1 : i \in {j \in DOMAIN ranks : ranks[j] = r}}

\* Sorting and then looking for r finds it after the entries that precede it.
IndexOf(ranks, r) ==
    IF \E i \in DOMAIN ranks : ranks[i] = r
    THEN {Cardinality({i \in DOMAIN ranks : Precedes(ranks[i], r)})}
    ELSE {}

InputRanks(all) == [i \in DOMAIN all |-> InputRank(all[i])]
KeyRanks(all) == [i \in DOMAIN all |-> KeyRank(all[i])]

referenceInputIndexOf(all, target) == IndexOf(InputRanks(all), InputRank(target))

withdrawalIndexOf(all, target) == IndexOf(KeyRanks(all), KeyRank(target))

\* The inputs of a set from first to last.
sortTxInputs(inputs) ==
    [n \in 1..Cardinality(inputs) |->
        CHOOSE i \in inputs :
            Cardinality({j \in inputs : Precedes(InputRank(j), InputRank(i))}) = n - 1]

\* The withdrawals of a transaction that spends programmable outputs: the
\* dispatcher is always one of them.
plbWithdrawalPlan(plg, others) ==
    LET all == <<plg>> \o others
    IN  {[all |-> all, plgIdx |-> n] :
            n \in IF Distinct(KeyRanks(all)) THEN withdrawalIndexOf(all, plg) ELSE {}}

outputIndexOf(outputs, tag) == {i - 1 : i \in {j \in DOMAIN outputs : outputs[j] = tag}}

\* source names the registry node of the policy: <<"output", tag>>, or
\* <<"reference-input", input>>.
ProofIndex(refs, outputs, source) ==
    IF source[1] = "output" THEN outputIndexOf(outputs, source[2])
                            ELSE referenceInputIndexOf(refs, source[2])

\* plg is <<key>> when programmable outputs are spent and << >> otherwise,
\* and then there is no plgIdx to ask for.
issuancePlan(logic, plg, others, refs, params, outputs, source) ==
    LET all == plg \o <<logic>> \o others
        plgIdx == IF plg = << >> THEN {-1} ELSE withdrawalIndexOf(all, plg[1])
    IN  {plan \in [all : {all}, plgIdx : plgIdx,
                   paramsIdx : referenceInputIndexOf(refs, params),
                   proof : {source[1]} \X ProofIndex(refs, outputs, source)] :
            /\ Distinct(KeyRanks(all))
            /\ Distinct(InputRanks(refs))
            /\ Distinct(outputs)}

-----------------------------------------------------------------------------
(* The ledger.                                                             *)

ChainAscending(f) == \A i, j \in DOMAIN f : i < j => Precedes(f[i], f[j])

\* A set of inputs or keys as a script sees it.
ChainOrder(ranks) == CHOOSE f \in [1..Cardinality(ranks) -> ranks] : ChainAscending(f)

\* The entry at position n, counted from 0, is r.
ChainFinds(ranks, n, r) ==
    n + 1 \in 1..Cardinality(ranks) /\ ChainOrder(ranks)[n + 1] = r
=============================================================================
