# A verification of the CIP-113 SDK

`cip113-sdk-ts` builds Cardano transactions for programmable tokens (CIP-113).
It never signs, submits or stores anything: a call reads UTxOs, computes one
unsigned transaction and forgets it. What makes it hard is therefore not its
own state but what happens between a build and its landing, and between one
call and the next: other people's transactions, stale reads, a step built
twice, coin selection that takes an output a later step needs. The models here
put the builders of the SDK on a ledger with several transactions in flight,
and ask what stays true.

The modules model-check with TLC; the theorems are checked with TLAPS.

## 1. Inventory

| Part | Source | State it keeps or moves | Operations | Status |
|---|---|---|---|---|
| Upgrade lifecycle | `src/standard/upgrade.ts` | params UTxO (datum, lovelace), config UTxO per authority, reward accounts | rotate, protocol upgrade, nominate, promote, stand-alone genesis, register credential, locate | `UpgradeLifecycle` |
| Freeze-and-seize | `src/substandards/freeze-and-seize/` | blacklist nodes, programmable outputs, blacklist seed, registry node, reward accounts | init, register, mint, burn, transfer, initCompliance, freeze, unfreeze, seize | `FreezeAndSeize` |
| Bootstrap | `src/standard/bootstrap.ts`, driven by `test/harness/bootstrap.ts` | three seeds, the plan, config UTxOs, accounts, the deployment record | seed, select, plan, multisig genesis, vet, register, protocol genesis, publish, assemble | `Bootstrap` |
| Script derivation, deployment assertion | `src/standard/scripts.ts` | none (pure) | createStandardScripts, derive, assert, build | `Deployment` (partly) |
| Authority trees | `src/core/evo-utils.ts`, `upgrade.ts` | none | encode (with its checks), evaluate, size, leaf kinds | `MultisigTree`; flat trees in `UpgradeLifecycle` |
| Witness assembly | `src/provider/tx-utils.ts`, driven by `test/harness/upgrade-preview.ts` | the witness sets in the caller's hands | sign, merge, count, submit | `QuorumSigning` |
| Dummy substandard | `src/substandards/dummy/` | programmable outputs, registry nodes | register, mint, burn (refused), transfer, thirdPartyTransfer | `Dummy` |
| Façade | `src/index.ts` | the map of substandards | init, registerSubstandard, routing by id, try-all fall-back, compliance | `Facade` |
| Ledger ordering | `src/core/ledger-order.ts` | none | positions of inputs and withdrawals, the two plans | `LedgerOrder` |
| Registry reads | `src/core/registry.ts`, `registry-guard.ts` | the registry list | find node, find covering node, sort inputs | in `Dummy`, `FESTransactions`, `LedgerOrder` (partly) |
| Wallet selection, datum guards | `src/core/evo-utils.ts` | none | spendableWalletUtxos, selectUtxosForAmount, assertNoDatumLoss, assertNotReferenceToken | in `FreezeAndSeize` and `Dummy` (partly) |
| Min-UTxO sizing | `src/core/evo-utils.ts` | none | minUtxoAtLeast | in `UpgradeLifecycle` (partly) |
| Blueprint gate, CIP-171, provenance | `src/standard/blueprint.ts`, `src/core/cip171.ts`, `provenance.ts` | none | version order, codec | not modelled |
| Address guards, interfaces, types | `substandards/address-guard.ts`, `types.ts` | none | total functions, declarations | not modelled |

How they interact. The **bootstrap** creates what everything else reads: the
script hashes (through **script derivation**), the params UTxO, the config UTxO
of the founding authority, the six reward accounts and the reference scripts.
Its last output, the deployment record, is the input of the **façade**, whose
`init` asserts it and hands it to the **substandards**. Those share the
programmable outputs and the registry, and read the reference scripts; the
**upgrade lifecycle** spends the params UTxO, which every mint references. All of
them compute positions with **ledger ordering** and end in one unsigned
transaction, whose signatures **witness assembly** merges. There is no shared
memory: they meet on the ledger only.

Hard behaviours, by part, and the properties that answer them:

* *Upgrade lifecycle.* Builds race on the params UTxO and on the config UTxO they
  reference; a rotation may land under a promotion; the offline port of
  `multisig.satisfied` must agree with the validator; the params output widens
  and narrows; the authority may be one that this deployment never heard of.
  Correct when: preflights leave only the refusals nobody can see offline, and
  refuse nothing that is lawful; nobody but its own authority can hold up an act;
  lovelace is never drained.
* *Freeze-and-seize.* Freezes and unfreezes built on the same nodes; a transfer
  whose proof predates the freeze; partial selections with change; metadata that
  a spend would erase. Correct when: each holder has exactly one verdict, no
  transfer lands for a listed sender, tokens move as an abstract ledger of
  balances allows, metadata stays with its issuer.
* *Bootstrap.* Five dependent steps, each of which may be built again while the
  first is in flight; a lagging indexer; a coin selection that takes whatever it
  is shown; strangers at the authority's address. Correct when: no seed is lost
  before its step, the irreversible genesis activates the authority asked for,
  the record says what the chain did, and the sequence ends.
* *Façade and substandards.* Any failure of one substandard, a time-out
  included, offers the call to the next; plugins come and go under an id;
  registrations of several substandards race for one covering node. Correct when:
  only a token's own plugin ever gets an accepted transaction for it, and the
  registry stays a sound list.
* *Ledger ordering.* A redeemer holds positions in lists that the ledger sorts;
  one entry more shifts them all. Correct when: every position resolves to what it
  was computed for.
* *Authority trees and witness assembly.* A threshold off by one makes an
  authority that anybody or nobody satisfies, for good; a wallet without the key
  answers with an empty set. Correct when: no tree the encoder lets through is of
  that kind, signers are counted as people, and what is submitted is refused only
  for what a count cannot see.

The full list, with lines, is in `PROJECT.json` under `hazards`.

## 2. Modules

| Module | Models | Lines of code it stands for |
|---|---|---|
| `UpgradeLifecycle` | the seven builders of `upgrade.ts` on the ledger | `upgrade.ts`, tree helpers of `evo-utils.ts` |
| `SortedList` | covering, splitting and merging the nodes of a list | `findBlacklistCoveringNode`, the datums of freeze and unfreeze |
| `Quantities` | the value of a set of outputs | external |
| `FreezeAndSeize` | the nine operations of the substandard on the ledger | `freeze-and-seize/index.ts` |
| `Compliance` | abstract: who is frozen, who holds how much | refined by `FreezeAndSeize` |
| `Deployment` | the chain of script hashes, the record and its assertion | `scripts.ts`, `planBootstrap`, `assembleDeploymentParams` |
| `Bootstrap` | the step builders, the gate, the caller and the ledger | `bootstrap.ts`, `test/harness/bootstrap.ts` |
| `LedgerOrder` | the ledger's order and the positions computed in it | `ledger-order.ts`, `registry.ts` |
| `ProgrammableLedger` | registry, tokens, blacklists and validators, shared by all substandards | external |
| `Dummy` | what each operation of the dummy builds | `dummy/index.ts` |
| `FESTransactions` | what each operation of freeze-and-seize builds, down to the positions | `freeze-and-seize/index.ts` |
| `Facade` | the plugin map and its routing over that ledger | `index.ts` |
| `MultisigTree` | trees of any shape: encoder, evaluation | `evo-utils.ts`, `upgrade.ts` |
| `QuorumSigning` | a rotation from build to verdict, with several signers | `tx-utils.ts`, `buildRotateMultisigTx`, `upgrade-preview.ts` |
| `MC…` | instances for TLC | |
| `…Proofs` | theorems | |

Conventions. A builder of the SDK is one action with the builder's name; its
early returns and thrown errors are guards. Building adds a transaction to
`pool`, landing takes it out: in between anything may happen, and a transaction
may be dropped. A builder that awaits several reads is still one action,
because a transaction lands only when all it read is still unspent, so a build
spread over a change of the chain yields a transaction that one step also
yields, or one that never lands. Names that begin with `Chain` are the ledger
and the on-chain validators, which are not part of the repository; they are
modelled from what the builders and their comments rely on. Definitions marked
"Variant" are deliberately wrong forms of the definition below them; no
specification uses them, they are there to show that the properties notice.

### UpgradeLifecycle

`params` is the params UTxO: how often its NFT moved (`ref`, which identifies
the UTxO), its lovelace and its datum of wiring, `upgradeCred` and
`pendingUpgradeCred`. `config[a]` is the config UTxO of the authority `a`;
`registered` the reward accounts. A tree is abstracted to a threshold over
signature leaves and a gate that stands for before/after/script leaves, the two
things its builders tell apart. min-UTxO grows with the tree (config) and with
the nominee (params); the figures are ranks, not lovelace. Key credentials may
register and deregister their own account at any time. Wiring, credentials and
trees include malformed ones, so that the refusals are exercised.

The builders of this module are operators, as in the code they are functions: a
set with one transaction, or the empty set for a refusal, and `Adds` puts what was
built into the pool. So a property can speak of what a builder would return, which
`NothingLawfulRefused` does. A params spend carries its set of `withdrawals` and
the config UTxO it references for each script among them: one withdrawal, as the
code chooses, although the validator looks for a key in the list and would admit
more. `HeldUpByItsActorAlone` rests on that choice. That authority moves only with
its successor's consent, and never to a script without an account, is enforced by
the validators whatever the SDK writes. It is a fact about code outside this
repository and not stated as a property here.

### FreezeAndSeize

`nodes` is the blacklist, a set of nodes `[key, next]` whose keys are ranks of
staking credential hashes; `tokens` the programmable outputs with owner, unit
(user (333) or reference (100)), quantity and datum; `live` the one-of-a-kind
outputs (blacklist seed, registry, reference scripts) that are unspent.
A transaction records what it spends, what it references and what it creates.
The ledger enforces the UTxO rules, reward accounts and the admin's signature
**and nothing else**: the validators would refuse more, so what is shown holds of
what the builders write, not of what a validator would have caught. Holders may
freeze, unfreeze and transfer with any payer; selection may pick any minimal
subset a provider's order can produce.

### Deployment and Bootstrap

A script hash is a term: the validator's title and its parameters in order. Two
hashes are equal exactly when the terms are, which is what a collision-free hash
of the applied code gives; the Plutus bytes are left out. `planBootstrap`,
`assembleDeploymentParams` and the ten comparisons of `deriveDeploymentScripts`
are operators on such terms. `assertDeploymentScripts` compares nothing for
`always_fail` and `issuance_mint`, here as in the code.

`caller` is the program driving the bootstrap: the steps it has seen land, its
plan, the tree it last asked for and the config UTxO the gate returned.
`unspent` are the outputs of the seed transaction still in the wallet;
`Reserves` says which of them the caller keeps out of a step's
`availableUtxos`. Coin selection may add any subset of what it is shown, and
there are always other wallet UTxOs, so a step is never short of funds. The
caller moves on when it has seen a step land, but may build the step again
before that, with another tree for the second step. Anyone may pay to the
authority's address, and whoever satisfies the tree may rotate it. The caller
names a signer of the tree it asked for, and trees are any-of key sets: which
quorums a tree accepts is the business of `UpgradeLifecycle`.

Left out: min-UTxO and transaction-size refusals, the CIP-171 metadatum, and a
second seed transaction (it would be another instance).

### LedgerOrder, ProgrammableLedger, Dummy, FESTransactions, Facade

A transaction of `ProgrammableLedger` is what its builder lists: reads, spends,
withdrawals and outputs in the builder's order, and redeemers that are records of
positions. The validators resolve each position in the ledger's own order
(`ChainFinds` over `ChainOrder`), so that a position is right only if the code's
arithmetic is. `LedgerOrder` is that arithmetic: a transaction id or a hash is a
number read as bytes in lower or upper case (`compareHex`), scripts come before
keys, and a position is the number of entries that sort before.

The operations of `Dummy` and `FESTransactions` are sets: everything the builder
may return for these arguments, empty when it throws. `Facade` calls them through
its map. `tryAllSubstandards` is the whole map, because any plugin before the one
that answers may have failed for a reason of its own; the order of the map decides
nothing that can be told apart. Building evaluates the scripts, so an unaccepted
build fails in the call; what was built lands at once or, for `Delayed`
operations, after others. Two instances of freeze-and-seize in one process have
the same id: the later registration replaces the earlier.

`FreezeAndSeize` and `FESTransactions` divide the substandard: the first has the
list of blacklist nodes, partial selections and races between all of them, and
names inputs directly; the second has one set of frozen holders and every position
and reference. The registry is a `SortedList` of nodes in the second and one
output in the first.

Left out: lovelace, the address guards, the encoders of redeemers (a redeemer is
the record itself), and the registry validator's own bracket check on an
insertion, so that `DirectorySound` rests on what the builders choose to split and
on the UTxO rules alone.

### MultisigTree, QuorumSigning

Trees are records of any depth. `Trees` is the set of those that occur, closed
under what they are made of, and `Depth` a measure that falls from a list to its
members, which every finite tree has; the encoder's checks, the size, the walk
over the leaves and the evaluation are recursive functions on that set. A tree read from a datum is not checked by the code, and not
here. `QuorumSigning` takes one rotation from the build to the ledger's verdict:
wallets are asked in any order and as often as one likes, the sets they return are
merged and counted against the number of keys required (the tree's signers and
the payer of the fee, as the harness counts them), and only then submitted. The
caller may build again with old sets in hand, or throw them away; another quorum
may rotate the tree in between. A wallet that holds none of the required keys
returns an empty set and succeeds. `UpgradeLifecycle` keeps of a tree what a flat
list decides, and races the rotation with the other builders.

## 3. Runs

| Run | Question | Bounds | Result |
|---|---|---|---|
| `UpgradeRaces` | builds racing over two multisig authorities: what is refused, and who can hold an act up? | 2 keys, 2 trees + the founder's, 2 in flight, 3 params moves, 2 rotations | `TypeOK`, `RefusalsExplained`, `ParamsAdaNeverDrained`, `HeldUpByItsActorAlone` hold |
| `UpgradeInputs` | one transaction at a time over every kind of input: do the preflights and the validators agree, in both directions? | 2 keys, one of them an authority; malformed credential and wiring; gated, unsatisfiable, trivial and oversized trees; 1 in flight, 3 params moves, 2 rotations | `RefusalsExplained`, `NothingLawfulRefused` hold |
| `RotationFunded` | does a rotation always carry enough lovelace? | as `UpgradeRaces` | violated (finding 1) |
| `Custody` | transfers, freezes and the issuer's operations racing over two holders' split amounts | 3 outputs, supply 3, 2 in flight | `TypeOK`, `MetadataKept`, `FrozenCannotSend` and the refinement `KeepsPromise` hold |
| `BlacklistRaces` | freezes and unfreezes of neighbours on one list | 4 holders, up to 5 nodes, 3 in flight | `BlacklistSound` holds |
| `SkippedInit` | does a deployment without `compliance.init()` look healthy? | 1 token | violated (finding 2) |
| `ScriptsKept` | does any builder spend a reference script? | scripts in the admin's wallet | violated (finding 3) |
| `BootstrapRetried` | steps retried, any coin selection, lagging view | 4 seed outputs, 2 trees, 2 in flight, 1 rotation, 1 decoy | `TypeOK`, `SeedsKept`, `AuthorityAsAsked`, `RecordTrue` hold; so does `Completes`, under `FairSpec` |
| `HarnessSeeds` | does the devnet harness keep its seeds? | the lists the harness passes | violated (finding 4) |
| `Routing` | a dummy, a freeze-and-seize instance and one without publish handlers in one process | 2 holders, 1 of them ever frozen; 2 outputs, 2 tokens a policy, 3 ids for new transactions, 1 registration in flight | `TypeOK`, `DirectorySound`, `OwnBuildsAccepted`, `OnlyOwnerServes`, `FrozenTokensStay` hold |
| `FreezeReachesToken` | two instances of freeze-and-seize in one process: does a freeze hold for the policy it names? | 1 output, 1 token a policy | violated (finding 5) |
| `Signing` | every authority tree of two levels, and its rotation | 2 keys, a script, a hash of the wrong length, both time leaves; lists of up to 3; size at most 6; 3 wallets, 2 sets in hand, 1 move | `NeverPermissionless`, `NeverUnsatisfiable`, `SignersCountOnce`, `RefusalsUnderstood` hold |

Why the bounds are enough. Two transactions in flight give every pairwise race.
`BlacklistRaces` has three, because an insertion and a removal may each move the
neighbour of the other and of a third. `MaxRef = 3` covers nominate,
promote and nominate again, which is when the lovelace figure and the two
authority fields have gone through every shape; two rotations go away from a
tree and back. Four holders make a list with neighbours on both sides of an
insertion and a removal, and both ends. Supply 3 over three
outputs allows selections of one and two outputs, with and without change. Four
seed outputs are the three seeds and the change, the one that a lagging view may
promote to a seed. `Custody` and `BlacklistRaces` divide the question because
the product is too large: the first has amounts, two holders and the races of
freezes with transfers, the second has four holders and the races of freezes and
unfreezes among themselves.

In `Routing` the ids of new transactions sort before, between and after those of
the deployment, and the hashes of the plugins' scripts sort on both sides of the
dispatcher, so that every position a builder computes takes more than one value.
Two tokens over two outputs give a whole, a partial and a two-input selection. One
registration in flight races with one that lands at once; a third would race with
one of the two. No transfer waits in this run, because the product with the
registrations is too large: that a transfer whose sender is frozen between its build
and its landing does not land is left to the theorem `FrozenTokensAreKept`, which
lets every operation wait. In `Signing` the lists go one above every threshold, up to a
quorum of two with a child listed twice; two sets are the two signers', one of
them twice, one of an idle wallet, or one of an earlier build. Trees that the
encoder refuses are offered to it as well, to found the authority and to rotate
to.

In the runs of `Bootstrap` deadlock is not checked: a bootstrap ends, and
nothing is left to do once the record is assembled and the mempool is empty.

`Completes` is `[]<>(record # None \/ Refused)`: always again, there is a record
or the gate is refusing a tree that was not the one asked for (somebody rotated
it first, or the retry with the first tree landed). It is checked with two
transactions in flight. The fairness is that of
`test/harness/bootstrap.ts`, one sequential program that awaits each transaction
and polls the indexer: weak fairness on each kind of thing it does, and on the
settlement of what is in the mempool. Nothing else is assumed fair, not the
strangers and not the indexer beyond that a view with three seeds is eventually
seen. The other specifications state no fairness, because the code schedules
nothing: a builder is called or it is not, and nothing has to be submitted.

### Findings

1. **A rotation to a larger tree may be underfunded.** `buildRotateMultisigTx`
   (`upgrade.ts:628`) carries the input's lovelace forward, which its comment at
   485 calls already valid "for an output of this shape". The tree is part of the
   output. `buildParamsSpend` re-floors the same case (825-850).
2. **README.md:196** says that a deployment without `compliance.init()` looks
   healthy through register, mint and seize. All three withdraw from
   `issuer_admin`, which only `initCompliance` registers.
3. **Reference scripts are not off limits everywhere.** `evo-utils.ts:1384`
   forbids spending them; `transfer` hands coin selection the whole wallet, and
   `initCompliance` and `register` name no list.
4. **The harness does not reserve the seeds in step 3.** Its comment at 393 and
   `bootstrap.ts:868` ask for it. Registrations came last up to 0.11; when they
   moved ahead of the genesis, `await spendable()` (586) stayed as it was.
5. **A freeze may miss the token it names.** `freeze` (`freeze-and-seize/index.ts:1463`)
   ignores `tokenPolicyId`, which mint, burn, transfer and seize compare with the
   instance's policy. `docs/substandards/freeze-and-seize.md:205` promises of the
   call with that policy that the address can no longer transfer. With two
   instances in one process, one id stands for the later one, and a freeze for the
   first's token lands on the second's list.

Two more observations without a run. `design/bootstrap-export.md` §4 still
describes the order of 0.11, with registrations last; `BOOTSTRAP_STEPS` is the
newer fact. And a record whose `issuance` or `upgradeMultisig` section belongs to
another instance passes `assertDeploymentScripts`, because no comparison ties
`registry.issuanceScriptHash` to `issuance.policyId`, or either seed to the
other; the theorem `DispatcherIdentifies` says which fields are tied.

## 4. Theorems

All hold for every value of the constants that satisfies the named assumptions
(`SetsAssumption`, `GenesisAssumption`, `HoldersAssumption`,
`MaxNextAssumption`, `BootstrapAssumption`, `TreesAssumption`,
`SigningAssumption`, `InstancesAssumption`,
`OutputsAssumption`, `BoundsAssumption`, `WalletsAssumption`,
`ConfiguredAssumption`), which TLC evaluates in the runs. Those of the shared
ledger are what a chain gives: hashes are numbers and no two scripts have the
same; the outputs of the deployment are told apart, their transaction ids are
spelled in one way, as they come out of one decoder, and the id of a new
transaction is new.

* `UpgradeLifecycleProofs`. `TypeCorrect`, `BuildsAreAccepted`, `AdaOnlyRises`,
  `OwnActorOnly` and `LawfulIsBuilt`. Whether a landing is right depends on what the
  transaction was built on, so the strengthening `IInv` is `TypeOK /\ PoolSound /\
  ConfigSound`. `PoolSound` says that every transaction in flight is sound for as
  long as the UTxOs it names are current (and a `ref` never comes back); of a params
  spend it says too that it withdraws from the authority whose act it is and from
  nothing else, which is what `OwnActorOnly` turns on. `ConfigSound` says that every
  located tree is well formed; `LawfulIsBuilt` needs it, for a rotation without a
  signer is refused, and only a tree that asks for none could do without.
* `SortedListProofs`. Lemmas on lists of any length: the origin is sound, and
  splitting a covering node and merging a node into its predecessor keep
  soundness and add or remove one key; a bracketed key is not a member, and two
  nodes have two keys.
* `QuantityProofs`. The value of a set of outputs is a fold over the set in an
  order that `CHOOSE` picks. `QuantityOfUnion`: the values of two disjoint finite
  sets add up; with it, adding or removing one output adds or removes its
  quantity, and the value is a number. Induction over a set is out of the
  provers' reach, so sums are shown to exist as functions on the subsets of the
  set, by a smallest counterexample: a set of least cardinality without one.
* `FreezeAndSeizeProofs`. `TypeCorrect`, `BlacklistStaysSound`, `MetadataStays`,
  `FrozenNeverSends`, and the refinement `ImplementsCompliance`. The strengthening
  `IInv`: the types, a finite set of tokens, a sound list, a one-shot seed (the list
  is empty while it lives), metadata with the issuer, and every transaction in
  flight `Pending`. That predicate has two halves. The nodes and tokens it names
  are those of now, for otherwise it would have left the pool: its covering node
  brackets its target, the proof of a transfer its sender. And what it writes
  follows from them: it edits the list or moves tokens, never both, and if it moves
  tokens then they are one holder's, and the outputs add up to them, with any change
  going back to that holder. A landing is thus an edit of the list, an issue, a
  redemption or a move, and each is a step of `Compliance`, or a stutter: the balances before and after
  are sums over the tokens of one holder, split by `BalanceSplits` into what the
  transaction spends and what it leaves.
* `BootstrapProofs`. `AuthorityStaysAsAsked`: a genesis in flight reads the config
  UTxO the gate passed, and the tree asked for no longer changes once the gate has
  passed. `HeldBackSeedsAreKept`: under the hypothesis `ReservesCover` (steps two
  and three hold back the protocolParams and issuance seeds) no seed is lost. It is
  a hypothesis and not an assumption on the constants, because the harness does not
  meet it. The strengthening says what a transaction in flight may take: the
  upgradeMultisig seed only in step two or after it has landed, the others only in
  step four or after that. Its first part is about `Deployment`:
  `AssembledReproduces`, what a bootstrap writes down passes the assertion, for
  every configuration; and `DispatcherIdentifies`, two records that pass with one
  dispatcher hash agree on everything that hangs off it.
  `RecordStaysTrue` and `BootstrapTypeCorrect` are its last part. The record is
  written from the plan, the chain is changed by transactions: the strengthening
  `RInv` says what every transaction in flight carries of the plan, what the genesis
  and the published scripts keep of it, that the authority's seed is gone once its
  step has landed, and that a record is the one assembled from plan and gate. The
  type invariant needs `TreeAskedFor`, or the gate might return a decoy.
* `QuorumSigningProofs`. `NobodyActsAlone`, `SomebodyCanAct`, `QuorumsCountPeople`,
  `CountingSuffices` and `MoreEvidenceSuffices`, for trees of any depth. That a
  function on trees exists at all is `RecursionOnTrees`: solutions on the trees
  below each depth, by a least depth without one, agree with each other. What holds
  of all trees is then shown by a shallowest counterexample. Of a shallowest tree
  that nobody's evidence satisfies no member is met, and a list of which nothing is
  met holds only if it is empty or its threshold is below one, which the encoder
  refuses; the dual shows that everybody together satisfies it. A quorum needs as
  many keys as its threshold because its leaves are told apart, so that leaves that
  are met and keys that signed are matched one to one; the same matching, of
  witnesses and required keys, turns a count that is right into a set that is
  complete. The strengthening `IInv`: the sitting tree and those of rotations in
  hand passed the encoder, the sitting tree accepts the signers of a rotation while
  its config UTxO is there, and every witness is of a key required of its body.
* `LedgerOrderProofs`. `PositionResolves`: in any enumeration of distinct entries
  that ascends, an entry sits at the number of entries that precede it. The proof
  counts: the positions below are an initial segment, and its cardinality is the
  position. `ReferenceInputResolves`, `WithdrawalResolves` and `PlgIdxResolves` are
  its instances for the three lists the builders index, for either spelling of a
  hash. They speak of any ascending enumeration; `PositionFound` adds that there is
  one. The places that `sortTxInputs` counts are an injection of the entries into
  1 to N, and hence onto, so that the position the code computes is the one at which
  a validator's lookup finds the entry; and `SortedFound`, the n-th of what
  `sortTxInputs` returns is the n-th input that a validator sees.
* `FacadeProofs`. `TypeCorrect`, `DirectoryStaysSound`, `OwnersRefusalIsFinal`,
  `FrozenTokensAreKept` and `OwnBuildsLand`. The strengthening `IInv` has three parts. `LedgerInv` is about
  the chain: the directory is a sound list whose nodes are the registered keys; the
  registry node of a policy names the logic of the instance that issues it; the
  UTxOs of entries, tokens, lists and scripts are typed and told apart. `PoolInv` is
  about what is in flight: it is `Placed`, every registration splits the node that
  covers its policy and reads or spends its UTxO, so that it leaves the pool when
  that node changes; and it is `Written` as its builder writes it. `PluginsInv`: the
  map holds instances. `OwnersRefusalIsFinal` needs the registry: a build by the
  wrong plugin withdraws from its own logic, and the node names another.

  `FrozenTokensAreKept` is about every transaction that could take a listed holder's
  token, those that wait in the pool included. Its strengthening `SpendsInv` says
  that a transaction under way spends outputs that are still there, and of the
  programmable ones only those of the policy it names: a landing removes from the
  pool whatever shares an input with it, and its own outputs have an id that nobody
  has picked. The transaction then runs either the transfer logic, which looks at
  the list as it is when it lands, or the minting logic as authority, which asks for
  the admin's signature; `NodesInv` is what makes these two the only ones.

  `OwnBuildsLand` is the converse, that what a plugin builds for its own token
  passes every validator in the state it was built in. There is one lemma for each
  builder, and each settles the conjuncts of `ChainAccepts`. Every position resolves
  by `PositionFound`, for any ids and hashes. What is paid and what comes back as
  change add up to what was selected (`OnePaid`, `ChangePaid`). The continuations of
  `thirdPartyTransfer` take the quantity off the inputs in the ledger's order; that
  what they leave and the destination's output are the sum of the inputs is shown
  along the prefixes of `sortTxInputs` (`TakenInTurn`, `InputsInOrder`), for any
  number of inputs. What a transaction reads it does not spend. And the logic it
  withdraws from is the one the registry node names.

  Its hypothesis is `ScriptWallet # Admin`: the reference scripts are not in the
  admin's wallet. `register` of freeze-and-seize hands coin selection the whole
  wallet of its payer, so that it may spend the issuance logic's script that it also
  reads; `ScriptsKept` shows a builder doing so (finding 3). Nobody else's wallet
  pays for a transaction that reads those scripts.

Every invariant and action property of the runs that pass, and the
refinement `KeepsPromise`, are theorems: `SeedsKept` under `ReservesCover` and `OwnBuildsAccepted` under
`ScriptWallet # Admin`, which the runs satisfy, and the others under the assumptions
of the modules alone. Only model-checked: `Completes`, as liveness under fairness is out of
the provers' reach.

## 5. Not modelled

Codecs (datums, CBOR, CIP-67 labels, CIP-171 metadata and provenance records), the
encoders of redeemers, fee and execution-unit estimation, the Plutus code itself,
retry wrappers around provider calls, and the types: they decide no state and no
order. The version gate of the blueprint compares one string with a constant and
refuses, and the address guards are total functions on one argument; neither has a
state, and nothing races with them. Quantities of zero are not in the models. A
`register` chained on an unlanded `initCompliance` (`chainedUtxos`) has no action
of its own: it is a `register` of `FreezeAndSeize` that lands after that init or
never, so that the safety properties cover it. The
blueprints, deployments, documents and examples are data.

## 6. Plan

1. The shared ledger implements `Compliance` for the token of each freeze-and-seize
   instance, whatever the other plugins of the process do: a refinement of `Facade`,
   checked first, then proved from `SpendsInv` and the laws of `QuantityProofs`.
2. The end of `Bootstrap` composed with the start of `UpgradeLifecycle`: the
   authority the genesis activates is the one that sits.
