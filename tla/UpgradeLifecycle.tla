-------------------------- MODULE UpgradeLifecycle --------------------------
(***************************************************************************)
(* The live side of a CIP-113 deployment: the protocol-params UTxO, the    *)
(* config UTxO of every upgrade authority, and the transactions that       *)
(* operators build from their reads with src/standard/upgrade.ts.          *)
(*                                                                         *)
(* The SDK never submits.  A builder is a pure function of the UTxOs its   *)
(* caller located, so building is one step and landing is another: in      *)
(* between, any other operator may land first.  A UTxO is identified by    *)
(* the number of times its NFT has been moved (ref), so a transaction is   *)
(* stale exactly when that number no longer is the one it was built on.    *)
(*                                                                         *)
(* Names beginning with Chain are the ledger and the validators, external  *)
(* to the SDK and modelled from what its builders rely on.                 *)
(***************************************************************************)
EXTENDS Integers, FiniteSets

CONSTANTS
    Keys,             \* signing keys of operators
    Multisigs,        \* upgrade_multisig instances, one per one-shot seed
    KeyCreds,         \* keys also used as a key stake credential
    MalformedCreds,   \* credentials whose hash is not 28 bytes
    None,             \* no nomination
    Wirings,          \* delegate credentials of the datum, all 28 bytes
    MalformedWirings, \* wirings with a delegate that is not 28 bytes
    Trees,            \* authority trees an operator may propose
    Founder,          \* the authority installed by the bootstrap
    FounderTree,      \* and its tree
    FirstWiring,      \* the wiring installed by the bootstrap
    GenesisAda,       \* lovelace the genesis steps fund an output with
    MaxTreeSize,      \* nodes of a tree (multisig.max_size)
    MaxPool,          \* bound: transactions built and not yet landed
    MaxRef,           \* bound: moves of the params NFT
    MaxRotations      \* bound: moves of a config NFT

Creds == Multisigs \cup KeyCreds
AnyCred == Creds \cup MalformedCreds
Datum == [wiring : Wirings \cup MalformedWirings,
          upgradeCred : AnyCred,
          pendingUpgradeCred : AnyCred \cup {None}]

(***************************************************************************)
(* An authority tree, up to what its builders tell apart: at least         *)
(* "required" of the signature leaves "signers", and next to them no       *)
(* other leaf (gate = "none"), a before/after/script leaf as an            *)
(* alternative ("or") or as a further requirement ("and").                 *)
(***************************************************************************)
Tree == [required : Nat, signers : SUBSET Keys, gate : {"none", "or", "and"}]

ASSUME SetsAssumption ==
    /\ IsFiniteSet(Keys) /\ KeyCreds \subseteq Keys
    /\ Multisigs \cap KeyCreds = {} /\ Creds \cap MalformedCreds = {}
    /\ None \notin AnyCred
    /\ Wirings \cap MalformedWirings = {}
    /\ Trees \subseteq Tree
VARIABLES
    params,      \* the params UTxO: [ref, ada, datum]
    config,      \* config UTxO of each authority: [ref, ada, tree]; ref 0 before genesis
    registered,  \* stake credentials with a reward account
    pool         \* transactions built and not yet landed

vars == <<params, config, registered, pool>>

NoTree == [required |-> 0, signers |-> {}, gate |-> "and"]

-----------------------------------------------------------------------------
(* What the SDK computes.                                                  *)

\* The nodes of the tree: a threshold over its leaves, and for a gate a list
\* of the two.
multisigSize(tree) == Cardinality(tree.signers) + IF tree.gate = "none" THEN 1 ELSE 3

\* min-UTxO of the config output: it grows with the tree in the datum.
ConfigFloor(tree) == multisigSize(tree)

\* min-UTxO of the params output: Some(nominee) is wider than None.
ParamsFloor(pending) == IF pending = None THEN 1 ELSE GenesisAda + 1

minUtxoAtLeast(floor, computed) == IF computed > floor THEN computed ELSE floor

\* multisigScriptDatum: well_formed, enforced when a tree is written.
WellFormedTree(tree) ==
    /\ tree.required >= 1
    /\ tree.required <= Cardinality(tree.signers)
    /\ multisigSize(tree) <= MaxTreeSize

\* The bootstrap encodes FounderTree, and so refuses an ill-formed one.
ASSUME GenesisAssumption ==
    /\ Founder \in Multisigs /\ FounderTree \in Tree /\ WellFormedTree(FounderTree)
    /\ FirstWiring \in Wirings
    /\ GenesisAda \in Nat \ {0} /\ MaxTreeSize \in Nat
    /\ MaxPool \in Nat /\ MaxRef \in Nat /\ MaxRotations \in Nat

\* Variant: one signature short.
satisfiesAlmost(tree, signatories) ==
    /\ tree.gate # "and"
    /\ Cardinality(tree.signers \cap signatories) + 1 >= tree.required

\* No validity interval and no further withdrawal, so a gate never passes.
satisfiesMultisigTree(tree, signatories) ==
    /\ tree.gate # "and"
    /\ Cardinality(tree.signers \cap signatories) >= tree.required

unsupportedLeafKinds(tree) == tree.gate # "none"

assertCredentialsWellFormed(datum) ==
    /\ datum.wiring \in Wirings
    /\ datum.upgradeCred \notin MalformedCreds
    /\ datum.pendingUpgradeCred \notin MalformedCreds

\* locateUpgradeMultisig finds exactly one UTxO carrying the NFT, or refuses.
Located(auth) == config[auth].ref > 0

\* What a caller can offer: a script and its named signers, or a key.
Evidence == [cred : Multisigs, signers : SUBSET Keys] \cup
            {[cred |-> k, signers |-> {k}] : k \in KeyCreds}

\* Variant: the authority of this deployment's record only, as the test
\* harness's router accepts it.
AuthorisationsOfDeployment ==
    {auth \in Evidence : auth.cred \in Multisigs => auth.cred = Founder}

\* Nothing is compared against the deployment: any script whose config UTxO
\* can be supplied, or any key.
Authorisations ==
    {auth \in Evidence : auth.cred \in Multisigs => Located(auth.cred)}

\* Variant: the sitting authority withdraws beside the one the arm requires.
WithdrawalsWithSitting(auth) == {auth.cred, params.datum.upgradeCred}

\* Exactly one withdrawal, the authorising credential's.
Withdrawals(auth) == {auth.cred}

\* The config UTxO of every withdrawing script, as a reference input.
ReferencedConfigs(creds) ==
    [a \in Multisigs |-> IF a \in creds THEN config[a].ref ELSE 0]

assertAuthorisationMatches(auth, required) == auth.cred = required

-----------------------------------------------------------------------------
(* The builders: pure functions of the UTxOs they are given, which return  *)
(* a transaction, here a singleton, or refuse, here the empty set.         *)

RotateTx == [kind : {"rotate"}, auth : Multisigs, ref : Nat, tree : Tree,
             ada : Nat, signers : SUBSET Keys]

RotateOutputAda(utxo) == utxo.ada

buildRotateMultisigTx(auth, newTree, signers, allowUnchangedTree) ==
    IF /\ Located(auth)
       /\ ~unsupportedLeafKinds(config[auth].tree)
       /\ WellFormedTree(newTree)
       /\ allowUnchangedTree \/ newTree # config[auth].tree
       /\ signers # {}
       /\ satisfiesMultisigTree(config[auth].tree, signers)
    THEN {[kind |-> "rotate", auth |-> auth, ref |-> config[auth].ref,
           tree |-> newTree, ada |-> RotateOutputAda(config[auth]),
           signers |-> signers]}
    ELSE {}

Acts == {"PROTOCOL_UPGRADE", "NOMINATE_AUTHORITY", "PROMOTE_AUTHORITY"}
SpendTx == [kind : Acts, ref : Nat, withdrawals : SUBSET Creds,
            configRefs : [Multisigs -> Nat], signers : SUBSET Keys,
            next : Datum, ada : Nat]

\* Variant: the floor is 0, so a narrower datum lowers the output (audit r1 M11).
ParamsOutputAdaUnfloored(next) ==
    minUtxoAtLeast(0, ParamsFloor(next.pendingUpgradeCred))

\* The re-floored lovelace of the continuing params output: it only rises.
ParamsOutputAda(next) ==
    minUtxoAtLeast(params.ada, ParamsFloor(next.pendingUpgradeCred))

\* The one transaction shape of the three arms.
ParamsSpend(act, next, auth) ==
    [kind |-> act, ref |-> params.ref, withdrawals |-> Withdrawals(auth),
     configRefs |-> ReferencedConfigs(Withdrawals(auth)),
     signers |-> auth.signers, next |-> next, ada |-> ParamsOutputAda(next)]

buildParamsSpend(act, next, auth) ==
    IF assertCredentialsWellFormed(next) THEN {ParamsSpend(act, next, auth)} ELSE {}

\* "next" is whatever the caller's change() returned.
buildProtocolUpgradeTx(next, auth) ==
    IF /\ next.upgradeCred = params.datum.upgradeCred
       /\ next.pendingUpgradeCred = params.datum.pendingUpgradeCred
       /\ assertAuthorisationMatches(auth, params.datum.upgradeCred)
    THEN buildParamsSpend("PROTOCOL_UPGRADE", next, auth)
    ELSE {}

Nominated(nominee) == [params.datum EXCEPT !.pendingUpgradeCred = nominee]

buildNominateAuthorityTx(nominee, auth) ==
    IF /\ nominee # params.datum.pendingUpgradeCred
       /\ assertAuthorisationMatches(auth, params.datum.upgradeCred)
    THEN buildParamsSpend("NOMINATE_AUTHORITY", Nominated(nominee), auth)
    ELSE {}

\* Variant: the nomination is cleared before it is copied.
PromotedTooLate ==
    LET cleared == [params.datum EXCEPT !.pendingUpgradeCred = None] IN
    [cleared EXCEPT !.upgradeCred = cleared.pendingUpgradeCred]

Promoted == [params.datum EXCEPT !.upgradeCred = params.datum.pendingUpgradeCred,
                                 !.pendingUpgradeCred = None]

\* Variant: authorised by the sitting authority, as the two other arms are.
buildPromoteBySitting(auth) ==
    IF /\ params.datum.pendingUpgradeCred # None
       /\ assertAuthorisationMatches(auth, params.datum.upgradeCred)
    THEN buildParamsSpend("PROMOTE_AUTHORITY", Promoted, auth)
    ELSE {}

buildPromoteAuthorityTx(auth) ==
    IF /\ params.datum.pendingUpgradeCred # None
       /\ assertAuthorisationMatches(auth, params.datum.pendingUpgradeCred)
    THEN buildParamsSpend("PROMOTE_AUTHORITY", Promoted, auth)
    ELSE {}

GenesisTx == [kind : {"genesis"}, auth : Multisigs, tree : Tree, ada : Nat]

\* The seed is the UTxO the caller read, so it was unspent then.
buildStandaloneMultisigGenesisTx(auth, tree) ==
    IF ~Located(auth) /\ WellFormedTree(tree)
    THEN {[kind |-> "genesis", auth |-> auth, tree |-> tree,
           ada |-> minUtxoAtLeast(GenesisAda, ConfigFloor(tree))]}
    ELSE {}

RegisterTx == [kind : {"register"}, creds : SUBSET Multisigs]

\* No chain read: nothing ties this transaction to what is registered.
buildRegisterCredentialTx(creds) ==
    IF creds # {} THEN {[kind |-> "register", creds |-> creds]} ELSE {}

\* What was built waits in the pool until it lands or is given up.
Adds(built) ==
    /\ Cardinality(pool) < MaxPool
    /\ \E tx \in built : pool' = pool \cup {tx}
    /\ UNCHANGED <<params, config, registered>>

Tx == RotateTx \cup SpendTx \cup GenesisTx \cup RegisterTx

-----------------------------------------------------------------------------
(* The ledger and the validators.                                          *)

ChainSatisfied(tree, signers) ==
    /\ tree.gate # "and"
    /\ Cardinality({key \in tree.signers : key \in signers}) >= tree.required

\* Every input and reference input is still unspent.
ChainInputsUnspent(tx) ==
    CASE tx.kind = "rotate"   -> tx.ref = config[tx.auth].ref
      [] tx.kind = "genesis"  -> config[tx.auth].ref = 0
      [] tx.kind = "register" -> TRUE
      [] OTHER -> /\ tx.ref = params.ref
                  /\ \A a \in tx.withdrawals \cap Multisigs :
                        tx.configRefs[a] = config[a].ref

\* upgrade_multisig.mint, and what .spend asks of the output too.
ChainAcceptsGenesis(tx) ==
    /\ tx.tree.required \in 1 .. Cardinality(tx.tree.signers)
    /\ multisigSize(tx.tree) <= MaxTreeSize
    /\ tx.ada >= ConfigFloor(tx.tree)

\* upgrade_multisig.spend: the tree being replaced approves.
ChainAcceptsRotate(tx) ==
    /\ ChainSatisfied(config[tx.auth].tree, tx.signers)
    /\ ChainAcceptsGenesis(tx)

ChainAcceptsRegister(tx) == tx.creds \cap registered = {}

\* withdraw-0: a reward account, and the script's own consent.
ChainWithdrawalRuns(tx) ==
    \A cred \in tx.withdrawals :
        /\ cred \in registered
        /\ cred \in Multisigs => ChainSatisfied(config[cred].tree, tx.signers)

\* has_key: a withdrawal beside the one the act asks for is not looked at.
ChainActAllowed(tx) ==
    LET old == params.datum IN
    CASE tx.kind = "PROTOCOL_UPGRADE" ->
            /\ old.upgradeCred \in tx.withdrawals
            /\ tx.next = [old EXCEPT !.wiring = tx.next.wiring]
      [] tx.kind = "NOMINATE_AUTHORITY" ->
            /\ old.upgradeCred \in tx.withdrawals
            /\ tx.next = [old EXCEPT !.pendingUpgradeCred = tx.next.pendingUpgradeCred]
      [] OTHER ->
            /\ old.pendingUpgradeCred # None
            /\ old.pendingUpgradeCred \in tx.withdrawals
            /\ tx.next = [old EXCEPT !.upgradeCred = old.pendingUpgradeCred,
                                     !.pendingUpgradeCred = None]

ChainParamsWellFormed(datum) ==
    /\ datum.wiring \in Wirings
    /\ datum.upgradeCred \in Creds
    /\ datum.pendingUpgradeCred \in Creds \cup {None}

\* protocol_params.spend: the act's rule, params_well_formed, min-UTxO.
ChainAcceptsSpend(tx) ==
    /\ ChainWithdrawalRuns(tx)
    /\ ChainActAllowed(tx)
    /\ ChainParamsWellFormed(tx.next)
    /\ tx.ada >= ParamsFloor(tx.next.pendingUpgradeCred)

ChainValidates(tx) ==
    CASE tx.kind = "rotate"   -> ChainAcceptsRotate(tx)
      [] tx.kind = "genesis"  -> ChainAcceptsGenesis(tx)
      [] tx.kind = "register" -> ChainAcceptsRegister(tx)
      [] OTHER -> ChainAcceptsSpend(tx)

ChainAccepts(tx) == ChainInputsUnspent(tx) /\ ChainValidates(tx)

\* A config output, created by the genesis or by a rotation.
ChainLandConfig(tx) ==
    /\ tx.kind \in {"rotate", "genesis"}
    /\ config[tx.auth].ref < MaxRotations
    /\ config' = [config EXCEPT ![tx.auth] =
                    [ref |-> @.ref + 1, ada |-> tx.ada, tree |-> tx.tree]]
    /\ UNCHANGED <<params, registered>>

ChainLandSpend(tx) ==
    /\ tx.kind \in Acts
    /\ params.ref < MaxRef
    /\ params' = [ref |-> params.ref + 1, ada |-> tx.ada, datum |-> tx.next]
    /\ UNCHANGED <<config, registered>>

ChainLandRegister(tx) ==
    /\ tx.kind = "register"
    /\ registered' = registered \cup tx.creds
    /\ UNCHANGED <<params, config>>

ChainLand(tx) ==
    /\ ChainAccepts(tx)
    /\ ChainLandConfig(tx) \/ ChainLandSpend(tx) \/ ChainLandRegister(tx)
    /\ pool' = pool \ {tx}

\* Refused by the ledger, or never submitted.
ChainDiscard(tx) ==
    /\ pool' = pool \ {tx}
    /\ UNCHANGED <<params, config, registered>>

\* A key holder's wallet manages its own reward account.
ChainKeyAccount(cred) ==
    /\ registered' = IF cred \in registered THEN registered \ {cred}
                                            ELSE registered \cup {cred}
    /\ UNCHANGED <<params, config, pool>>

-----------------------------------------------------------------------------
Init ==
    /\ params = [ref |-> 1, ada |-> GenesisAda,
                 datum |-> [wiring |-> FirstWiring, upgradeCred |-> Founder,
                            pendingUpgradeCred |-> None]]
    /\ config = [a \in Multisigs |->
                   IF a = Founder
                   THEN [ref |-> 1,
                         ada |-> minUtxoAtLeast(GenesisAda, ConfigFloor(FounderTree)),
                         tree |-> FounderTree]
                   ELSE [ref |-> 0, ada |-> 0, tree |-> NoTree]]
    /\ registered = {Founder}
    /\ pool = {}

Rotate == \E a \in Multisigs, t \in Trees, s \in SUBSET Keys, u \in BOOLEAN :
             Adds(buildRotateMultisigTx(a, t, s, u))
Upgrade == \E next \in Datum, auth \in Authorisations :
              Adds(buildProtocolUpgradeTx(next, auth))
Nominate == \E n \in AnyCred \cup {None}, auth \in Authorisations :
               Adds(buildNominateAuthorityTx(n, auth))
Promote == \E auth \in Authorisations : Adds(buildPromoteAuthorityTx(auth))
StandUp == \E a \in Multisigs, t \in Trees :
              Adds(buildStandaloneMultisigGenesisTx(a, t))
Register == \E creds \in SUBSET Multisigs : Adds(buildRegisterCredentialTx(creds))
Land == \E tx \in pool : ChainLand(tx)
Discard == \E tx \in pool : ChainDiscard(tx)
KeyAccount == \E k \in KeyCreds : ChainKeyAccount(k)

Next ==
    \/ Rotate \/ Upgrade \/ Nominate \/ Promote \/ StandUp \/ Register
    \/ Land \/ Discard \/ KeyAccount

Spec == Init /\ [][Next]_vars

-----------------------------------------------------------------------------
(* Every variable has its type; the datum on chain is well formed.         *)
TypeOK ==
    /\ params \in [ref : Nat, ada : Nat, datum : Datum]
    /\ config \in [Multisigs -> [ref : Nat, ada : Nat, tree : Tree]]
    /\ registered \subseteq Creds
    /\ pool \subseteq Tx

(* Why a transaction of the SDK whose inputs are still there may be        *)
(* refused all the same.  The params builders do not check accounts or     *)
(* named signers, the registration builder does not check accounts, and a  *)
(* rotation carries its lovelace forward whatever the new tree costs.      *)
UnregisteredWithdrawal(tx) ==
    tx.kind \in Acts /\ ~(tx.withdrawals \subseteq registered)
SignersShort(tx) ==
    /\ tx.kind \in Acts
    /\ \E a \in tx.withdrawals \cap Multisigs : ~ChainSatisfied(config[a].tree, tx.signers)
AlreadyRegistered(tx) == tx.kind = "register" /\ tx.creds \cap registered # {}
RotationUnderfunded(tx) == tx.kind = "rotate" /\ tx.ada < ConfigFloor(tx.tree)

(* The promise of the builders' preflights: a transaction built on UTxOs   *)
(* that still exist is refused for none but these four reasons.  The act,  *)
(* the frozen fields, the well-formedness, the quorum of a rotation and    *)
(* the re-floored lovelace are right at every landing, however long the    *)
(* transaction waited and whatever landed in between.                      *)
RefusalsExplained ==
    \A tx \in pool :
        ChainInputsUnspent(tx) =>
            \/ ChainValidates(tx)
            \/ UnregisteredWithdrawal(tx) \/ SignersShort(tx)
            \/ AlreadyRegistered(tx) \/ RotationUnderfunded(tx)

(* The lovelace of the params output is raised for a nomination and never  *)
(* lowered again by the promotion that narrows the datum (upgrade.ts:832,  *)
(* audit r1 M11).                                                          *)
ParamsAdaNeverDrained == [][params'.ada >= params.ada]_params

(* What the ledger would accept now, in a transaction of the SDK's shape    *)
(* that offers this evidence.                                              *)
Lawful(act, next, e) == ChainAcceptsSpend(ParamsSpend(act, next, e))
LawfulRotation(a, t, s) ==
    /\ Located(a)
    /\ ChainAcceptsRotate([auth |-> a, tree |-> t, signers |-> s,
                           ada |-> RotateOutputAda(config[a])])
Rewired(w) == [params.datum EXCEPT !.wiring = w]

(* The converse of RefusalsExplained: "a false is certain"                 *)
(* (upgrade.ts:589).  What the validators would accept, the SDK builds,    *)
(* whoever has come to be the authority: a successor the deployment has    *)
(* never heard of (upgrade.ts:665), a key, or a quorum rotated in since.   *)
(* Refused although lawful are only a nomination that changes nothing, a   *)
(* rotation that changes nothing unless the caller insists, and the        *)
(* rotation of a tree with a leaf the builder has no evidence for.         *)
NothingLawfulRefused ==
    /\ \A e \in Evidence :
          /\ \A w \in Wirings \cup MalformedWirings :
                Lawful("PROTOCOL_UPGRADE", Rewired(w), e) =>
                   e \in Authorisations /\ buildProtocolUpgradeTx(Rewired(w), e) # {}
          /\ \A n \in AnyCred \cup {None} :
                Lawful("NOMINATE_AUTHORITY", Nominated(n), e)
                /\ Nominated(n) # params.datum =>
                   e \in Authorisations /\ buildNominateAuthorityTx(n, e) # {}
          /\ Lawful("PROMOTE_AUTHORITY", Promoted, e) =>
                   e \in Authorisations /\ buildPromoteAuthorityTx(e) # {}
    /\ \A a \in Multisigs, t \in Trees, s \in SUBSET Keys :
          LawfulRotation(a, t, s) /\ config[a].tree.gate = "none" =>
             buildRotateMultisigTx(a, t, s, t = config[a].tree) # {}

(* The credential an act is the business of: the sitting authority's, or   *)
(* for a promotion the nominee's.                                          *)
Actor(tx) == IF tx.kind = "PROMOTE_AUTHORITY" THEN params.datum.pendingUpgradeCred
                                              ELSE params.datum.upgradeCred
ActorMoved(cred) ==
    \/ cred \in Multisigs /\ config'[cred] # config[cred]
    \/ cred \in registered \ registered'

(* Nobody else can hold an act up.  A transaction the ledger would accept  *)
(* stops being acceptable only because the params UTxO moved, or because   *)
(* its own authority rotated or closed its account.  The chain does not    *)
(* see to it: it admits a promotion that also withdraws from the outgoing  *)
(* authority (upgrade.ts:860), and such a handover would fail as soon as   *)
(* that authority rotated.                                                 *)
HeldUpByItsActorAlone ==
    [][\A tx \in pool \cap pool' :
          tx.kind \in Acts /\ ChainAccepts(tx) =>
             \/ ChainAccepts(tx)'
             \/ params' # params
             \/ ActorMoved(Actor(tx))]_vars

(* upgrade.ts:485 of buildRotateMultisigTx: "the input's own figure was    *)
(* already min-UTxO-valid for an output of this shape", so a rotation is   *)
(* never refused for its lovelace.                                         *)
RotationFunded == \A tx \in pool : ~RotationUnderfunded(tx)

=============================================================================
