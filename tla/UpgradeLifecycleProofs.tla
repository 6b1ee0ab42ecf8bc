----------------------- MODULE UpgradeLifecycleProofs -----------------------
(***************************************************************************)
(* The properties of UpgradeLifecycle for every set of keys, authorities,  *)
(* trees and wirings, and without regard to the bounds.                    *)
(*                                                                         *)
(* The argument: a transaction in the pool is Sound, that is, whatever its *)
(* builder checked against the UTxO it read still holds as long as that    *)
(* UTxO is unspent, because nothing but spending it changes what was read. *)
(***************************************************************************)
EXTENDS UpgradeLifecycle, FiniteSetTheorems, TLAPS

-----------------------------------------------------------------------------
(* The inductive invariant.                                                *)

SoundRotate(tx) ==
    /\ 0 < tx.ref /\ tx.ref <= config[tx.auth].ref
    /\ WellFormedTree(tx.tree)
    /\ tx.ref = config[tx.auth].ref =>
          ChainSatisfied(config[tx.auth].tree, tx.signers)

SoundGenesis(tx) == WellFormedTree(tx.tree) /\ tx.ada >= ConfigFloor(tx.tree)

SoundSpend(tx) ==
    /\ tx.ref <= params.ref
    /\ ChainParamsWellFormed(tx.next)
    /\ tx.ada >= ParamsFloor(tx.next.pendingUpgradeCred)
    /\ tx.ref = params.ref =>
          /\ ChainActAllowed(tx)
          /\ tx.ada >= params.ada
          /\ tx.withdrawals = {Actor(tx)}

Sound(tx) ==
    /\ tx.kind = "rotate" => SoundRotate(tx)
    /\ tx.kind = "genesis" => SoundGenesis(tx)
    /\ tx.kind \in Acts => SoundSpend(tx)

PoolSound == \A tx \in pool : Sound(tx)

ConfigSound ==
    \A a \in Multisigs : IF Located(a) THEN WellFormedTree(config[a].tree)
                                       ELSE config[a].tree = NoTree

IInv == TypeOK /\ PoolSound /\ ConfigSound

-----------------------------------------------------------------------------
(* Facts about trees and transactions.                                     *)

(* The number of signature leaves, and of those that signed, is a number.  *)
LEMMA TreeCounts ==
    ASSUME NEW tree \in Tree, NEW S \in SUBSET Keys
    PROVE  /\ Cardinality(tree.signers) \in Nat
           /\ Cardinality(tree.signers \cap S) \in Nat
<1>1. IsFiniteSet(tree.signers) /\ IsFiniteSet(tree.signers \cap S)
  BY SetsAssumption, FS_Subset DEF Tree
<1>2. QED
  BY <1>1, FS_CardinalityType

(* The least lovelace of a config output is a number.                       *)
LEMMA FloorIsNumber ==
    ASSUME NEW tree \in Tree
    PROVE  ConfigFloor(tree) \in Nat
<1>1. Cardinality(tree.signers) \in Nat
  <2>1. {} \in SUBSET Keys
    OBVIOUS
  <2>2. QED
    BY <2>1, TreeCounts
<1>2. QED
  BY <1>1 DEF ConfigFloor, multisigSize

(* The port of multisig.satisfied agrees with the chain's rule.            *)
LEMMA PortAgrees ==
    ASSUME NEW tree, NEW S
    PROVE  satisfiesMultisigTree(tree, S) <=> ChainSatisfied(tree, S)
<1>1. {key \in tree.signers : key \in S} = tree.signers \cap S
  OBVIOUS
<1>2. QED
  BY <1>1 DEF satisfiesMultisigTree, ChainSatisfied

(* A well-formed tree asks for somebody, and one that is not there has no  *)
(* quorum.                                                                 *)
LEMMA QuorumNonempty ==
    ASSUME NEW tree \in Tree, NEW S \in SUBSET Keys, ChainSatisfied(tree, S)
    PROVE  /\ tree # NoTree
           /\ WellFormedTree(tree) => S # {}
<1>1. tree # NoTree
  BY DEF ChainSatisfied, NoTree
<1>2. ASSUME WellFormedTree(tree), S = {} PROVE FALSE
  <2>1. {key \in tree.signers : key \in S} = {}
    BY <1>2
  <2>2. tree.required \in Nat /\ tree.required >= 1 /\ 0 >= tree.required
    BY <1>2, <2>1, FS_EmptySet DEF ChainSatisfied, WellFormedTree, Tree
  <2>3. QED
    BY <2>2
<1>3. QED
  BY <1>1, <1>2

(* A transaction's kind tells its fields.                                  *)
LEMMA KindTells ==
    ASSUME NEW tx \in Tx
    PROVE  /\ tx.kind \in Acts \cup {"rotate", "genesis", "register"}
           /\ tx.kind = "rotate" => tx \in RotateTx
           /\ tx.kind = "genesis" => tx \in GenesisTx
           /\ tx.kind = "register" => tx \in RegisterTx
           /\ tx.kind \in Acts => tx \in SpendTx
BY DEF Tx, RotateTx, GenesisTx, RegisterTx, SpendTx, Acts

-----------------------------------------------------------------------------
(* The initial state.                                                      *)
LEMMA InitSound == Init => IInv
<1> SUFFICES ASSUME Init PROVE IInv
  OBVIOUS
<1> USE SetsAssumption, GenesisAssumption
<1>1. ConfigFloor(FounderTree) \in Nat
  BY FloorIsNumber
<1>2. minUtxoAtLeast(GenesisAda, ConfigFloor(FounderTree)) \in Nat
  BY <1>1 DEF minUtxoAtLeast
<1>3. NoTree \in Tree
  BY DEF NoTree, Tree
<1>4. TypeOK
  <2>1. params \in [ref : Nat, ada : Nat, datum : Datum]
    BY DEF Init, Datum, AnyCred, Creds
  <2>2. config \in [Multisigs -> [ref : Nat, ada : Nat, tree : Tree]]
    BY <1>2, <1>3 DEF Init
  <2>3. registered \subseteq Creds /\ pool \subseteq Tx
    BY DEF Init, Creds
  <2>4. QED
    BY <2>1, <2>2, <2>3 DEF TypeOK
<1>5. PoolSound
  BY DEF Init, PoolSound
<1>6. ConfigSound
  BY DEF Init, ConfigSound, Located
<1>7. QED
  BY <1>4, <1>5, <1>6 DEF IInv

-----------------------------------------------------------------------------
(* Building: every builder adds one transaction that is Sound.             *)

Adding(tx) ==
    /\ tx \in Tx /\ Sound(tx)
    /\ pool' = pool \cup {tx}
    /\ UNCHANGED <<params, config, registered>>

(* A builder returns what it made, or nothing.                             *)
LEMMA Builds ==
    ASSUME NEW tx, NEW built, Adds(built), built \subseteq {tx},
           tx \in built => tx \in Tx /\ Sound(tx)
    PROVE  Adding(tx)
<1>1. PICK t \in built : pool' = pool \cup {t}
  BY DEF Adds
<1>2. t = tx /\ tx \in built
  OBVIOUS
<1>3. QED
  BY <1>1, <1>2 DEF Adding, Adds

\* A rotation is built by signers that the current tree accepts.
LEMMA RotateBuilds == TypeOK /\ Rotate => \E tx : Adding(tx)
<1> SUFFICES ASSUME TypeOK,
                    NEW a \in Multisigs, NEW t \in Trees,
                    NEW s \in SUBSET Keys, NEW u \in BOOLEAN,
                    Adds(buildRotateMultisigTx(a, t, s, u))
             PROVE  \E tx : Adding(tx)
  BY DEF Rotate
<1> DEFINE tx == [kind |-> "rotate", auth |-> a, ref |-> config[a].ref,
                  tree |-> t, ada |-> RotateOutputAda(config[a]), signers |-> s]
           built == buildRotateMultisigTx(a, t, s, u)
<1>1. config[a] \in [ref : Nat, ada : Nat, tree : Tree]
  BY DEF TypeOK
<1>2. tx \in Tx
  BY <1>1, SetsAssumption DEF Tx, RotateTx, RotateOutputAda
<1>3. built \subseteq {tx}
  BY DEF buildRotateMultisigTx
<1>4. ASSUME tx \in built PROVE Sound(tx)
  <2>1. /\ Located(a) /\ WellFormedTree(t)
        /\ satisfiesMultisigTree(config[a].tree, s)
    BY <1>4 DEF buildRotateMultisigTx
  <2>2. ChainSatisfied(config[a].tree, s)
    BY <2>1, PortAgrees
  <2>3. SoundRotate(tx)
    BY <1>1, <2>1, <2>2 DEF SoundRotate, Located
  <2>4. QED
    BY <2>3 DEF Sound, Acts
<1>5. Adding(tx)
  BY <1>2, <1>3, <1>4, Builds
<1>6. QED
  BY <1>5

\* A stand-alone genesis writes a well-formed tree with its lovelace.
LEMMA GenesisBuilds == TypeOK /\ StandUp => \E tx : Adding(tx)
<1> SUFFICES ASSUME TypeOK, NEW a \in Multisigs, NEW t \in Trees,
                    Adds(buildStandaloneMultisigGenesisTx(a, t))
             PROVE  \E tx : Adding(tx)
  BY DEF StandUp
<1> DEFINE tx == [kind |-> "genesis", auth |-> a, tree |-> t,
                  ada |-> minUtxoAtLeast(GenesisAda, ConfigFloor(t))]
           built == buildStandaloneMultisigGenesisTx(a, t)
<1>1. t \in Tree /\ ConfigFloor(t) \in Nat /\ GenesisAda \in Nat
  BY FloorIsNumber, SetsAssumption, GenesisAssumption
<1>2. tx.ada \in Nat /\ tx.ada >= ConfigFloor(t)
  BY <1>1 DEF minUtxoAtLeast
<1>3. tx \in Tx
  BY <1>1, <1>2 DEF Tx, GenesisTx
<1>4. built \subseteq {tx} /\ (tx \in built => WellFormedTree(t))
  BY DEF buildStandaloneMultisigGenesisTx
<1>5. tx \in built => Sound(tx)
  BY <1>2, <1>4 DEF Sound, SoundGenesis, Acts
<1>6. Adding(tx)
  BY <1>3, <1>4, <1>5, Builds
<1>7. QED
  BY <1>6

\* A registration names multisig credentials only.
LEMMA RegisterBuilds == TypeOK /\ Register => \E tx : Adding(tx)
<1> SUFFICES ASSUME NEW c \in SUBSET Multisigs, Adds(buildRegisterCredentialTx(c))
             PROVE  \E tx : Adding(tx)
  BY DEF Register
<1> DEFINE tx == [kind |-> "register", creds |-> c]
<1>1. tx \in Tx /\ Sound(tx)
  BY DEF Tx, RegisterTx, Sound, Acts
<1>2. buildRegisterCredentialTx(c) \subseteq {tx}
  BY DEF buildRegisterCredentialTx
<1>3. Adding(tx)
  BY <1>1, <1>2, Builds
<1>4. QED
  BY <1>3

(* The common part of the three params builders: the arm's own rule and    *)
(* its authority are the hypothesis, the rest is checked here.             *)
LEMMA SpendBuilds ==
    ASSUME TypeOK, NEW act \in Acts, NEW next \in Datum, NEW auth \in Authorisations,
           LET tx == ParamsSpend(act, next, auth) IN
           ChainActAllowed(tx) /\ auth.cred = Actor(tx),
           Adds(buildParamsSpend(act, next, auth))
    PROVE  \E tx : Adding(tx)
<1> DEFINE tx == ParamsSpend(act, next, auth)
           built == buildParamsSpend(act, next, auth)
<1>1. auth.cred \in Creds /\ auth.signers \in SUBSET Keys
  BY SetsAssumption DEF Authorisations, Evidence, Creds
<1>2. /\ params \in [ref : Nat, ada : Nat, datum : Datum]
      /\ config \in [Multisigs -> [ref : Nat, ada : Nat, tree : Tree]]
  BY DEF TypeOK
<1>3. ReferencedConfigs(Withdrawals(auth)) \in [Multisigs -> Nat]
  BY <1>2 DEF ReferencedConfigs
<1>4. ParamsFloor(next.pendingUpgradeCred) \in Nat
  BY GenesisAssumption DEF ParamsFloor
<1>5. /\ ParamsOutputAda(next) \in Nat /\ ParamsOutputAda(next) >= params.ada
      /\ ParamsOutputAda(next) >= ParamsFloor(next.pendingUpgradeCred)
  BY <1>2, <1>4 DEF ParamsOutputAda, minUtxoAtLeast
<1>6. tx \in SpendTx
  BY <1>1, <1>2, <1>3, <1>5 DEF SpendTx, ParamsSpend, Withdrawals
<1>7. built \subseteq {tx} /\ (tx \in built => assertCredentialsWellFormed(next))
  BY DEF buildParamsSpend
<1>8. ASSUME tx \in built PROVE Sound(tx)
  <2>1. ChainParamsWellFormed(next)
    BY <1>7, <1>8, SetsAssumption
    DEF assertCredentialsWellFormed, ChainParamsWellFormed, Datum, AnyCred
  <2>2. tx.withdrawals = {Actor(tx)}
    BY DEF ParamsSpend, Withdrawals
  <2>3. SoundSpend(tx)
    BY <1>2, <1>5, <2>1, <2>2 DEF SoundSpend, ParamsSpend
  <2>4. QED
    BY <2>3 DEF Sound, ParamsSpend, Acts
<1>9. Adding(tx)
  BY <1>6, <1>7, <1>8, Builds DEF Tx
<1>10. QED
  BY <1>9

\* An upgrade keeps both authority fields.
LEMMA UpgradeBuilds == TypeOK /\ Upgrade => \E tx : Adding(tx)
<1> SUFFICES ASSUME TypeOK, NEW next \in Datum, NEW auth \in Authorisations,
                    Adds(buildProtocolUpgradeTx(next, auth))
             PROVE  \E tx : Adding(tx)
  BY DEF Upgrade
<1>1. /\ next.upgradeCred = params.datum.upgradeCred
      /\ next.pendingUpgradeCred = params.datum.pendingUpgradeCred
      /\ auth.cred = params.datum.upgradeCred
      /\ Adds(buildParamsSpend("PROTOCOL_UPGRADE", next, auth))
  BY DEF buildProtocolUpgradeTx, Adds, assertAuthorisationMatches
<1>2. params.datum \in Datum
  BY DEF TypeOK
<1>3. next = [params.datum EXCEPT !.wiring = next.wiring]
  BY <1>1, <1>2 DEF Datum
<1>4. LET tx == ParamsSpend("PROTOCOL_UPGRADE", next, auth) IN
      ChainActAllowed(tx) /\ auth.cred = Actor(tx)
  BY <1>1, <1>3 DEF ChainActAllowed, ParamsSpend, Withdrawals, Actor
<1>5. QED
  BY <1>1, <1>4, SpendBuilds DEF Acts

\* A nomination changes the pending field alone.
LEMMA NominateBuilds == TypeOK /\ Nominate => \E tx : Adding(tx)
<1> SUFFICES ASSUME TypeOK, NEW n \in AnyCred \cup {None},
                    NEW auth \in Authorisations,
                    Adds(buildNominateAuthorityTx(n, auth))
             PROVE  \E tx : Adding(tx)
  BY DEF Nominate
<1>1. /\ auth.cred = params.datum.upgradeCred
      /\ Adds(buildParamsSpend("NOMINATE_AUTHORITY", Nominated(n), auth))
  BY DEF buildNominateAuthorityTx, Adds, assertAuthorisationMatches
<1>2. params.datum \in Datum
  BY DEF TypeOK
<1>3. Nominated(n) \in Datum /\ Nominated(n).pendingUpgradeCred = n
  BY <1>2 DEF Nominated, Datum
<1>4. LET tx == ParamsSpend("NOMINATE_AUTHORITY", Nominated(n), auth) IN
      ChainActAllowed(tx) /\ auth.cred = Actor(tx)
  BY <1>1, <1>3 DEF ChainActAllowed, ParamsSpend, Withdrawals, Actor, Nominated
<1>5. QED
  BY <1>1, <1>3, <1>4, SpendBuilds DEF Acts

\* A promotion is authorised by the standing nominee, and by no other.
LEMMA PromoteBuilds == TypeOK /\ Promote => \E tx : Adding(tx)
<1> SUFFICES ASSUME TypeOK, NEW auth \in Authorisations,
                    Adds(buildPromoteAuthorityTx(auth))
             PROVE  \E tx : Adding(tx)
  BY DEF Promote
<1>1. /\ params.datum.pendingUpgradeCred # None
      /\ auth.cred = params.datum.pendingUpgradeCred
      /\ Adds(buildParamsSpend("PROMOTE_AUTHORITY", Promoted, auth))
  BY DEF buildPromoteAuthorityTx, Adds, assertAuthorisationMatches
<1>2. params.datum \in Datum
  BY DEF TypeOK
<1>3. Promoted \in Datum
  BY <1>1, <1>2 DEF Promoted, Datum
<1>4. LET tx == ParamsSpend("PROMOTE_AUTHORITY", Promoted, auth) IN
      ChainActAllowed(tx) /\ auth.cred = Actor(tx)
  BY <1>1 DEF ChainActAllowed, ParamsSpend, Withdrawals, Actor, Promoted
<1>5. QED
  BY <1>1, <1>3, <1>4, SpendBuilds DEF Acts

(* Every step adds a sound transaction, lands one of the pool, discards    *)
(* one, or opens or closes a key's account.                                *)
LEMMA StepCases ==
    ASSUME TypeOK, Next
    PROVE  \/ \E tx : Adding(tx)
           \/ \E tx \in pool : ChainLand(tx)
           \/ \E tx \in pool : ChainDiscard(tx)
           \/ \E k \in KeyCreds : ChainKeyAccount(k)
BY RotateBuilds, UpgradeBuilds, NominateBuilds, PromoteBuilds, GenesisBuilds,
   RegisterBuilds DEF Next, Land, Discard, KeyAccount

-----------------------------------------------------------------------------
(* Soundness lasts while a transaction waits.                              *)

(* Nothing it depends on changed.                                          *)
LEMMA SoundStable ==
    ASSUME NEW tx, Sound(tx), UNCHANGED <<params, config>>
    PROVE  Sound(tx)'
BY DEF Sound, SoundRotate, SoundGenesis, SoundSpend, ChainActAllowed,
       ChainParamsWellFormed, ChainSatisfied, WellFormedTree, multisigSize,
       ConfigFloor, ParamsFloor, Actor

(* A landed params spend makes every params spend in the pool stale.       *)
LEMMA SoundAcrossSpend ==
    ASSUME TypeOK, NEW tx \in Tx, Sound(tx), NEW landed \in pool,
           ChainLandSpend(landed)
    PROVE  Sound(tx)'
<1>1. /\ params.ref \in Nat /\ params'.ref = params.ref + 1 /\ config' = config
  BY DEF ChainLandSpend, TypeOK
<1>2. ASSUME tx.kind = "rotate" PROVE SoundRotate(tx)'
  BY <1>1, <1>2 DEF Sound, SoundRotate, WellFormedTree, multisigSize, ChainSatisfied
<1>3. ASSUME tx.kind = "genesis" PROVE SoundGenesis(tx)'
  BY <1>3 DEF Sound, SoundGenesis, WellFormedTree, multisigSize, ConfigFloor
<1>4. ASSUME tx.kind \in Acts PROVE SoundSpend(tx)'
  <2>1. tx.ref \in Nat /\ tx.ref <= params.ref /\ SoundSpend(tx)
    BY <1>4, KindTells DEF Sound, SoundSpend, SpendTx
  <2>2. tx.ref <= params'.ref /\ tx.ref # params'.ref
    BY <1>1, <2>1
  <2>3. QED
    BY <2>1, <2>2 DEF SoundSpend, ChainParamsWellFormed, ParamsFloor
<1>5. QED
  BY <1>2, <1>3, <1>4 DEF Sound

(* A landed rotation makes every rotation of the same authority stale.     *)
LEMMA SoundAcrossConfig ==
    ASSUME TypeOK, NEW tx \in Tx, Sound(tx), NEW landed \in Tx,
           ChainLandConfig(landed)
    PROVE  Sound(tx)'
<1>1. landed.auth \in Multisigs
  BY KindTells DEF ChainLandConfig, RotateTx, GenesisTx
<1>2. ASSUME NEW a \in Multisigs
      PROVE  /\ config[a].ref \in Nat /\ config[a].ref <= config'[a].ref
             /\ config'[a] = config[a] \/ config'[a].ref = config[a].ref + 1
  BY <1>1 DEF ChainLandConfig, TypeOK
<1>3. params' = params
  BY DEF ChainLandConfig
<1>4. ASSUME tx.kind = "rotate" PROVE SoundRotate(tx)'
  <2>1. tx \in RotateTx /\ tx.auth \in Multisigs /\ tx.ref \in Nat /\ SoundRotate(tx)
    BY <1>4, KindTells DEF Sound, RotateTx
  <2>2. 0 < tx.ref /\ tx.ref <= config'[tx.auth].ref
    BY <1>2, <2>1 DEF SoundRotate
  <2>3. CASE config'[tx.auth] = config[tx.auth]
    BY <2>1, <2>2, <2>3 DEF SoundRotate, WellFormedTree, multisigSize, ChainSatisfied
  <2>4. CASE config'[tx.auth].ref = config[tx.auth].ref + 1
    <3>1. tx.ref # config'[tx.auth].ref
      BY <1>2, <2>1, <2>4 DEF SoundRotate
    <3>2. QED
      BY <2>1, <2>2, <3>1 DEF SoundRotate, WellFormedTree, multisigSize
  <2>5. QED
    BY <1>2, <2>1, <2>3, <2>4
<1>5. ASSUME tx.kind = "genesis" PROVE SoundGenesis(tx)'
  BY <1>5 DEF Sound, SoundGenesis, WellFormedTree, multisigSize, ConfigFloor
<1>6. ASSUME tx.kind \in Acts PROVE SoundSpend(tx)'
  BY <1>3, <1>6 DEF Sound, SoundSpend, ChainParamsWellFormed, ParamsFloor,
                    ChainActAllowed, Actor
<1>7. QED
  BY <1>4, <1>5, <1>6 DEF Sound

-----------------------------------------------------------------------------
(* What landing does to the chain.                                         *)

(* A landed genesis or rotation leaves a well-formed tree in its output.   *)
LEMMA ConfigLanding ==
    ASSUME IInv, NEW landed \in pool, ChainLandConfig(landed),
           pool' = pool \ {landed}
    PROVE  TypeOK' /\ ConfigSound'
<1>1. landed \in Tx /\ Sound(landed) /\ TypeOK
  BY DEF IInv, TypeOK, PoolSound
<1>2. landed.auth \in Multisigs /\ landed.ada \in Nat /\ landed.tree \in Tree
  BY <1>1, KindTells DEF ChainLandConfig, RotateTx, GenesisTx
<1>3. WellFormedTree(landed.tree)
  BY <1>1, KindTells DEF ChainLandConfig, Sound, SoundRotate, SoundGenesis
<1>4. /\ config' = [config EXCEPT ![landed.auth] =
                      [ref |-> config[landed.auth].ref + 1, ada |-> landed.ada,
                       tree |-> landed.tree]]
      /\ params' = params /\ registered' = registered
  BY DEF ChainLandConfig
<1>5. TypeOK'
  <2>1. [ref |-> config[landed.auth].ref + 1, ada |-> landed.ada, tree |-> landed.tree]
           \in [ref : Nat, ada : Nat, tree : Tree]
    BY <1>1, <1>2 DEF TypeOK
  <2>2. config' \in [Multisigs -> [ref : Nat, ada : Nat, tree : Tree]]
    BY <1>1, <1>4, <2>1 DEF TypeOK
  <2>3. QED
    BY <1>1, <1>4, <2>2 DEF TypeOK
<1>6. ConfigSound'
  <2> SUFFICES ASSUME NEW a \in Multisigs
               PROVE  (IF Located(a) THEN WellFormedTree(config[a].tree)
                                     ELSE config[a].tree = NoTree)'
    BY DEF ConfigSound
  <2>1. CASE a = landed.auth
    <3>1. Located(a)'
      BY <1>1, <1>2, <1>4, <2>1 DEF TypeOK, Located
    <3>2. QED
      BY <1>1, <1>2, <1>3, <1>4, <2>1, <3>1 DEF TypeOK, WellFormedTree, multisigSize
  <2>2. CASE a # landed.auth
    BY <1>1, <1>4, <2>2
    DEF IInv, ConfigSound, Located, TypeOK, WellFormedTree, multisigSize, NoTree
  <2>3. QED
    BY <2>1, <2>2
<1>7. QED
  BY <1>5, <1>6

(* A landed params spend leaves the config outputs alone.                  *)
LEMMA SpendLanding ==
    ASSUME IInv, NEW landed \in pool, ChainLandSpend(landed),
           pool' = pool \ {landed}
    PROVE  TypeOK' /\ ConfigSound'
<1>1. landed \in SpendTx /\ TypeOK
  BY KindTells DEF IInv, TypeOK, ChainLandSpend
<1>2. /\ params' = [ref |-> params.ref + 1, ada |-> landed.ada, datum |-> landed.next]
      /\ config' = config /\ registered' = registered
  BY DEF ChainLandSpend
<1>3. TypeOK'
  BY <1>1, <1>2 DEF TypeOK, SpendTx
<1>4. ConfigSound'
  BY <1>2 DEF IInv, ConfigSound, Located, WellFormedTree, multisigSize, NoTree
<1>5. QED
  BY <1>3, <1>4

-----------------------------------------------------------------------------
(* The invariant is inductive.                                             *)

\* Building touches only the pool.
LEMMA BuildKeepsIInv ==
    ASSUME IInv, NEW tx, Adding(tx)
    PROVE  IInv'
<1>1. TypeOK'
  BY DEF IInv, TypeOK, Adding
<1>2. PoolSound'
  BY SoundStable DEF IInv, PoolSound, Adding
<1>3. ConfigSound'
  BY DEF IInv, Adding, ConfigSound, Located, WellFormedTree, multisigSize, NoTree
<1>4. QED
  BY <1>1, <1>2, <1>3 DEF IInv

\* Landing makes stale what it conflicts with, and keeps the rest sound.
LEMMA LandKeepsIInv ==
    ASSUME IInv, NEW landed \in pool, ChainLand(landed)
    PROVE  IInv'
<1>1. landed \in Tx /\ pool' = pool \ {landed} /\ pool \subseteq Tx
  BY DEF IInv, TypeOK, ChainLand
<1>2. CASE ChainLandConfig(landed)
  <2>1. PoolSound'
    BY <1>1, <1>2, SoundAcrossConfig DEF IInv, PoolSound
  <2>2. QED
    BY <1>1, <1>2, <2>1, ConfigLanding DEF IInv
<1>3. CASE ChainLandSpend(landed)
  <2>1. PoolSound'
    BY <1>1, <1>3, SoundAcrossSpend DEF IInv, PoolSound
  <2>2. QED
    BY <1>1, <1>3, <2>1, SpendLanding DEF IInv
<1>4. CASE ChainLandRegister(landed)
  <2>1. landed.creds \subseteq Creds
    BY <1>1, <1>4, KindTells DEF ChainLandRegister, RegisterTx, Creds
  <2>2. TypeOK'
    BY <1>1, <1>4, <2>1 DEF IInv, TypeOK, ChainLandRegister
  <2>3. PoolSound'
    BY <1>1, <1>4, SoundStable DEF IInv, PoolSound, ChainLandRegister
  <2>4. ConfigSound'
    BY <1>4 DEF IInv, ChainLandRegister, ConfigSound, Located, WellFormedTree,
                multisigSize, NoTree
  <2>5. QED
    BY <2>2, <2>3, <2>4 DEF IInv
<1>5. QED
  BY <1>2, <1>3, <1>4 DEF ChainLand

\* A discarded transaction leaves the others as they were.
LEMMA DiscardKeepsIInv ==
    ASSUME IInv, NEW tx \in pool, ChainDiscard(tx)
    PROVE  IInv'
<1>1. TypeOK'
  BY DEF IInv, TypeOK, ChainDiscard
<1>2. PoolSound'
  BY SoundStable DEF IInv, PoolSound, ChainDiscard
<1>3. ConfigSound'
  BY DEF IInv, ChainDiscard, ConfigSound, Located, WellFormedTree, multisigSize, NoTree
<1>4. QED
  BY <1>1, <1>2, <1>3 DEF IInv

\* A key holder's own account changes nothing that a builder reads.
LEMMA KeyAccountKeepsIInv ==
    ASSUME IInv, NEW k \in KeyCreds, ChainKeyAccount(k)
    PROVE  IInv'
<1>1. TypeOK'
  BY DEF IInv, TypeOK, ChainKeyAccount, Creds
<1>2. PoolSound'
  BY SoundStable DEF IInv, PoolSound, ChainKeyAccount
<1>3. ConfigSound'
  BY DEF IInv, ChainKeyAccount, ConfigSound, Located, WellFormedTree, multisigSize, NoTree
<1>4. QED
  BY <1>1, <1>2, <1>3 DEF IInv

\* A stuttering step changes nothing.
LEMMA StutterKeepsIInv == IInv /\ UNCHANGED vars => IInv'
<1> SUFFICES ASSUME IInv, UNCHANGED vars PROVE IInv'
  OBVIOUS
<1>1. TypeOK'
  BY DEF IInv, TypeOK, vars
<1>2. PoolSound'
  BY SoundStable DEF IInv, PoolSound, vars
<1>3. ConfigSound'
  BY DEF IInv, vars, ConfigSound, Located, WellFormedTree, multisigSize, NoTree
<1>4. QED
  BY <1>1, <1>2, <1>3 DEF IInv

(* The strengthening IInv holds in every state that the builders and the  *)
(* ledger can reach; every theorem below is read off it.                  *)
THEOREM Invariance == Spec => []IInv
<1>1. IInv /\ Next => IInv'
  BY StepCases, BuildKeepsIInv, LandKeepsIInv, DiscardKeepsIInv,
     KeyAccountKeepsIInv DEF IInv
<1>2. IInv /\ [Next]_vars => IInv'
  BY <1>1, StutterKeepsIInv
<1>3. QED
  BY InitSound, <1>2, PTL DEF Spec

-----------------------------------------------------------------------------
(* The properties.                                                         *)

(* Every variable keeps its type; no malformed credential is ever built.   *)
THEOREM TypeCorrect == Spec => []TypeOK
<1>1. IInv => TypeOK
  BY DEF IInv
<1>2. QED
  BY <1>1, Invariance, PTL

(* A transaction whose inputs are unspent is refused for one of the four   *)
(* documented reasons or not at all.                                       *)
THEOREM BuildsAreAccepted == Spec => []RefusalsExplained
<1>1. ASSUME IInv, NEW tx \in pool, ChainInputsUnspent(tx),
             ~UnregisteredWithdrawal(tx), ~SignersShort(tx),
             ~AlreadyRegistered(tx), ~RotationUnderfunded(tx)
      PROVE  ChainValidates(tx)
  <2>1. tx \in Tx /\ Sound(tx) /\ TypeOK
    BY <1>1 DEF IInv, TypeOK, PoolSound
  <2>2. ASSUME tx.kind \in {"rotate", "genesis"}
        PROVE  tx.ada >= ConfigFloor(tx.tree) => ChainAcceptsGenesis(tx)
    <3>1. tx.tree \in Tree /\ WellFormedTree(tx.tree)
      BY <2>1, <2>2, KindTells DEF RotateTx, GenesisTx, Sound, SoundRotate, SoundGenesis
    <3>2. /\ Cardinality(tx.tree.signers) \in Nat /\ tx.tree.required \in Nat
          /\ MaxTreeSize \in Nat
      BY <3>1, TreeCounts, GenesisAssumption DEF Tree
    <3>3. QED
      BY <3>1, <3>2 DEF ChainAcceptsGenesis, WellFormedTree, multisigSize
  <2>3. CASE tx.kind = "rotate"
    <3>1. tx \in RotateTx /\ tx.ref = config[tx.auth].ref
      BY <1>1, <2>1, <2>3, KindTells DEF ChainInputsUnspent
    <3>2. ChainSatisfied(config[tx.auth].tree, tx.signers)
      BY <2>1, <2>3, <3>1 DEF Sound, SoundRotate
    <3>3. tx.tree \in Tree /\ tx.ada \in Nat
      BY <3>1 DEF RotateTx
    <3>4. tx.ada >= ConfigFloor(tx.tree)
      <4>1. {} \in SUBSET Keys
        OBVIOUS
      <4>2. ConfigFloor(tx.tree) \in Nat
        BY <3>3, <4>1, FloorIsNumber
      <4>3. QED
        BY <1>1, <2>3, <3>3, <4>2 DEF RotationUnderfunded
    <3>5. QED
      BY <2>2, <2>3, <3>2, <3>4 DEF ChainValidates, ChainAcceptsRotate
  <2>4. CASE tx.kind = "genesis"
    BY <2>1, <2>2, <2>4 DEF Sound, SoundGenesis, ChainValidates
  <2>5. CASE tx.kind = "register"
    BY <1>1, <2>5 DEF AlreadyRegistered, ChainAcceptsRegister, ChainValidates
  <2>6. CASE tx.kind \in Acts
    <3>1. tx.ref = params.ref /\ SoundSpend(tx)
      BY <1>1, <2>1, <2>6 DEF ChainInputsUnspent, Acts, Sound
    <3>2. ChainWithdrawalRuns(tx)
      BY <1>1, <2>6 DEF UnregisteredWithdrawal, SignersShort, ChainWithdrawalRuns
    <3>3. ChainAcceptsSpend(tx)
      BY <3>1, <3>2 DEF SoundSpend, ChainAcceptsSpend
    <3>4. QED
      BY <2>6, <3>3 DEF ChainValidates, Acts
  <2>7. QED
    BY <2>1, <2>3, <2>4, <2>5, <2>6, KindTells
<1>2. IInv => RefusalsExplained
  BY <1>1 DEF RefusalsExplained
<1>3. QED
  BY <1>2, Invariance, PTL

-----------------------------------------------------------------------------
(* The properties of a step.                                               *)

(* A step changes the params UTxO only by landing a params spend.          *)
LEMMA ParamsChange ==
    ASSUME IInv, Next, params' # params
    PROVE  \E tx \in pool :
              /\ tx \in SpendTx /\ tx.kind \in Acts /\ Sound(tx)
              /\ ChainInputsUnspent(tx) /\ ChainAcceptsSpend(tx)
              /\ params' = [ref |-> params.ref + 1, ada |-> tx.ada, datum |-> tx.next]
              /\ registered' = registered /\ pool' = pool \ {tx}
<1>1. PICK tx \in pool : ChainLand(tx) /\ ChainLandSpend(tx)
  BY StepCases DEF IInv, Adding, ChainLand, ChainLandConfig, ChainLandRegister,
                   ChainDiscard, ChainKeyAccount
<1>2. tx \in SpendTx /\ tx.kind \in Acts /\ Sound(tx)
  BY <1>1, KindTells DEF IInv, TypeOK, ChainLandSpend, PoolSound
<1>3. ChainInputsUnspent(tx) /\ ChainAcceptsSpend(tx)
  BY <1>1, <1>2 DEF ChainLand, ChainAccepts, ChainValidates, Acts
<1>4. QED
  BY <1>1, <1>2, <1>3 DEF ChainLand, ChainLandSpend

(* No step lowers the lovelace of the params output.                       *)
THEOREM AdaOnlyRises == Spec => ParamsAdaNeverDrained
<1>1. ASSUME IInv, [Next]_vars PROVE [params'.ada >= params.ada]_params
  <2>1. CASE params' = params
    BY <2>1
  <2>2. CASE params' # params
    <3>1. Next
      BY <1>1, <2>2 DEF vars
    <3>2. PICK tx \in pool :
             /\ tx.kind \in Acts /\ Sound(tx) /\ ChainInputsUnspent(tx)
             /\ params' = [ref |-> params.ref + 1, ada |-> tx.ada, datum |-> tx.next]
      BY <1>1, <2>2, <3>1, ParamsChange
    <3>3. tx.ref = params.ref
      BY <3>2 DEF ChainInputsUnspent, Acts
    <3>4. QED
      BY <3>2, <3>3 DEF Sound, SoundSpend
  <2>3. QED
    BY <2>1, <2>2
<1>2. QED
  BY <1>1, Invariance, PTL DEF Spec, ParamsAdaNeverDrained

(* Nobody but its own authority, or a move of the params UTxO, holds up an *)
(* act that the ledger would accept: the single withdrawal is that of the  *)
(* act's authority, and nothing else it depends on is shared.              *)
THEOREM OwnActorOnly == Spec => HeldUpByItsActorAlone
<1>1. ASSUME IInv, NEW tx \in pool, tx.kind \in Acts, ChainAccepts(tx),
             params' = params, ~ActorMoved(Actor(tx))
      PROVE  ChainAccepts(tx)'
  <2> DEFINE by == Actor(tx)
  <2>1. ChainInputsUnspent(tx) /\ ChainAcceptsSpend(tx)
    BY <1>1 DEF ChainAccepts, ChainValidates, Acts
  <2>2. tx.ref = params.ref
    BY <1>1, <2>1 DEF ChainInputsUnspent, Acts
  <2>3. tx.withdrawals = {by}
    BY <1>1, <2>2 DEF IInv, PoolSound, Sound, SoundSpend
  <2>4. /\ by \in registered /\ by \in registered'
        /\ by \in Multisigs =>
              /\ config'[by] = config[by]
              /\ tx.configRefs[by] = config[by].ref
              /\ ChainSatisfied(config[by].tree, tx.signers)
    BY <1>1, <2>1, <2>3
    DEF ActorMoved, ChainInputsUnspent, ChainAcceptsSpend, ChainWithdrawalRuns, Acts
  <2>5. ChainInputsUnspent(tx)'
    <3>1. \A a \in tx.withdrawals \cap Multisigs : tx.configRefs[a] = config'[a].ref
      BY <2>3, <2>4
    <3>2. QED
      BY <1>1, <2>2, <3>1 DEF ChainInputsUnspent, Acts
  <2>6. ChainWithdrawalRuns(tx)'
    BY <2>3, <2>4 DEF ChainWithdrawalRuns, ChainSatisfied
  <2>7. (ChainActAllowed(tx) /\ ChainParamsWellFormed(tx.next))'
    BY <1>1, <2>1 DEF ChainAcceptsSpend, ChainActAllowed, ChainParamsWellFormed
  <2>8. ChainAcceptsSpend(tx)'
    BY <2>1, <2>6, <2>7 DEF ChainAcceptsSpend, ParamsFloor
  <2>9. QED
    BY <1>1, <2>5, <2>8 DEF ChainAccepts, ChainValidates, Acts
<1> DEFINE Unmoved == \A tx \in pool \cap pool' :
                         tx.kind \in Acts /\ ChainAccepts(tx) =>
                            \/ ChainAccepts(tx)'
                            \/ params' # params
                            \/ ActorMoved(Actor(tx))
<1>2. IInv /\ [Next]_vars => [Unmoved]_vars
  BY <1>1
<1>3. QED
  BY <1>2, Invariance, PTL DEF Spec, HeldUpByItsActorAlone

-----------------------------------------------------------------------------
(* What is lawful is built.                                                *)

(* Evidence that the ledger would accept is an authorisation the SDK can   *)
(* assemble, and the datum passes its length checks.                       *)
LEMMA LawfulEvidence ==
    ASSUME IInv, NEW e \in Evidence, NEW act, NEW next, Lawful(act, next, e)
    PROVE  /\ e \in Authorisations
           /\ assertCredentialsWellFormed(next)
           /\ ChainActAllowed(ParamsSpend(act, next, e))
<1> DEFINE tx == ParamsSpend(act, next, e)
<1>1. tx.withdrawals = {e.cred} /\ tx.signers = e.signers /\ tx.next = next
  BY DEF ParamsSpend, Withdrawals
<1>2. ChainWithdrawalRuns(tx) /\ ChainActAllowed(tx) /\ ChainParamsWellFormed(next)
  BY <1>1 DEF Lawful, ChainAcceptsSpend
<1>3. e \in Authorisations
  <2>1. ASSUME e.cred \in Multisigs PROVE Located(e.cred)
    <3>1. /\ config[e.cred].tree \in Tree /\ e.signers \in SUBSET Keys
          /\ ChainSatisfied(config[e.cred].tree, e.signers)
      BY <1>1, <1>2, <2>1, SetsAssumption
      DEF ChainWithdrawalRuns, IInv, TypeOK, Evidence
    <3>2. config[e.cred].tree # NoTree
      BY <3>1, QuorumNonempty
    <3>3. QED
      BY <2>1, <3>2 DEF IInv, ConfigSound
  <2>2. QED
    BY <2>1 DEF Authorisations
<1>4. assertCredentialsWellFormed(next)
  BY <1>2, SetsAssumption
  DEF ChainParamsWellFormed, assertCredentialsWellFormed, AnyCred
<1>5. QED
  BY <1>2, <1>3, <1>4

(* A rotation the validators would accept is built, unless the tree to be  *)
(* replaced has a leaf that the builder cannot evaluate.                   *)
LEMMA LawfulRotationIsBuilt ==
    ASSUME IInv, NEW a \in Multisigs, NEW t \in Trees, NEW s \in SUBSET Keys,
           LawfulRotation(a, t, s), config[a].tree.gate = "none"
    PROVE  buildRotateMultisigTx(a, t, s, t = config[a].tree) # {}
<1>1. /\ Located(a) /\ ChainSatisfied(config[a].tree, s)
      /\ t.required \in 1 .. Cardinality(t.signers) /\ multisigSize(t) <= MaxTreeSize
  BY DEF LawfulRotation, ChainAcceptsRotate, ChainAcceptsGenesis
<1>2. config[a].tree \in Tree /\ WellFormedTree(config[a].tree)
  BY <1>1 DEF IInv, TypeOK, ConfigSound
<1>3. s # {} /\ satisfiesMultisigTree(config[a].tree, s)
  BY <1>1, <1>2, QuorumNonempty, PortAgrees
<1>4. WellFormedTree(t)
  <2>1. t \in Tree /\ Cardinality(t.signers) \in Nat /\ MaxTreeSize \in Nat
    BY SetsAssumption, GenesisAssumption, TreeCounts
  <2>2. QED
    BY <1>1, <2>1 DEF WellFormedTree, multisigSize, Tree
<1>5. QED
  BY <1>1, <1>3, <1>4 DEF buildRotateMultisigTx, unsupportedLeafKinds

(* What the validators would accept the SDK builds, for whoever is the     *)
(* authority, whatever was rotated, nominated and promoted before.         *)
THEOREM LawfulIsBuilt == Spec => []NothingLawfulRefused
<1>1. ASSUME IInv, NEW e \in Evidence, NEW w \in Wirings \cup MalformedWirings,
             Lawful("PROTOCOL_UPGRADE", Rewired(w), e)
      PROVE  e \in Authorisations /\ buildProtocolUpgradeTx(Rewired(w), e) # {}
  <2>1. /\ e \in Authorisations /\ assertCredentialsWellFormed(Rewired(w))
        /\ ChainActAllowed(ParamsSpend("PROTOCOL_UPGRADE", Rewired(w), e))
    BY <1>1, LawfulEvidence
  <2>2. e.cred = params.datum.upgradeCred
    BY <2>1 DEF ChainActAllowed, ParamsSpend, Withdrawals
  <2>3. /\ Rewired(w).upgradeCred = params.datum.upgradeCred
        /\ Rewired(w).pendingUpgradeCred = params.datum.pendingUpgradeCred
    BY <1>1 DEF Rewired, IInv, TypeOK, Datum
  <2>4. QED
    BY <2>1, <2>2, <2>3
    DEF buildProtocolUpgradeTx, buildParamsSpend, assertAuthorisationMatches
<1>2. ASSUME IInv, NEW e \in Evidence, NEW n \in AnyCred \cup {None},
             Lawful("NOMINATE_AUTHORITY", Nominated(n), e),
             Nominated(n) # params.datum
      PROVE  e \in Authorisations /\ buildNominateAuthorityTx(n, e) # {}
  <2>1. /\ e \in Authorisations /\ assertCredentialsWellFormed(Nominated(n))
        /\ ChainActAllowed(ParamsSpend("NOMINATE_AUTHORITY", Nominated(n), e))
    BY <1>2, LawfulEvidence
  <2>2. e.cred = params.datum.upgradeCred
    BY <2>1 DEF ChainActAllowed, ParamsSpend, Withdrawals
  <2>3. n # params.datum.pendingUpgradeCred
    BY <1>2 DEF Nominated, IInv, TypeOK, Datum
  <2>4. QED
    BY <2>1, <2>2, <2>3
    DEF buildNominateAuthorityTx, buildParamsSpend, assertAuthorisationMatches
<1>3. ASSUME IInv, NEW e \in Evidence, Lawful("PROMOTE_AUTHORITY", Promoted, e)
      PROVE  e \in Authorisations /\ buildPromoteAuthorityTx(e) # {}
  <2>1. /\ e \in Authorisations /\ assertCredentialsWellFormed(Promoted)
        /\ ChainActAllowed(ParamsSpend("PROMOTE_AUTHORITY", Promoted, e))
    BY <1>3, LawfulEvidence
  <2>2. /\ params.datum.pendingUpgradeCred # None
        /\ e.cred = params.datum.pendingUpgradeCred
    BY <2>1 DEF ChainActAllowed, ParamsSpend, Withdrawals
  <2>3. QED
    BY <2>1, <2>2
    DEF buildPromoteAuthorityTx, buildParamsSpend, assertAuthorisationMatches
<1>4. IInv => NothingLawfulRefused
  BY <1>1, <1>2, <1>3, LawfulRotationIsBuilt DEF NothingLawfulRefused
<1>5. QED
  BY <1>4, Invariance, PTL

=============================================================================
