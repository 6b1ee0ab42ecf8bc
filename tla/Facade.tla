------------------------------- MODULE Facade -------------------------------
(***************************************************************************)
(* The protocol object of src/index.ts: a map from substandard ids to      *)
(* plugins, and the operations it routes to them, over the chain that the  *)
(* plugins share.                                                          *)
(*                                                                         *)
(* Building evaluates the scripts, so a build fails when the validators    *)
(* would refuse it now, and may fail for any other reason, such as a read  *)
(* that times out.  What was built lands later, or never.                  *)
(***************************************************************************)
EXTENDS FESTransactions

CONSTANTS
    Configured,  \* the plugins CIP113.init is given
    Suspects,    \* bound: the holders that are frozen
    Delayed      \* bound: the operations that may land later

\* init would throw otherwise.
ASSUME ConfiguredAssumption == Configured \subseteq Publishable /\ Suspects \subseteq Holders

VARIABLE plugins    \* from id to instance

vars == <<directory, entry, tokens, frozen, published, pool, plugins>>

Id(i) == IF i \in Dummies THEN "dummy" ELSE "freeze-and-seize"
Ids == {"dummy", "freeze-and-seize"}

requireSubstandard(id) == {plugins[id] : d \in {id} \cap DOMAIN plugins}

\* Plugins are asked in the order of the map until one succeeds.  Any failure
\* passes the call on, so that any build may be the answer.
tryAllSubstandards == {plugins[id] : id \in DOMAIN plugins}

\* The plugins that may answer an operation that takes an id or, falling back,
\* none; and those of one that must name its substandard.
Fallback == tryAllSubstandards \cup UNION {requireSubstandard(id) : id \in Ids}
Named == UNION {requireSubstandard(id) : id \in Ids}

-----------------------------------------------------------------------------
(* What each plugin builds.                                                *)

register(i, recipient, qty) ==
    IF i \in Dummies THEN dummyRegister(i, recipient, qty)
    ELSE UNION {fesRegister(i, Admin, recipient, qty, hasCIP68) : hasCIP68 \in BOOLEAN}

mint(i, policy, recipient, qty) ==
    IF i \in Dummies THEN dummyMint(i, recipient, policy, qty)
    ELSE fesMint(i, recipient, policy, qty)

burn(i, policy) ==
    IF i \in Dummies THEN dummyBurn
    ELSE UNION {fesBurn(i, policy, t) : t \in tokens}

transfer(i, policy, sender, recipient, qty) ==
    IF i \in Dummies THEN dummyTransfer(i, sender, recipient, policy, qty)
    ELSE fesTransfer(i, sender, recipient, policy, qty)

\* Each plugin has one of these and lacks the other.
administer(i, policy, holder, recipient, qty) ==
    IF i \in Dummies THEN thirdPartyTransfer(i, holder, recipient, policy, qty)
    ELSE UNION {seize(i, policy, t, recipient) : t \in Holdings(holder, policy)}

comply(i, policy, target) ==
    IF i \in Dummies THEN {}
    ELSE initCompliance(i) \cup freeze(i, policy, target) \cup unfreeze(i, policy, target)

\* Every build a plugin can be brought to on a token.
Offers(i, p) ==
    UNION {mint(i, p, to, qty) \cup burn(i, p)
             \cup UNION {transfer(i, p, from, to, qty) \cup administer(i, p, from, to, qty) :
                            from \in Holders} :
             to \in Holders, qty \in 1..MaxSupply}

-----------------------------------------------------------------------------

\* The caller submits at once, or later; either way the scripts have been
\* evaluated.
Build(tx) ==
    /\ \/ ChainLands(tx)
       \/ /\ tx.op \in Delayed
          /\ Cardinality(pool) < MaxPool
          /\ ChainAccepts(tx)
          /\ pool' = pool \cup {tx}
          /\ UNCHANGED ledger
    /\ UNCHANGED plugins

Issues ==
    \E to \in Holders, qty \in 1..MaxSupply :
        \/ \E i \in Named : \E tx \in register(i, to, qty) : Build(tx)
        \/ \E i \in Fallback, p \in Policies : \E tx \in mint(i, p, to, qty) : Build(tx)

Redeems ==
    \E i \in Fallback, p \in Policies : \E tx \in burn(i, p) : Build(tx)

Transfers ==
    \E i \in Fallback, p \in Policies, from, to \in Holders, qty \in 1..MaxSupply :
        \E tx \in transfer(i, p, from, to, qty) : Build(tx)

\* An authority is not picked by trial.
Administers ==
    \E i \in Named, p \in Policies, holder, to \in Holders, qty \in 1..MaxSupply :
        \E tx \in administer(i, p, holder, to, qty) : Build(tx)

Complies ==
    \E i \in Named, p \in Policies, target \in Suspects :
        \E tx \in comply(i, p, target) : Build(tx)

\* A second plugin of an id replaces the first.
registerSubstandard(i) ==
    /\ requirePublishHandlers(i)
    /\ plugins' = [id \in DOMAIN plugins \cup {Id(i)} |->
                     IF id = Id(i) THEN i ELSE plugins[id]]
    /\ UNCHANGED <<ledger, pool>>

\* CIP113.init registers what the configuration lists.
Init ==
    /\ ChainInit
    /\ plugins = [id \in {Id(i) : i \in Configured} |-> CHOOSE i \in Configured : Id(i) = id]

Next ==
    \/ Issues
    \/ Redeems
    \/ Transfers
    \/ Administers
    \/ Complies
    \/ \E i \in Instances : registerSubstandard(i)
    \/ \E tx \in pool : (ChainLands(tx) \/ ChainForgets(tx)) /\ UNCHANGED plugins

Spec == Init /\ [][Next]_vars

-----------------------------------------------------------------------------
(* Properties.                                                             *)

\* Every variable keeps its type, and every output of the supply is of a
\* registered policy.
TypeOK ==
    /\ directory \subseteq Node
    /\ DOMAIN entry \subseteq {0} \cup Policies
    /\ DOMAIN frozen \subseteq FreezeAndSeizes
    /\ \A i \in DOMAIN frozen : frozen[i] \subseteq Holders
    /\ \A t \in tokens : t.policy \in DOMAIN entry /\ t.owner \in Holders /\ t.qty > 0
    /\ \A id \in DOMAIN plugins : plugins[id] \in Publishable

\* Whatever registrations of the substandards race, the directory is a sound
\* list whose nodes are those of the registered policies, so that every other
\* policy still has a covering node to register at.
DirectorySound ==
    /\ Sound(directory)
    /\ {n.key : n \in directory} = DOMAIN entry

\* What a plugin builds for its own token passes every validator: each
\* position, over any order of ids and hashes, resolves to what it is meant
\* for, and continuations pair up with their inputs.
OwnBuildsAccepted ==
    \A i \in tryAllSubstandards :
        /\ \A tx \in Offers(i, PolicyOf[i]) : ChainAccepts(tx)
        /\ \A to \in Holders : \A tx \in register(i, to, MaxSupply) : ChainAccepts(tx)

\* No call on a token, misrouted or fallen back, is answered by a plugin other
\* than the token's own: the refusal of the owner, that of a frozen holder's
\* transfer included, is final.
OnlyOwnerServes ==
    \A i \in tryAllSubstandards : \A p \in Policies \ {PolicyOf[i]} :
        \A tx \in Offers(i, p) : ~ChainAccepts(tx)

\* Whoever is on the list of a token keeps it: of the transactions under way and
\* those that any plugin, by its id or by trial, can be brought to build, none
\* takes the token from a listed holder but as an act of the authority, which
\* the admin has signed.  It takes the node that the registration wrote, the
\* selection of the inputs and the routing to keep it so.
FrozenTokensStay ==
    \A i \in DOMAIN frozen : \A t \in tokens :
        t.policy = PolicyOf[i] /\ t.owner \in frozen[i] =>
            \A tx \in pool \cup UNION {Offers(j, PolicyOf[i]) : j \in tryAllSubstandards} :
                t \in TokensIn(tx) /\ ChainAccepts(tx)
                    => tx.act = "THIRD_PARTY" /\ Admin \in tx.signers

\* docs/substandards/freeze-and-seize.md:205, of compliance.freeze with the
\* policy of a token: "The address will no longer be able to transfer tokens."
\* Once the freeze has landed, no plugin builds a transfer that is accepted.
FreezeReachesToken ==
    [][\A p \in Policies, target \in Holders :
         (\E i \in requireSubstandard("freeze-and-seize") :
             \E tx \in freeze(i, p, target) : ChainLands(tx))
         => (\A i \in FreezeAndSeizes, to \in Holders, qty \in 1..MaxSupply :
                \A tx \in transfer(i, p, target, to, qty) : ~ChainAccepts(tx))']_vars
=============================================================================
