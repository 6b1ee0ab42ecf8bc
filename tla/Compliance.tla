----------------------------- MODULE Compliance -----------------------------
(***************************************************************************)
(* What the freeze-and-seize substandard promises the holders of its       *)
(* token, with neither transactions nor UTxOs: who is frozen, and how much *)
(* each of them holds.  One step freezes or unfreezes one holder, or moves *)
(* tokens from one holder to another, or issues or redeems one holder's    *)
(* tokens; so nothing is lost or created on the way from one to another,   *)
(* and no change of the blacklist moves a token.                           *)
(***************************************************************************)
EXTENDS Integers

CONSTANT Holders

VARIABLES frozen, balance

Init == frozen = {} /\ balance = [h \in Holders |-> 0]

Freeze(h) ==
    /\ h \notin frozen
    /\ frozen' = frozen \cup {h}
    /\ UNCHANGED balance

Unfreeze(h) ==
    /\ h \in frozen
    /\ frozen' = frozen \ {h}
    /\ UNCHANGED balance

Move(from, to, q) ==
    /\ from # to
    /\ balance' = [balance EXCEPT ![from] = @ - q, ![to] = @ + q]
    /\ UNCHANGED frozen

Issue(to) ==
    /\ balance'[to] > balance[to]
    /\ balance' = [balance EXCEPT ![to] = balance'[to]]
    /\ UNCHANGED frozen

Redeem(from, q) ==
    /\ balance' = [balance EXCEPT ![from] = @ - q]
    /\ UNCHANGED frozen

Next ==
    \/ \E h \in Holders : Freeze(h) \/ Unfreeze(h) \/ Issue(h)
    \/ \E from \in Holders : \E q \in 1..balance[from] :
            Redeem(from, q) \/ \E to \in Holders : Move(from, to, q)

Spec == Init /\ [][Next]_<<frozen, balance>>
=============================================================================
