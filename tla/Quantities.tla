----------------------------- MODULE Quantities -----------------------------
(***************************************************************************)
(* The value of a set of outputs: a ledger and its builders add up the     *)
(* quantity of one unit over UTxOs in no particular order.                 *)
(***************************************************************************)
EXTENDS Integers, FiniteSetsExt

Quantity(outputs) == MapThenSumSet(LAMBDA t : t.qty, outputs)
=============================================================================
