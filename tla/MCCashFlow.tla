------------------------------ MODULE MCCashFlow ------------------------------
(* Instances of CashFlow for TLC. *)
EXTENDS CashFlow, TLC

CONSTANTS k1, k2, h1, h2, a1, a2, d1

OneIntent == [q \in Requests |-> "intent"]
=============================================================================
