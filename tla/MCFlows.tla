------------------------------- MODULE MCFlows -------------------------------
(* One instance of CashFlow with three scenarios, told apart by the keys   *)
(* the handlers start with: two requests with one withdrawal key, two      *)
(* admins and redelivered calls; two requests of one intent under two      *)
(* withdrawal keys and two admins; one deposit, two admins and redelivered *)
(* calls.                                                                  *)
EXTENDS MCCashFlow

CONSTANT k3

OneDeposit == KeyOf(h1) = k3
TwoKeys == KeyOf(h1) # KeyOf(h2)

MCInit == Init /\ <<KeyOf(h1), KeyOf(h2)>> \in {<<k1, k1>>, <<k1, k2>>, <<k3, k3>>}

Scenario ==
  /\ OneDeposit => flow[h2].at = "Begin"
  /\ TwoKeys => /\ redelivered = 0
                /\ admin[a2].at \in {"Idle", "Resolving"} /\ admin[a2].ref \in {k1, NoRef}

(* The first admin does not give up; the second may stop at any time. *)
MCSpec == MCInit /\ [][Next /\ Scenario']_vars /\ AdminFairness(a1)
=============================================================================
