-------------------------- MODULE MCCommissionPlan --------------------------
(* An instance of CommissionPlan: two editors, two roles. *)
EXTENDS CommissionPlan

CONSTANTS distributor, retailer
=============================================================================
