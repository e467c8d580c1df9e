----------------------- MODULE MCProviderTransaction -----------------------
(* Instances of ProviderTransaction for TLC.  No handler reads or writes   *)
(* more than one row, so one row at a time shows every interleaving: the   *)
(* run has a deposit and a withdrawal and goes on with the one created.    *)
EXTENDS ProviderTransaction, FiniteSets, Naturals, TLC

OneRow == Cardinality({r \in Refs : Exists(r)}) <= 1

(* Workers are interchangeable: no action tells one from another. *)
WorkerSymmetry == Permutations(Workers)
=============================================================================
