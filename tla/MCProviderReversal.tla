-------------------------- MODULE MCProviderReversal --------------------------
(* Instances of ProviderReversal for TLC. *)
EXTENDS ProviderReversal

CONSTANTS s1, a1, a2
=============================================================================
