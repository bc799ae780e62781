----------------------------- MODULE MCBilling -----------------------------
(* Model-checking instances of Billing: no liveness, so symmetry is sound. *)
EXTENDS Billing, TLC

Symmetry == Permutations(Admins) \cup Permutations(Exporters)
==============================================================================
