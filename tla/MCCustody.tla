------------------------------ MODULE MCCustody ------------------------------
(* Model-checking instances of Custody. *)
EXTENDS Custody, TLC

Symmetry == Permutations(Calls) \cup Permutations(Prints)
==============================================================================
