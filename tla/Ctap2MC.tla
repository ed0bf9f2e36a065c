------------------------------ MODULE Ctap2MC ------------------------------
(* Two relying parties and two or three identifiers for two slots: a       *)
(* credential of each party, both of one, and, with three identifiers, a   *)
(* registration that finds the store full.  Nothing tells the identifiers  *)
(* apart, nor the parties.                                                 *)
EXTENDS Ctap2

Fallible == BOOLEAN
Reliable == {TRUE}
Symmetry == Permutations(CredIds) \cup Permutations(Rps)
=============================================================================
