------------------------------ MODULE SystemMC ------------------------------
(* An instance of the whole key: one application that gives up half way,   *)
(* power that fails, one slot.                                             *)
EXTENDS System

OneChannel == {"c1"}
Commands == {"PING"}
PatientHost == {TRUE}
Fallible == BOOLEAN
Reliable == {TRUE}
=============================================================================
