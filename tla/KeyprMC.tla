------------------------------ MODULE KeyprMC ------------------------------
(* One relying party, one credential, one slot; one phone that says yes or  *)
(* no.                                                                     *)
EXTENDS Keypr

OneRp == {"rp1"}
OneId == {"id1"}
OnePhone == {"phone1"}
YesNo == {"yes", "no"}
MCLength(m) == 1
Fallible == BOOLEAN
Reliable == {TRUE}
BothBuilds == BOOLEAN
=============================================================================
