----------------------------- MODULE BlePhoneMC -----------------------------
(* One or two phones, answers of every length that matters.                *)
EXTENDS BlePhone

OnePhone == {"phone1"}
MCPeers == {"phone1", "phone2"}
MCMessages == {"yes", "no", "empty"}
YesNo == {"yes", "no"}
AsBuilt == {FALSE}
WithCallback == {TRUE}
MCLength(m) == IF m = "empty" THEN 0 ELSE 1
=============================================================================
