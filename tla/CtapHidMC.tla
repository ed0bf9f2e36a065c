----------------------------- MODULE CtapHidMC -----------------------------
(* Instances of the transport: two applications, messages of up to three   *)
(* packets, a patient host and another.                                    *)
EXTENDS CtapHid, TLC

CONSTANTS c1, c2
TwoChannels == {c1, c2}
Symmetry == Permutations(TwoChannels)

NoCommands == {}
Commands == {"PING"}
AnyHost == BOOLEAN
Fallible == BOOLEAN
Reliable == {TRUE}
=============================================================================
