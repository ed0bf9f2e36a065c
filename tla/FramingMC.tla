----------------------------- MODULE FramingMC -----------------------------
(* Packets with room for 2 and 4 bytes and three sequence numbers: lengths *)
(* up to the longest they can number, two messages.                        *)
EXTENDS Framing
=============================================================================
