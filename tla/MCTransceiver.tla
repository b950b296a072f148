--------------------------- MODULE MCTransceiver ---------------------------
(***************************************************************************)
(* Instances of Transceiver for TLC: one tag with one RN16 and one EPC,    *)
(* frames of two bits of preamble and one or two of payload.                *)
(***************************************************************************)
EXTENDS Transceiver

CONSTANTS rn16, epc, noise

MCPackets == {rn16, epc, noise}
MCRN16s == {rn16}

MCSymbols == [m \in Frames |-> IF m = "MS_RN16" THEN 6 ELSE 8]
MCBits == [m \in Frames |-> IF m = "MS_RN16" THEN 1 ELSE 2]
=============================================================================
