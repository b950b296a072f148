--------------------------- MODULE MCReplyFramer ---------------------------
(***************************************************************************)
(* Instances of ReplyFramer for TLC.  The short frames have two bits of    *)
(* preamble and two or three of payload, so that every interleaving of the *)
(* blocks, the callers and the queues is explored.                         *)
(***************************************************************************)
EXTENDS ReplyFramer

CONSTANTS rn16, epc

MCPackets == {rn16, epc}

MCZeroedHeap == {"IDLE"}
MCAnyHeap == FramerStates

MCShortSymbols == [m \in Frames |-> IF m = "MS_RN16" THEN 8 ELSE 10]
MCShortBits == [m \in Frames |-> IF m = "MS_RN16" THEN 2 ELSE 3]
=============================================================================
