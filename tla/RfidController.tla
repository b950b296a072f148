--------------------------- MODULE RfidController ---------------------------
(***************************************************************************)
(* The MAC layer of the reader, lib/rfidbts_controller.{h,cc}: one global  *)
(* object, rfid_mac, without a lock, whose methods are called from four    *)
(* threads.  issue_downlink_command runs in the Python main thread,        *)
(* preamble_search in the thread of pick_peak, symbol_synch in the thread  *)
(* of the symbol timing loop and bit_decode / decoded_message in the       *)
(* thread of the packetizer.                                               *)
(*                                                                         *)
(* The three short call backs (an assertion, a switch and a few stores)    *)
(* are one step each.  issue_downlink_command and decoded_message queue a  *)
(* burst of messages, each message visible to its consumer as soon as it   *)
(* is queued, so they are many steps: the call, one step per queue_msg and *)
(* the return.  A failed assert ends the process: `aborted' names the      *)
(* method and no action is enabled afterwards.                             *)
(***************************************************************************)
EXTENDS Integers, Sequences, FiniteSets

CONSTANTS
    Packets,          \* payloads a tag may backscatter
    QueueLimit,       \* capacity of q_encoder and q_blocker (100 in the flowgraph)
    OutputSymbolLen,  \* half symbols symbol_synch asks for, per kind of frame
    BitOffset,        \* preamble bits bit_decode asks to skip
    OutputBitLen      \* payload bits bit_decode asks for, per kind of frame

Frames == {"MS_RN16", "MS_EPC"}

MacState == Frames \cup {"MS_IDLE"}

State == {"READY_DOWNLINK", "SET_TX_BURST", "PREAMBLE_DET", "SYMBOL_DET",
          "BIT_DECODE", "WAIT_FOR_DECODE"}

\* The payload of a packet whose bits are not those the tag sent as payload.
Garbled == "garbled"

NoData == "none"

ASSUME PacketsAssumption == {NoData, "query", Garbled} \cap Packets = {}

ASSUME QueueLimitAssumption == QueueLimit \in Nat \ {0}

(***************************************************************************)
(* The numbers written into symbol_synch and bit_decode, and what the      *)
(* chain of blocks needs of them: a frame of half symbols is exactly the   *)
(* preamble and the payload, two half symbols to a bit.                    *)
(***************************************************************************)
CodeOutputSymbolLen ==
    [m \in Frames |-> IF m = "MS_RN16" THEN 6 + 12 + 32 ELSE 6 + 12 + 32 + 96 * 2]

CodeBitOffset == 3 + 6

CodeOutputBitLen == [m \in Frames |-> IF m = "MS_RN16" THEN 16 ELSE 16 + 96]

FrameLengths(symbols, offset, bits) ==
    /\ offset \in Nat \ {0}
    /\ bits \in [Frames -> Nat \ {0}]
    /\ symbols \in [Frames -> Nat]
    /\ \A m \in Frames : symbols[m] = 2 * (offset + bits[m])

ASSUME FrameLengthsAssumption == FrameLengths(OutputSymbolLen, BitOffset, OutputBitLen)

(***************************************************************************)
(* Messages.  `to' is the queue; `len' is 0 where the code leaves the      *)
(* field unset; `data' stands for the vector of bits of DATA_BITS.         *)
(***************************************************************************)
TxTask(cmd, len, data) == [to |-> "encoder", cmd |-> cmd, len |-> len, data |-> data]

RxTask(cmd, len) == [to |-> "gate", cmd |-> cmd, len |-> len, data |-> NoData]

Message ==
    [to : {"encoder", "gate"},
     cmd : {"TURN_ON_TIMED", "TURN_ON", "PREAMBLE", "FRAME_SYNCH", "DATA_BITS",
            "RXB_GATE", "RXB_UNGATE", "RXB_DONE"},
     len : Nat,
     data : Packets \cup {NoData, "query", Garbled}]

\* Slip: the burst without setup_gate.
setup_query_ack_rep_burst_NoGate ==
    << TxTask("TURN_ON_TIMED", 500000, NoData), TxTask("PREAMBLE", 0, NoData),
       TxTask("DATA_BITS", 0, "query"), TxTask("TURN_ON", 0, NoData),
       RxTask("RXB_UNGATE", 800), RxTask("RXB_DONE", 0) >>

setup_query_ack_rep_burst ==
    << TxTask("TURN_ON_TIMED", 500000, NoData),
       TxTask("PREAMBLE", 0, NoData),
       TxTask("DATA_BITS", 0, "query"),
       TxTask("TURN_ON", 0, NoData),
       RxTask("RXB_GATE", 25 + 75 + 83 + 8 * 50 + 14 * 25 + 10),
       RxTask("RXB_UNGATE", 800),
       RxTask("RXB_DONE", 0) >>

\* Slip: the window of the RN16, copied from the query.
setup_ack_burst_ShortWindow(rn16) ==
    << TxTask("FRAME_SYNCH", 0, NoData), TxTask("DATA_BITS", 0, rn16),
       TxTask("TURN_ON", 0, NoData), RxTask("RXB_GATE", 625),
       RxTask("RXB_UNGATE", 800), RxTask("RXB_DONE", 0) >>

setup_ack_burst(rn16) ==
    << TxTask("FRAME_SYNCH", 0, NoData),
       TxTask("DATA_BITS", 0, rn16),      \* 0, 1 and the sixteen bits
       TxTask("TURN_ON", 0, NoData),
       RxTask("RXB_GATE", 25 + 75 + 25 + 50 + 14 * 25 + 2 * 50),
       RxTask("RXB_UNGATE", 2800),
       RxTask("RXB_DONE", 0) >>

(***************************************************************************)
(* State.  `inside' is the set of threads inside a method that queues a    *)
(* burst, `body[t]' the messages thread t has still to queue.              *)
(***************************************************************************)
VARIABLES d_state, d_mac_state, inside, body, aborted, encoder_queue, gate_queue

Callers == {"main", "framer"}

mac == <<d_state, d_mac_state, inside, body, aborted>>

queues == <<encoder_queue, gate_queue>>

Methods == {"issue_downlink_command", "preamble_search", "symbol_synch",
            "bit_decode", "decoded_message"}

MacTypeOK ==
    /\ d_state \in State
    /\ d_mac_state \in MacState
    /\ inside \subseteq Callers
    /\ body \in [Callers -> Seq(Message)]
    /\ aborted \in Methods \cup {"none"}
    /\ encoder_queue \in Seq(Message)
    /\ gate_queue \in Seq(Message)

MacInit ==
    /\ d_state = "READY_DOWNLINK"
    /\ d_mac_state = "MS_IDLE"
    /\ inside = {}
    /\ body = [t \in Callers |-> << >>]
    /\ aborted = "none"
    /\ encoder_queue = << >>
    /\ gate_queue = << >>

Running == aborted = "none"

Abort(method) ==
    /\ aborted' = method
    /\ UNCHANGED <<d_state, d_mac_state, inside, body>>

\* The thread enters a method that queues a burst.
Enter(t, burst) ==
    /\ inside' = inside \cup {t}
    /\ body' = [body EXCEPT ![t] = burst]
    /\ UNCHANGED aborted

issue_downlink_command ==
    /\ "main" \notin inside
    /\ IF d_state = "READY_DOWNLINK" /\ d_mac_state = "MS_IDLE"
       THEN /\ d_state' = "PREAMBLE_DET"
            /\ d_mac_state' = "MS_RN16"
            /\ Enter("main", setup_query_ack_rep_burst)
       ELSE Abort("issue_downlink_command")

preamble_search(success) ==
    IF d_state = "PREAMBLE_DET" /\ d_mac_state \in Frames
    THEN /\ d_state' = IF success THEN "SYMBOL_DET" ELSE "READY_DOWNLINK"
         /\ UNCHANGED <<d_mac_state, inside, body, aborted>>
    ELSE Abort("preamble_search")

symbol_synch_asserts == d_state = "SYMBOL_DET" /\ d_mac_state \in Frames

symbol_synch ==
    IF symbol_synch_asserts
    THEN /\ d_state' = "BIT_DECODE"
         /\ UNCHANGED <<d_mac_state, inside, body, aborted>>
    ELSE Abort("symbol_synch")

bit_decode_asserts == d_state = "BIT_DECODE" /\ d_mac_state \in Frames

bit_decode ==
    IF bit_decode_asserts
    THEN /\ d_state' = "WAIT_FOR_DECODE"
         /\ UNCHANGED <<d_mac_state, inside, body, aborted>>
    ELSE Abort("bit_decode")

\* The RN16 case stores d_state only when it returns (Return below); the EPC
\* case prints the packet and stores nothing.
decoded_message(msg) ==
    IF d_state = "WAIT_FOR_DECODE" /\ d_mac_state \in Frames
    THEN IF d_mac_state = "MS_RN16"
         THEN /\ d_mac_state' = "MS_EPC"
              /\ Enter("framer", setup_ack_burst(msg))
              /\ UNCHANGED d_state
         ELSE UNCHANGED mac
    ELSE Abort("decoded_message")

(***************************************************************************)
(* One queue_msg of the method thread t is inside of; gr_msg_queue::handle *)
(* blocks while the queue is full.                                         *)
(***************************************************************************)
queue_msg(t) ==
    /\ body[t] # << >>
    /\ LET msg == Head(body[t]) IN
       \/ /\ msg.to = "encoder"
          /\ Len(encoder_queue) < QueueLimit
          /\ encoder_queue' = Append(encoder_queue, msg)
          /\ UNCHANGED gate_queue
       \/ /\ msg.to = "gate"
          /\ Len(gate_queue) < QueueLimit
          /\ gate_queue' = Append(gate_queue, msg)
          /\ UNCHANGED encoder_queue
    /\ body' = [body EXCEPT ![t] = Tail(@)]
    /\ UNCHANGED <<d_state, d_mac_state, inside, aborted>>

\* Slip: decoded_message does not store d_state.
Return_NoStore(t) ==
    /\ t \in inside
    /\ body[t] = << >>
    /\ inside' = inside \ {t}
    /\ UNCHANGED <<d_state, d_mac_state, body, aborted, queues>>

\* The burst is queued: decoded_message prints the RN16 and stores d_state,
\* issue_downlink_command just returns.
Return(t) ==
    /\ t \in inside
    /\ body[t] = << >>
    /\ inside' = inside \ {t}
    /\ d_state' = IF t = "framer" THEN "PREAMBLE_DET" ELSE d_state
    /\ UNCHANGED <<d_mac_state, body, aborted, queues>>
=============================================================================
