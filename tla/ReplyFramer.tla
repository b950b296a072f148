---------------------------- MODULE ReplyFramer ----------------------------
(***************************************************************************)
(* The back end of the receiver: the symbol timing loop (elg_timing_cc),   *)
(* the half symbol decoder (orthogonal_decode) and the packetizer, each in *)
(* a thread of its own, together with the MAC they call back.  Everything  *)
(* upstream of them, and the command line, is an environment that may call *)
(* its MAC methods at any moment.                                          *)
(*                                                                         *)
(* Half symbols and bits are counted; how many items one call of work      *)
(* handles is the scheduler's choice.  `next_bit' is a history variable:   *)
(* the index, in the burst being tracked, of the next bit the packetizer   *)
(* reads.                                                                  *)
(***************************************************************************)
EXTENDS RfidController

CONSTANTS
    NoTag,           \* no "rfidbts_burst" tag waits at the timing loop
    SymBufLimit,     \* items that fit between timing loop and decoder
    BitBufLimit,     \* items that fit between decoder and packetizer
    UninitStates,    \* values d_state of the packetizer may start with: its
    UninitCounts     \* constructor sets neither d_state nor the two counts

ASSUME BufferAssumption ==
    /\ SymBufLimit \in Nat \ {0, 1}
    /\ BitBufLimit \in Nat \ {0}
    /\ NoTag \notin Packets

FramerStates == {"IDLE", "OFFSET", "GET_FRAME"}

ASSUME UninitAssumption ==
    /\ UninitStates \subseteq FramerStates
    /\ UninitCounts \subseteq Nat

VARIABLES
    tag,                \* payload of the burst whose tag waits, or NoTag
    tracked,            \* payload of the burst the timing loop tracks, or Garbled
    d_symbol_counter,   \* half symbols of it still to come
    sym_buf, bit_buf,   \* items in the two buffers
    f_state,            \* d_state of the packetizer
    d_bit_offset, d_packet_len,
    next_bit,
    decoded             \* history: every packet given to decoded_message

chain == <<tag, tracked, d_symbol_counter, sym_buf, bit_buf>>
framer == <<f_state, d_bit_offset, d_packet_len, decoded>>

vars == <<mac, queues, chain, framer, next_bit>>

TypeOK ==
    /\ MacTypeOK
    /\ tag \in Packets \cup {NoTag}
    /\ tracked \in Packets \cup {Garbled}
    /\ d_symbol_counter \in Nat
    /\ sym_buf \in 0 .. SymBufLimit
    /\ bit_buf \in 0 .. BitBufLimit
    /\ f_state \in FramerStates
    /\ d_bit_offset \in Nat
    /\ d_packet_len \in Nat
    /\ next_bit \in Int
    /\ decoded \in Seq([frame : MacState, sent : Packets \cup {Garbled},
                        data : Packets \cup {Garbled}])

Init ==
    /\ MacInit
    /\ tag = NoTag
    /\ tracked = Garbled
    /\ d_symbol_counter = 0
    /\ sym_buf = 0
    /\ bit_buf = 0
    /\ f_state \in UninitStates
    /\ d_bit_offset \in UninitCounts
    /\ d_packet_len \in UninitCounts
    /\ next_bit = 0
    /\ decoded = << >>

-----------------------------------------------------------------------------
\* Slip: the counter one bit short.
SymbolSynch_Short ==
    /\ Running
    /\ d_symbol_counter = 0
    /\ tag # NoTag
    /\ symbol_synch
    /\ d_symbol_counter' = IF symbol_synch_asserts THEN OutputSymbolLen[d_mac_state] - 2 ELSE 0
    /\ next_bit' = 0 - (bit_buf + sym_buf \div 2)
    /\ tracked' = tag
    /\ tag' = NoTag
    /\ UNCHANGED <<queues, sym_buf, bit_buf, framer>>

(***************************************************************************)
(* The timing loop.  SymbolSynch is search_tag finding the tag: the call   *)
(* back, then the counter.  The bits of an earlier burst that are still on *)
(* their way come before bit 0 of the new one.                             *)
(***************************************************************************)
SymbolSynch ==
    /\ Running
    /\ d_symbol_counter = 0
    /\ tag # NoTag
    /\ symbol_synch
    /\ IF symbol_synch_asserts
       THEN /\ d_symbol_counter' = OutputSymbolLen[d_mac_state]
            /\ next_bit' = 0 - (bit_buf + sym_buf \div 2)
       ELSE UNCHANGED <<d_symbol_counter, next_bit>>
    /\ tracked' = tag
    /\ tag' = NoTag
    /\ UNCHANGED <<queues, sym_buf, bit_buf, framer>>

\* Slip: the counter is tested after the half symbols are written.
EmitSymbols_TestedLate(n) ==
    /\ Running
    /\ d_symbol_counter > 0
    /\ sym_buf + n <= SymBufLimit
    /\ d_symbol_counter' = IF n < d_symbol_counter THEN d_symbol_counter - n ELSE 0
    /\ sym_buf' = sym_buf + n
    /\ UNCHANGED <<mac, queues, tag, tracked, bit_buf, framer, next_bit>>

\* One call of general_work in SYMBOL_TRACK that writes n half symbols.
EmitSymbols(n) ==
    /\ Running
    /\ n <= d_symbol_counter
    /\ sym_buf + n <= SymBufLimit
    /\ d_symbol_counter' = d_symbol_counter - n
    /\ sym_buf' = sym_buf + n
    /\ UNCHANGED <<mac, queues, tag, tracked, bit_buf, framer, next_bit>>

\* orthogonal_decode is a decimator by two: n bits out of 2n half symbols.
OrthogonalDecode(n) ==
    /\ Running
    /\ 2 * n <= sym_buf
    /\ bit_buf + n <= BitBufLimit
    /\ sym_buf' = sym_buf - 2 * n
    /\ bit_buf' = bit_buf + n
    /\ UNCHANGED <<mac, queues, tag, tracked, d_symbol_counter, framer, next_bit>>

-----------------------------------------------------------------------------
(***************************************************************************)
(* The packetizer, one iteration of its loop per step; the loop goes on    *)
(* while work has items left.                                              *)
(***************************************************************************)
FramerIdle ==
    /\ Running
    /\ "framer" \notin inside
    /\ bit_buf > 0
    /\ f_state = "IDLE"
    /\ bit_decode
    /\ IF bit_decode_asserts
       THEN /\ d_bit_offset' = BitOffset
            /\ d_packet_len' = OutputBitLen[d_mac_state]
            /\ f_state' = "OFFSET"
       ELSE UNCHANGED <<d_bit_offset, d_packet_len, f_state>>
    /\ UNCHANGED <<queues, chain, next_bit, decoded>>

\* Slip: not limited by what is left of the field.
Take_Unlimited(t, left) ==
    /\ 0 < t /\ t <= bit_buf
    /\ bit_buf' = bit_buf - t
    /\ next_bit' = next_bit + t
    /\ UNCHANGED <<queues, tag, tracked, d_symbol_counter, sym_buf>>

\* t of the items work was given: min(noutput_items - ii, what is left)
Take(t, left) ==
    /\ bit_buf > 0
    /\ t <= bit_buf
    /\ t <= left
    /\ t > 0 \/ left = 0
    /\ bit_buf' = bit_buf - t
    /\ next_bit' = next_bit + t
    /\ UNCHANGED <<queues, tag, tracked, d_symbol_counter, sym_buf>>

\* Slip: one bit of the preamble too few skipped.
FramerOffset_Early(t) ==
    /\ Running
    /\ "framer" \notin inside
    /\ f_state = "OFFSET"
    /\ Take(t, d_bit_offset)
    /\ d_bit_offset' = d_bit_offset - t
    /\ f_state' = IF d_bit_offset' <= 1 THEN "GET_FRAME" ELSE f_state
    /\ UNCHANGED <<mac, d_packet_len, decoded>>

FramerOffset(t) ==
    /\ Running
    /\ "framer" \notin inside
    /\ f_state = "OFFSET"
    /\ Take(t, d_bit_offset)
    /\ d_bit_offset' = d_bit_offset - t
    /\ f_state' = IF d_bit_offset' = 0 THEN "GET_FRAME" ELSE f_state
    /\ UNCHANGED <<mac, d_packet_len, decoded>>

\* d_packet holds the last output_bit_len bits read.
Packet ==
    IF d_mac_state \in Frames /\ next_bit' = BitOffset + OutputBitLen[d_mac_state]
    THEN tracked
    ELSE Garbled

FramerGetFrame(t) ==
    /\ Running
    /\ "framer" \notin inside
    /\ f_state = "GET_FRAME"
    /\ Take(t, d_packet_len)
    /\ d_packet_len' = d_packet_len - t
    /\ IF d_packet_len' = 0
       THEN /\ f_state' = "IDLE"
            /\ decoded_message(Packet)
            /\ decoded' = Append(decoded, [frame |-> d_mac_state,
                                           sent |-> tracked,
                                           data |-> Packet])
       ELSE UNCHANGED <<mac, f_state, decoded>>
    /\ UNCHANGED d_bit_offset

-----------------------------------------------------------------------------
(***************************************************************************)
(* A thread inside a method of the MAC that queues a burst.                *)
(***************************************************************************)
MacStep(t) ==
    /\ Running
    /\ (queue_msg(t) \/ Return(t))
    /\ UNCHANGED <<chain, framer, next_bit>>

(***************************************************************************)
(* The environment: the main thread, pick_peak, the mux that puts one tag  *)
(* on the burst pick_peak chose, the encoder and the gate.                 *)
(***************************************************************************)
Issue ==
    /\ Running
    /\ issue_downlink_command
    /\ UNCHANGED <<queues, chain, framer, next_bit>>

Search(success) ==
    /\ Running
    /\ preamble_search(success)
    /\ UNCHANGED <<queues, chain, framer, next_bit>>

\* TAG_COPY follows the successful search that queued it, once.
TagBurst(p) ==
    /\ Running
    /\ d_state = "SYMBOL_DET"
    /\ tag = NoTag
    /\ tag' = p
    /\ UNCHANGED <<mac, queues, tracked, d_symbol_counter, sym_buf, bit_buf, framer, next_bit>>

EncoderTakes ==
    /\ Running
    /\ encoder_queue # << >>
    /\ encoder_queue' = Tail(encoder_queue)
    /\ UNCHANGED <<mac, gate_queue, chain, framer, next_bit>>

GateTakes ==
    /\ Running
    /\ gate_queue # << >>
    /\ gate_queue' = Tail(gate_queue)
    /\ UNCHANGED <<mac, encoder_queue, chain, framer, next_bit>>

Environment ==
    \/ Issue
    \/ \E success \in BOOLEAN : Search(success)
    \/ \E p \in Packets : TagBurst(p)
    \/ EncoderTakes
    \/ GateTakes

TimingLoop == SymbolSynch \/ \E n \in 1 .. SymBufLimit : EmitSymbols(n)

Decoder == \E n \in 1 .. BitBufLimit : OrthogonalDecode(n)

Framer ==
    \/ FramerIdle
    \/ \E t \in 0 .. BitBufLimit : FramerOffset(t) \/ FramerGetFrame(t)
    \/ MacStep("framer")

Next == TimingLoop \/ Decoder \/ Framer \/ MacStep("main") \/ Environment

Spec == Init /\ [][Next]_vars

(***************************************************************************)
(* Every block runs in a thread that the scheduler wakes when it has input *)
(* and output space; the encoder and the gate poll their queues.  Nothing  *)
(* makes main, pick_peak or the mux act.                                   *)
(***************************************************************************)
Fairness ==
    /\ WF_vars(TimingLoop)
    /\ WF_vars(Decoder)
    /\ WF_vars(Framer)
    /\ WF_vars(EncoderTakes)
    /\ WF_vars(GateTakes)

FairSpec == Spec /\ Fairness

-----------------------------------------------------------------------------
\* Half symbols of the tracked burst that the packetizer has not read yet.
Outstanding == d_symbol_counter + sym_buf + 2 * bit_buf

Quiet == tag = NoTag /\ Outstanding = 0 /\ f_state = "IDLE"

(***************************************************************************)
(* None of the assertions on d_state in the call backs of the back end     *)
(* (symbol_synch, bit_decode, decoded_message) can fail, whatever chunks   *)
(* the scheduler hands to the blocks and whenever main and pick_peak call. *)
(***************************************************************************)
BackEndAsserts == aborted \notin {"symbol_synch", "bit_decode", "decoded_message"}

(***************************************************************************)
(* Each packet given to decoded_message is exactly the payload of the      *)
(* burst being tracked: no bit of the preamble, none of another burst, and *)
(* there is one RN16 and then one EPC.                                     *)
(***************************************************************************)
PacketsIntact ==
    /\ Len(decoded) <= 2
    /\ \A i \in DOMAIN decoded :
          /\ decoded[i].sent \in Packets
          /\ decoded[i].data = decoded[i].sent
          /\ decoded[i].frame = <<"MS_RN16", "MS_EPC">>[i]

(***************************************************************************)
(* When a search may start, nothing of an earlier burst is on its way to   *)
(* the packetizer, so its next bit is bit 0 of the next burst.  Nothing in *)
(* the code flushes these buffers: it follows from output_symbol_len being *)
(* twice bit_offset + output_bit_len.                                      *)
(***************************************************************************)
QuietBetweenFrames == d_state \in {"READY_DOWNLINK", "PREAMBLE_DET"} => Quiet

\* Messages the MAC has queued or is about to queue for the encoder.
OnTheWay(m) ==
    \/ \E i \in DOMAIN encoder_queue : encoder_queue[i] = m
    \/ \E i \in DOMAIN body["framer"] : body["framer"][i] = m

(***************************************************************************)
(* A burst the mux has tagged is decoded: its packet reaches               *)
(* decoded_message unless another caller's assertion ends the process.     *)
(***************************************************************************)
TaggedIsDecoded ==
    \A n \in 0 .. 1 :
        (tag # NoTag /\ Len(decoded) = n) ~> (Len(decoded) > n \/ ~Running)

(***************************************************************************)
(* After an RN16 the MAC gets to the search for the EPC, however small the *)
(* command queues are (queue_msg blocks on a full queue).                  *)
(***************************************************************************)
AckGetsQueued == "framer" \in inside ~> (d_state = "PREAMBLE_DET" \/ ~Running)

-----------------------------------------------------------------------------
(***************************************************************************)
(* The inductive invariant: in every state of the MAC, where the           *)
(* packetizer is in the frame and how many half symbols are still to come. *)
(***************************************************************************)
SearchInv == d_state \in {"READY_DOWNLINK", "PREAMBLE_DET", "SYMBOL_DET"} => Outstanding = 0 /\ f_state = "IDLE"

BitDecodeInv ==
    d_state = "BIT_DECODE" =>
        /\ tag = NoTag
        /\ f_state = "IDLE"
        /\ next_bit = 0
        /\ Outstanding = OutputSymbolLen[d_mac_state]

OffsetInv ==
    (d_state = "WAIT_FOR_DECODE" /\ f_state = "OFFSET") =>
        /\ d_bit_offset > 0
        /\ d_packet_len = OutputBitLen[d_mac_state]
        /\ next_bit = BitOffset - d_bit_offset
        /\ Outstanding = 2 * (d_bit_offset + d_packet_len)

GetFrameInv ==
    (d_state = "WAIT_FOR_DECODE" /\ f_state = "GET_FRAME") =>
        /\ d_packet_len > 0
        /\ next_bit = BitOffset + OutputBitLen[d_mac_state] - d_packet_len
        /\ Outstanding = 2 * d_packet_len

DecodedInv ==
    (d_state = "WAIT_FOR_DECODE" /\ f_state = "IDLE") => Outstanding = 0

TagInv == d_state # "SYMBOL_DET" => tag = NoTag

MacInv ==
    /\ d_state # "SET_TX_BURST"
    /\ d_state # "READY_DOWNLINK" => d_mac_state \in Frames
    /\ "framer" \in inside =>
          d_state = "WAIT_FOR_DECODE" /\ f_state = "IDLE" /\ d_mac_state = "MS_EPC"

TrackedInv == d_state \in {"BIT_DECODE", "WAIT_FOR_DECODE"} => tracked \in Packets

\* The EPC is decoded when the MAC rests in WAIT_FOR_DECODE with an idle framer.
CountInv ==
    /\ d_mac_state # "MS_EPC" => decoded = << >>
    /\ d_mac_state = "MS_EPC" =>
          Len(decoded) = IF d_state = "WAIT_FOR_DECODE" /\ f_state = "IDLE" /\ "framer" \notin inside
                         THEN 2 ELSE 1

FrameInv ==
    /\ SearchInv
    /\ BitDecodeInv
    /\ OffsetInv
    /\ GetFrameInv
    /\ DecodedInv
    /\ TagInv
    /\ MacInv
    /\ TrackedInv
    /\ CountInv
    /\ PacketsIntact
    /\ BackEndAsserts
=============================================================================
