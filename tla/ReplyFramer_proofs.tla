------------------------- MODULE ReplyFramer_proofs -------------------------
(***************************************************************************)
(* Proofs about ReplyFramer for every frame length, buffer size, queue     *)
(* size and set of payloads.                                               *)
(***************************************************************************)
EXTENDS ReplyFramer, TLAPS

\* What Append does to length, domain and elements.
LEMMA AppendFacts ==
    ASSUME NEW S, NEW s \in Seq(S), NEW x \in S
    PROVE  /\ Append(s, x) \in Seq(S)
           /\ Len(Append(s, x)) = Len(s) + 1
           /\ DOMAIN s = 1 .. Len(s) /\ DOMAIN Append(s, x) = 1 .. Len(s) + 1
           /\ \A i \in 1 .. Len(s) : Append(s, x)[i] = s[i]
           /\ Append(s, x)[Len(s) + 1] = x
OBVIOUS

Bits == Packets \cup {Garbled}

\* The burst of setup_query_ack_rep_burst is a sequence of messages.
LEMMA QueryBurstType == setup_query_ack_rep_burst \in Seq(Message)
BY DEF setup_query_ack_rep_burst, TxTask, RxTask, Message, NoData

\* So is the burst of setup_ack_burst, for whatever packet was decoded.
LEMMA AckBurstType == ASSUME NEW p \in Bits PROVE setup_ack_burst(p) \in Seq(Message)
BY DEF setup_ack_burst, TxTask, RxTask, Message, NoData, Bits

\* The lengths written in symbol_synch and bit_decode satisfy what the other
\* theorems assume of them.
THEOREM CodeLengths == FrameLengths(CodeOutputSymbolLen, CodeBitOffset, CodeOutputBitLen)
BY DEF FrameLengths, CodeOutputSymbolLen, CodeBitOffset, CodeOutputBitLen, Frames

-----------------------------------------------------------------------------
LEMMA EnterType ==
    ASSUME MacTypeOK, NEW t \in Callers, NEW burst \in Seq(Message), Enter(t, burst)
    PROVE  /\ inside' \subseteq Callers
           /\ body' \in [Callers -> Seq(Message)]
           /\ aborted' = aborted
BY DEF MacTypeOK, Enter

\* Every method of the MAC keeps the type of the MAC's variables.
LEMMA MethodsType ==
    ASSUME MacTypeOK, UNCHANGED queues,
           \/ issue_downlink_command
           \/ \E success \in BOOLEAN : preamble_search(success)
           \/ symbol_synch
           \/ bit_decode
           \/ \E p \in Bits : decoded_message(p)
    PROVE  MacTypeOK'
<1>1. CASE issue_downlink_command
  <2>1. CASE Abort("issue_downlink_command")
    BY <2>1 DEF MacTypeOK, Abort, Methods, queues
  <2>2. CASE /\ d_state' = "PREAMBLE_DET" /\ d_mac_state' = "MS_RN16"
             /\ Enter("main", setup_query_ack_rep_burst)
    BY <2>2, QueryBurstType, EnterType DEF MacTypeOK, Callers, State, MacState, Frames, queues
  <2> QED BY <1>1, <2>1, <2>2 DEF issue_downlink_command
<1>2. CASE \E success \in BOOLEAN : preamble_search(success)
  BY <1>2 DEF preamble_search, MacTypeOK, Abort, Methods, State, queues
<1>3. CASE symbol_synch
  BY <1>3 DEF symbol_synch, MacTypeOK, Abort, Methods, State, queues
<1>4. CASE bit_decode
  BY <1>4 DEF bit_decode, MacTypeOK, Abort, Methods, State, queues
<1>5. CASE \E p \in Bits : decoded_message(p)
  <2> PICK p \in Bits : decoded_message(p) BY <1>5
  <2>1. CASE Abort("decoded_message")
    BY <2>1 DEF MacTypeOK, Abort, Methods, queues
  <2>2. CASE UNCHANGED mac
    BY <2>2 DEF MacTypeOK, mac, queues
  <2>3. CASE /\ d_mac_state' = "MS_EPC" /\ d_state' = d_state
             /\ Enter("framer", setup_ack_burst(p))
    BY <2>3, AckBurstType, EnterType DEF MacTypeOK, Callers, MacState, Frames, queues
  <2> QED BY <2>1, <2>2, <2>3 DEF decoded_message
<1> QED BY <1>1, <1>2, <1>3, <1>4, <1>5

\* So do the steps of a thread inside a method that queues a burst.
LEMMA QueueStepsType ==
    ASSUME MacTypeOK, NEW t \in Callers, queue_msg(t) \/ Return(t)
    PROVE  MacTypeOK'
<1>1. CASE queue_msg(t)
  <2> DEFINE msg == Head(body[t])
  <2>1. body[t] \in Seq(Message) /\ body[t] # << >>
    BY <1>1 DEF queue_msg, MacTypeOK
  <2>2. msg \in Message /\ Tail(body[t]) \in Seq(Message)
    BY <2>1
  <2>3. encoder_queue' \in Seq(Message) /\ gate_queue' \in Seq(Message)
    <3>1. \/ encoder_queue' = Append(encoder_queue, msg) /\ gate_queue' = gate_queue
          \/ gate_queue' = Append(gate_queue, msg) /\ encoder_queue' = encoder_queue
      BY <1>1, Zenon DEF queue_msg
    <3>2. encoder_queue \in Seq(Message) /\ gate_queue \in Seq(Message)
      BY DEF MacTypeOK
    <3>3. Append(encoder_queue, msg) \in Seq(Message) /\ Append(gate_queue, msg) \in Seq(Message)
      BY <2>2, <3>2
    <3> QED BY <3>1, <3>2, <3>3
  <2>4. body' \in [Callers -> Seq(Message)]
    BY <1>1, <2>2 DEF queue_msg, MacTypeOK
  <2> QED BY <1>1, <2>3, <2>4 DEF queue_msg, MacTypeOK
<1>2. CASE Return(t)
  BY <1>2 DEF Return, MacTypeOK, State, queues
<1> QED BY <1>1, <1>2

\* A step that leaves the MAC and its queues alone keeps their type.
LEMMA MacTypeUnchanged == ASSUME MacTypeOK, UNCHANGED <<mac, queues>> PROVE MacTypeOK'
BY DEF MacTypeOK, mac, queues

-----------------------------------------------------------------------------
\* The variables start in their types.
LEMMA TypeStarts == Init => TypeOK
BY UninitAssumption, BufferAssumption
   DEF Init, TypeOK, MacInit, MacTypeOK, State, MacState, Methods

\* Every step keeps them there.
LEMMA TypeStep == TypeOK /\ [Next]_vars => TypeOK'
<1> SUFFICES ASSUME TypeOK, [Next]_vars PROVE TypeOK'
  OBVIOUS
<1> USE BufferAssumption DEF TypeOK
<1>1. CASE SymbolSynch
  <2>1. MacTypeOK'
    BY <1>1, MethodsType DEF SymbolSynch
  <2>2. symbol_synch_asserts => OutputSymbolLen[d_mac_state] \in Nat
    BY FrameLengthsAssumption DEF symbol_synch_asserts, FrameLengths
  <2>3. sym_buf \div 2 \in Nat
    OBVIOUS
  <2> QED BY <1>1, <2>1, <2>2, <2>3 DEF SymbolSynch, framer
<1>2. ASSUME NEW n \in 1 .. SymBufLimit, EmitSymbols(n) PROVE TypeOK'
  BY <1>2, MacTypeUnchanged DEF EmitSymbols, framer
<1>3. ASSUME NEW n \in 1 .. BitBufLimit, OrthogonalDecode(n) PROVE TypeOK'
  BY <1>3, MacTypeUnchanged DEF OrthogonalDecode, framer
<1>4. CASE FramerIdle
  <2>1. MacTypeOK'
    BY <1>4, MethodsType DEF FramerIdle
  <2>2. bit_decode_asserts => OutputBitLen[d_mac_state] \in Nat
    BY FrameLengthsAssumption DEF bit_decode_asserts, FrameLengths
  <2> QED BY <1>4, <2>1, <2>2, FrameLengthsAssumption
          DEF FramerIdle, FrameLengths, FramerStates, chain
<1>5. ASSUME NEW t \in 0 .. BitBufLimit, FramerOffset(t) PROVE TypeOK'
  BY <1>5, MacTypeUnchanged DEF FramerOffset, Take, FramerStates, queues
<1>6. ASSUME NEW t \in 0 .. BitBufLimit, FramerGetFrame(t) PROVE TypeOK'
  <2>1. Packet \in Bits
    BY DEF Packet, Bits
  <2>2. MacTypeOK'
    BY <1>6, <2>1, MethodsType, MacTypeUnchanged DEF FramerGetFrame, Take
  <2>3. [frame |-> d_mac_state, sent |-> tracked, data |-> Packet]
          \in [frame : MacState, sent : Packets \cup {Garbled}, data : Packets \cup {Garbled}]
    BY <2>1 DEF Bits, MacTypeOK
  <2>4. decoded' \in Seq([frame : MacState, sent : Packets \cup {Garbled},
                          data : Packets \cup {Garbled}])
    <3> DEFINE e == [frame |-> d_mac_state, sent |-> tracked, data |-> Packet]
    <3>1. decoded' = decoded \/ decoded' = Append(decoded, e)
      BY <1>6, Zenon DEF FramerGetFrame
    <3>2. Append(decoded, e)
            \in Seq([frame : MacState, sent : Packets \cup {Garbled}, data : Packets \cup {Garbled}])
      BY <2>3
    <3> QED BY <3>1, <3>2
  <2>5. bit_buf' \in 0 .. BitBufLimit /\ next_bit' \in Int /\ d_packet_len' \in Nat
    BY <1>6 DEF FramerGetFrame, Take
  <2>6. f_state' \in FramerStates
    BY <1>6 DEF FramerGetFrame, FramerStates
  <2>7. UNCHANGED <<tag, tracked, d_symbol_counter, sym_buf, d_bit_offset>>
    BY <1>6 DEF FramerGetFrame, Take
  <2> QED BY <2>2, <2>4, <2>5, <2>6, <2>7
<1>7. ASSUME NEW t \in Callers, MacStep(t) PROVE TypeOK'
  BY <1>7, QueueStepsType DEF MacStep, chain, framer
<1>8. CASE Environment
  <2>1. CASE Issue
    BY <2>1, MethodsType DEF Issue, chain, framer
  <2>2. ASSUME NEW success \in BOOLEAN, Search(success) PROVE TypeOK'
    BY <2>2, MethodsType DEF Search, chain, framer
  <2>3. ASSUME NEW p \in Packets, TagBurst(p) PROVE TypeOK'
    BY <2>3, MacTypeUnchanged DEF TagBurst, framer
  <2>4. CASE EncoderTakes
    BY <2>4 DEF EncoderTakes, MacTypeOK, mac, chain, framer
  <2>5. CASE GateTakes
    BY <2>5 DEF GateTakes, MacTypeOK, mac, chain, framer
  <2> QED BY <1>8, <2>1, <2>2, <2>3, <2>4, <2>5 DEF Environment
<1>9. CASE UNCHANGED vars
  BY <1>9, MacTypeUnchanged DEF vars, chain, framer
<1> HIDE DEF TypeOK
<1> QED BY <1>1, <1>2, <1>3, <1>4, <1>5, <1>6, <1>7, <1>8, <1>9
        DEF Next, TimingLoop, Decoder, Framer, Callers

\* Every variable of the reader's back end keeps its type, for every frame
\* length, buffer size and queue size, whatever the uninitialised packetizer
\* starts with.
THEOREM TypeCorrect == Spec => []TypeOK
BY TypeStarts, TypeStep, PTL DEF Spec

-----------------------------------------------------------------------------
(***************************************************************************)
(* The frame invariant.  It needs the packetizer to start idle, which its  *)
(* constructor leaves to the memory it is given.                           *)
(***************************************************************************)
Inv == TypeOK /\ FrameInv

\* A step that moves no item and no state of the chain keeps the invariant.
LEMMA FrameInvQuietStep ==
    ASSUME Inv, UNCHANGED <<chain, framer, next_bit>>,
           UNCHANGED <<d_state, d_mac_state>>, aborted' = aborted \/ aborted' \in {"issue_downlink_command", "preamble_search"},
           "framer" \in inside' <=> "framer" \in inside
    PROVE  FrameInv'
BY DEF Inv, FrameInv, SearchInv, BitDecodeInv, OffsetInv, GetFrameInv, DecodedInv, TagInv,
       MacInv, TrackedInv, CountInv, PacketsIntact, BackEndAsserts, Outstanding, chain, framer

LEMMA IssueKeeps == ASSUME Inv, Issue PROVE FrameInv'
<1>1. CASE Abort("issue_downlink_command")
  BY <1>1, FrameInvQuietStep DEF Abort, Issue
<1>2. CASE /\ d_state = "READY_DOWNLINK" /\ d_mac_state = "MS_IDLE"
           /\ d_state' = "PREAMBLE_DET" /\ d_mac_state' = "MS_RN16"
           /\ Enter("main", setup_query_ack_rep_burst)
  BY <1>2 DEF Issue, Enter, Inv, FrameInv, SearchInv, BitDecodeInv, OffsetInv, GetFrameInv,
     DecodedInv, TagInv, MacInv, TrackedInv, CountInv, PacketsIntact, BackEndAsserts,
     Outstanding, chain, framer, Frames
<1> QED BY <1>1, <1>2 DEF Issue, issue_downlink_command

LEMMA SearchKeeps == ASSUME Inv, NEW success \in BOOLEAN, Search(success) PROVE FrameInv'
<1>1. CASE Abort("preamble_search")
  BY <1>1, FrameInvQuietStep DEF Abort, Search
<1>2. CASE /\ d_state = "PREAMBLE_DET"
           /\ d_state' = IF success THEN "SYMBOL_DET" ELSE "READY_DOWNLINK"
           /\ UNCHANGED <<d_mac_state, inside, body, aborted>>
  BY <1>2 DEF Search, Inv, FrameInv, SearchInv, BitDecodeInv, OffsetInv, GetFrameInv,
     DecodedInv, TagInv, MacInv, TrackedInv, CountInv, PacketsIntact, BackEndAsserts,
     Outstanding, chain, framer
<1> QED BY <1>1, <1>2 DEF Search, preamble_search

LEMMA TagBurstKeeps == ASSUME Inv, NEW p \in Packets, TagBurst(p) PROVE FrameInv'
BY DEF TagBurst, Inv, FrameInv, SearchInv, BitDecodeInv, OffsetInv, GetFrameInv,
     DecodedInv, TagInv, MacInv, TrackedInv, CountInv, PacketsIntact, BackEndAsserts,
     Outstanding, mac, framer

LEMMA MacStepKeeps == ASSUME Inv, NEW t \in Callers, MacStep(t) PROVE FrameInv'
<1>1. CASE queue_msg(t)
  BY <1>1, FrameInvQuietStep DEF queue_msg, MacStep
<1>2. CASE Return(t) /\ t = "main"
  BY <1>2, FrameInvQuietStep DEF Return, MacStep
<1>3. CASE Return(t) /\ t = "framer"
  BY <1>3 DEF Return, MacStep, Inv, FrameInv, SearchInv, BitDecodeInv, OffsetInv, GetFrameInv,
     DecodedInv, TagInv, MacInv, TrackedInv, CountInv, PacketsIntact, BackEndAsserts,
     Outstanding, chain, framer
<1> QED BY <1>1, <1>2, <1>3 DEF MacStep, Callers

\* symbol_synch is called only on a tagged burst, hence in SYMBOL_DET with
\* nothing outstanding.
LEMMA SymbolSynchKeeps == ASSUME Inv, SymbolSynch PROVE FrameInv'
<1>1. symbol_synch_asserts
  BY BufferAssumption DEF SymbolSynch, symbol_synch_asserts, Inv, FrameInv, TagInv, MacInv
<1>2. sym_buf = 0 /\ bit_buf = 0 /\ f_state = "IDLE"
  BY <1>1, BufferAssumption DEF symbol_synch_asserts, Inv, TypeOK, FrameInv, SearchInv, Outstanding
<1>3. next_bit' = 0 /\ d_symbol_counter' = OutputSymbolLen[d_mac_state]
  <2>1. next_bit' = 0 - (bit_buf + sym_buf \div 2) /\ d_symbol_counter' = OutputSymbolLen[d_mac_state]
    BY <1>1, Zenon DEF SymbolSynch
  <2> QED BY <1>2, <2>1
<1>4. /\ d_state' = "BIT_DECODE"
      /\ UNCHANGED <<d_mac_state, inside, body, aborted>>
  BY <1>1 DEF SymbolSynch, symbol_synch
<1>5. tracked' \in Packets
  BY DEF SymbolSynch, Inv, TypeOK
<1>6. Outstanding' = OutputSymbolLen[d_mac_state]
  BY <1>1, <1>2, <1>3, FrameLengthsAssumption
     DEF SymbolSynch, Outstanding, FrameLengths, symbol_synch_asserts
<1> QED BY <1>1, <1>2, <1>3, <1>4, <1>5, <1>6
        DEF SymbolSynch, symbol_synch_asserts, framer, Inv, FrameInv, SearchInv, BitDecodeInv,
            OffsetInv, GetFrameInv, DecodedInv, TagInv, MacInv, TrackedInv, CountInv,
            PacketsIntact, BackEndAsserts

\* Moving half symbols and bits along the chain leaves Outstanding as it is.
LEMMA ChainStepKeeps ==
    ASSUME Inv, Outstanding' = Outstanding, UNCHANGED <<mac, tag, tracked, framer, next_bit>>
    PROVE  FrameInv'
BY DEF Inv, FrameInv, SearchInv, BitDecodeInv, OffsetInv, GetFrameInv, DecodedInv, TagInv,
       MacInv, TrackedInv, CountInv, PacketsIntact, BackEndAsserts, mac, framer

LEMMA EmitSymbolsKeeps ==
    ASSUME Inv, NEW n \in 1 .. SymBufLimit, EmitSymbols(n) PROVE FrameInv'
<1>1. Outstanding' = Outstanding
  BY BufferAssumption DEF EmitSymbols, Outstanding, Inv, TypeOK
<1> QED BY <1>1, ChainStepKeeps DEF EmitSymbols

LEMMA OrthogonalDecodeKeeps ==
    ASSUME Inv, NEW n \in 1 .. BitBufLimit, OrthogonalDecode(n) PROVE FrameInv'
<1>1. Outstanding' = Outstanding
  BY BufferAssumption DEF OrthogonalDecode, Outstanding, Inv, TypeOK
<1> QED BY <1>1, ChainStepKeeps DEF OrthogonalDecode

\* The packetizer sees a bit only of a burst being tracked, so bit_decode is
\* called in BIT_DECODE and the whole frame is still outstanding.
LEMMA FramerIdleKeeps == ASSUME Inv, FramerIdle PROVE FrameInv'
<1>1. Outstanding > 0
  BY BufferAssumption DEF FramerIdle, Outstanding, Inv, TypeOK
<1>2. d_state = "BIT_DECODE"
  BY <1>1 DEF FramerIdle, Inv, FrameInv, TypeOK, MacTypeOK, State, SearchInv, DecodedInv, MacInv
<1>3. d_mac_state \in Frames /\ bit_decode_asserts
  BY <1>2 DEF bit_decode_asserts, Inv, FrameInv, MacInv
<1>4. /\ d_state' = "WAIT_FOR_DECODE"
      /\ UNCHANGED <<d_mac_state, inside, body, aborted>>
  BY <1>3 DEF FramerIdle, bit_decode
<1>5. /\ d_bit_offset' = BitOffset
      /\ d_packet_len' = OutputBitLen[d_mac_state]
      /\ f_state' = "OFFSET"
  BY <1>3 DEF FramerIdle
<1>6. Outstanding' = 2 * (BitOffset + OutputBitLen[d_mac_state]) /\ next_bit' = 0
  BY <1>2, <1>3, FrameLengthsAssumption
     DEF FramerIdle, Inv, FrameInv, BitDecodeInv, Outstanding, chain, FrameLengths
<1>7. BitOffset > 0 /\ BitOffset \in Nat
  BY FrameLengthsAssumption DEF FrameLengths
<1> QED BY <1>2, <1>3, <1>4, <1>5, <1>6, <1>7
        DEF FramerIdle, chain, Inv, FrameInv, SearchInv, BitDecodeInv, OffsetInv, GetFrameInv,
            DecodedInv, TagInv, MacInv, TrackedInv, CountInv, PacketsIntact, BackEndAsserts

\* Reading t bits takes 2 * t half symbols off what is outstanding.
LEMMA TakeOutstanding ==
    ASSUME Inv, NEW t \in 0 .. BitBufLimit, NEW left \in Nat, Take(t, left)
    PROVE  Outstanding' = Outstanding - 2 * t /\ next_bit' = next_bit + t /\ t <= left
BY BufferAssumption DEF Take, Outstanding, Inv, TypeOK

\* In OFFSET or GET_FRAME the MAC waits for the packet.
LEMMA InFrame ==
    ASSUME Inv, f_state # "IDLE"
    PROVE  /\ d_state = "WAIT_FOR_DECODE"
           /\ d_mac_state \in Frames
           /\ OutputBitLen[d_mac_state] \in Nat \ {0}
           /\ BitOffset \in Nat \ {0}
BY FrameLengthsAssumption
   DEF Inv, TypeOK, MacTypeOK, State, FrameInv, SearchInv, BitDecodeInv, MacInv, FrameLengths

LEMMA FramerOffsetKeeps ==
    ASSUME Inv, NEW t \in 0 .. BitBufLimit, FramerOffset(t) PROVE FrameInv'
<1>1. /\ d_state = "WAIT_FOR_DECODE" /\ d_mac_state \in Frames
      /\ OutputBitLen[d_mac_state] \in Nat \ {0} /\ BitOffset \in Nat \ {0}
  BY InFrame DEF FramerOffset
<1>2. Outstanding' = Outstanding - 2 * t /\ next_bit' = next_bit + t /\ t <= d_bit_offset
  BY TakeOutstanding DEF FramerOffset, Inv, TypeOK
<1>3. /\ d_packet_len = OutputBitLen[d_mac_state]
      /\ next_bit = BitOffset - d_bit_offset
      /\ Outstanding = 2 * (d_bit_offset + d_packet_len)
  BY <1>1 DEF FramerOffset, Inv, FrameInv, OffsetInv
<1>4. Outstanding' = 2 * (d_bit_offset' + d_packet_len) /\ next_bit' = BitOffset - d_bit_offset'
  <2>1. d_bit_offset' = d_bit_offset - t
    BY DEF FramerOffset
  <2>2. d_bit_offset \in Nat /\ d_packet_len \in Nat
    BY DEF Inv, TypeOK
  <2>3. t \in Int
    OBVIOUS
  <2> QED BY ONLY <1>1, <1>2, <1>3, <2>1, <2>2, <2>3
<1>5. UNCHANGED <<mac, tag, tracked, d_packet_len, decoded>>
  BY DEF FramerOffset, Take
<1>6. CASE d_bit_offset' = 0
  <2>1. f_state' = "GET_FRAME"
    BY <1>6 DEF FramerOffset
  <2>2. /\ Outstanding' = 2 * d_packet_len
        /\ next_bit' = BitOffset + OutputBitLen[d_mac_state] - d_packet_len
        /\ d_packet_len > 0
    BY <1>1, <1>3, <1>4, <1>6
  <2> QED BY <1>1, <1>3, <1>5, <2>1, <2>2
          DEF FramerOffset, mac, Inv, FrameInv, SearchInv, BitDecodeInv, OffsetInv, GetFrameInv,
     DecodedInv, TagInv, MacInv, TrackedInv, CountInv, PacketsIntact, BackEndAsserts
<1>7. CASE d_bit_offset' # 0
  <2>1. f_state' = "OFFSET" /\ d_bit_offset' > 0
    BY <1>2, <1>7 DEF FramerOffset, Inv, TypeOK
  <2> QED BY <1>1, <1>3, <1>4, <1>5, <2>1
          DEF FramerOffset, mac, Inv, FrameInv, SearchInv, BitDecodeInv, OffsetInv, GetFrameInv,
     DecodedInv, TagInv, MacInv, TrackedInv, CountInv, PacketsIntact, BackEndAsserts
<1> QED BY <1>6, <1>7

\* The last bit of a packet is the last bit of the burst, so the packet is the
\* payload, and decoded_message is called in WAIT_FOR_DECODE.
LEMMA FramerGetFrameKeeps ==
    ASSUME Inv, NEW t \in 0 .. BitBufLimit, FramerGetFrame(t) PROVE FrameInv'
<1>1. /\ d_state = "WAIT_FOR_DECODE" /\ d_mac_state \in Frames
      /\ OutputBitLen[d_mac_state] \in Nat \ {0} /\ BitOffset \in Nat \ {0}
  BY InFrame DEF FramerGetFrame
<1>2. Outstanding' = Outstanding - 2 * t /\ next_bit' = next_bit + t /\ t <= d_packet_len
  BY TakeOutstanding DEF FramerGetFrame, Inv, TypeOK
<1>3. /\ d_packet_len > 0
      /\ next_bit = BitOffset + OutputBitLen[d_mac_state] - d_packet_len
      /\ Outstanding = 2 * d_packet_len
  BY <1>1 DEF FramerGetFrame, Inv, FrameInv, GetFrameInv
<1>4. /\ d_packet_len' = d_packet_len - t
      /\ Outstanding' = 2 * d_packet_len'
      /\ next_bit' = BitOffset + OutputBitLen[d_mac_state] - d_packet_len'
  <2>1. d_packet_len' = d_packet_len - t
    BY DEF FramerGetFrame
  <2>2. d_packet_len \in Nat
    BY DEF Inv, TypeOK
  <2>3. t \in Int
    OBVIOUS
  <2> QED BY ONLY <1>1, <1>2, <1>3, <2>1, <2>2, <2>3
<1>5. UNCHANGED <<tag, tracked, d_bit_offset>> /\ "framer" \notin inside
  BY DEF FramerGetFrame, Take
<1>6. CASE d_packet_len' # 0
  <2>1. UNCHANGED <<mac, f_state, decoded>> /\ d_packet_len' > 0
    BY <1>2, <1>4, <1>6 DEF FramerGetFrame, Inv, TypeOK
  <2> QED BY <1>1, <1>4, <1>5, <2>1
          DEF FramerGetFrame, mac, Inv, FrameInv, SearchInv, BitDecodeInv, OffsetInv, GetFrameInv,
     DecodedInv, TagInv, MacInv, TrackedInv, CountInv, PacketsIntact, BackEndAsserts
<1>7. CASE d_packet_len' = 0
  <2> DEFINE e == [frame |-> d_mac_state, sent |-> tracked, data |-> tracked]
  <2>1. Packet = tracked /\ tracked \in Packets
    BY <1>1, <1>4, <1>7 DEF Packet, Inv, FrameInv, TrackedInv
  <2>2. f_state' = "IDLE" /\ decoded_message(tracked) /\ decoded' = Append(decoded, e)
    BY <1>7, <2>1 DEF FramerGetFrame
  <2>3. Outstanding' = 0
    BY <1>4, <1>7
  <2>4. Running
    BY DEF FramerGetFrame
  <2>5. CASE d_mac_state = "MS_RN16"
    <3>1. decoded = << >>
      BY <2>5 DEF Inv, FrameInv, CountInv
    <3>2. /\ d_state' = d_state /\ d_mac_state' = "MS_EPC" /\ aborted' = aborted
          /\ inside' = inside \cup {"framer"}
      BY <1>1, <2>2, <2>5 DEF decoded_message, Enter
    <3>3. decoded' = << e >> /\ e.frame = "MS_RN16" /\ e.sent = tracked /\ e.data = tracked
      BY <2>2, <2>5, <3>1
    <3> HIDE DEF e
    <3>4. PacketsIntact' /\ CountInv'
      BY <1>1, <2>1, <2>2, <3>2, <3>3 DEF PacketsIntact, CountInv
    <3> QED BY <1>1, <1>5, <2>1, <2>2, <2>3, <3>2, <3>4
            DEF Inv, FrameInv, SearchInv, BitDecodeInv, OffsetInv, GetFrameInv, DecodedInv,
                TagInv, MacInv, TrackedInv, BackEndAsserts, Frames
  <2>6. CASE d_mac_state = "MS_EPC"
    <3>1. Len(decoded) = 1
      BY <1>1, <2>6 DEF FramerGetFrame, Inv, FrameInv, CountInv
    <3>2. UNCHANGED mac
      BY <1>1, <2>2, <2>6 DEF decoded_message
    <3>3. /\ Len(decoded') = 2 /\ decoded'[1] = decoded[1] /\ decoded'[2] = e
          /\ DOMAIN decoded' = 1 .. 2 /\ DOMAIN decoded = 1 .. 1
      <4> DEFINE R == [frame : MacState, sent : Packets \cup {Garbled}, data : Packets \cup {Garbled}]
      <4>1. decoded \in Seq(R)
        BY DEF Inv, TypeOK
      <4>2. e \in R
        BY <2>1 DEF Inv, TypeOK, MacTypeOK
      <4> HIDE DEF R, e
      <4>3. DOMAIN decoded = 1 .. Len(decoded) /\ DOMAIN decoded' = 1 .. Len(decoded) + 1
        BY <2>2, <4>1, <4>2, AppendFacts
      <4>4. Len(decoded') = Len(decoded) + 1 /\ decoded'[Len(decoded) + 1] = e
        BY <2>2, <4>1, <4>2, AppendFacts
      <4>5. \A i \in 1 .. Len(decoded) : decoded'[i] = decoded[i]
        BY <2>2, <4>1, <4>2, AppendFacts
      <4> QED BY <3>1, <4>3, <4>4, <4>5
    <3>4. e.frame = "MS_EPC" /\ e.sent = tracked /\ e.data = tracked
      BY <2>6
    <3> HIDE DEF e
    <3>5. PacketsIntact'
      BY <2>1, <3>3, <3>4 DEF PacketsIntact, Inv, FrameInv
    <3>6. CountInv'
      BY <1>1, <1>5, <2>2, <2>6, <3>2, <3>3 DEF CountInv, mac
    <3> QED BY <1>1, <1>5, <2>1, <2>2, <2>3, <3>2, <3>5, <3>6
            DEF mac, Inv, FrameInv, SearchInv, BitDecodeInv, OffsetInv, GetFrameInv, DecodedInv,
                TagInv, MacInv, TrackedInv, BackEndAsserts, Frames
  <2> QED BY <1>1, <2>5, <2>6 DEF Frames
<1> QED BY <1>6, <1>7

-----------------------------------------------------------------------------
\* An idle packetizer starts in the invariant.
LEMMA FrameStarts == ASSUME UninitStates = {"IDLE"} PROVE Init => FrameInv
BY BufferAssumption
   DEF Init, MacInit, FrameInv, SearchInv, BitDecodeInv, OffsetInv, GetFrameInv, DecodedInv,
       TagInv, MacInv, TrackedInv, CountInv, PacketsIntact, BackEndAsserts, Outstanding

\* Every step keeps it.
LEMMA FrameStep == Inv /\ [Next]_vars => FrameInv'
<1> SUFFICES ASSUME Inv, [Next]_vars PROVE FrameInv'
  OBVIOUS
<1>1. CASE Environment
  <2>1. CASE EncoderTakes
    BY <2>1, FrameInvQuietStep DEF EncoderTakes, mac
  <2>2. CASE GateTakes
    BY <2>2, FrameInvQuietStep DEF GateTakes, mac
  <2> QED BY <1>1, <2>1, <2>2, IssueKeeps, SearchKeeps, TagBurstKeeps DEF Environment
<1>2. CASE UNCHANGED vars
  BY <1>2, FrameInvQuietStep DEF vars, mac
<1> QED BY <1>1, <1>2, SymbolSynchKeeps, EmitSymbolsKeeps, OrthogonalDecodeKeeps,
           FramerIdleKeeps, FramerOffsetKeeps, FramerGetFrameKeeps, MacStepKeeps
        DEF Next, TimingLoop, Decoder, Framer, Callers

(***************************************************************************)
(* The frame invariant holds from an idle packetizer on.                   *)
(***************************************************************************)
THEOREM FrameInvariant == ASSUME UninitStates = {"IDLE"} PROVE Spec => [](TypeOK /\ FrameInv)
<1>1. TypeOK /\ FrameInv /\ [Next]_vars => (TypeOK /\ FrameInv)'
  BY TypeStep, FrameStep DEF Inv
<1> QED BY <1>1, TypeStarts, FrameStarts, PTL DEF Spec

\* Whatever the frame lengths that satisfy FrameLengths, the buffer sizes and
\* the chunks, no assertion in the call backs of the back end fails.
THEOREM BackEndSafe == ASSUME UninitStates = {"IDLE"} PROVE Spec => []BackEndAsserts
<1>1. FrameInv => BackEndAsserts
  BY DEF FrameInv
<1> QED BY <1>1, FrameInvariant, PTL

\* Every packet the MAC is given is the payload of the burst it came from.
THEOREM PacketsAreIntact == ASSUME UninitStates = {"IDLE"} PROVE Spec => []PacketsIntact
<1>1. FrameInv => PacketsIntact
  BY DEF FrameInv
<1> QED BY <1>1, FrameInvariant, PTL

\* Between frames the chain is empty, though nothing flushes it.
THEOREM ChainIsQuiet == ASSUME UninitStates = {"IDLE"} PROVE Spec => []QuietBetweenFrames
<1>1. FrameInv => QuietBetweenFrames
  BY DEF FrameInv, SearchInv, TagInv, QuietBetweenFrames, Quiet
<1> QED BY <1>1, FrameInvariant, PTL
=============================================================================
