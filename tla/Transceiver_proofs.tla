------------------------- MODULE Transceiver_proofs -------------------------
(***************************************************************************)
(* Proofs about the flowgraph for every set of correlators, payloads and   *)
(* frame lengths, and every capacity of the queues and buffers.            *)
(***************************************************************************)
EXTENDS Transceiver, ReplyFramer_proofs, FiniteSetTheorems

-----------------------------------------------------------------------------
(***************************************************************************)
(* FlushAll goes through the correlators in the order of their indices.    *)
(***************************************************************************)
Rank(c) == Cardinality({d \in Correlators : d < c})

LEMMA RankGrows ==
    ASSUME NEW c \in Correlators, NEW d \in Correlators, c < d
    PROVE  Rank(c) \in Nat /\ Rank(d) \in Nat /\ Rank(c) < Rank(d)
<1> DEFINE B(e) == {x \in Correlators : x < e}
<1>1. IsFiniteSet(B(c)) /\ IsFiniteSet(B(d))
  BY TransceiverAssumption, FS_Subset
<1>2. B(c) \in SUBSET B(d) /\ c \in B(d) /\ c \notin B(c)
  <2>1. c \in Nat /\ d \in Nat /\ \A x \in Correlators : x \in Nat
    BY TransceiverAssumption
  <2>2. \A x \in B(c) : x \in B(d)
    BY <2>1
  <2>3. c \in B(d) /\ c \notin B(c)
    BY <2>1
  <2> HIDE DEF B
  <2> QED BY <2>2, <2>3
<1>3. Cardinality(B(c)) <= Cardinality(B(d)) /\ Cardinality(B(c)) # Cardinality(B(d))
  BY <1>1, <1>2, FS_Subset
<1>4. Cardinality(B(c)) \in Nat /\ Cardinality(B(d)) \in Nat
  BY <1>1, FS_CardinalityType
<1> QED BY <1>3, <1>4 DEF Rank

LEMMA RankBounds ==
    ASSUME NEW c \in Correlators PROVE Rank(c) \in 0 .. Cardinality(Correlators) - 1
<1> DEFINE B == {x \in Correlators : x < c}
<1>1. IsFiniteSet(Correlators) /\ B \in SUBSET Correlators /\ c \notin B
  BY TransceiverAssumption
<1>2. Cardinality(B) <= Cardinality(Correlators) /\ Cardinality(B) # Cardinality(Correlators)
  BY <1>1, FS_Subset
<1>3. Cardinality(B) \in Nat /\ Cardinality(Correlators) \in Nat
  BY <1>1, FS_Subset, FS_CardinalityType
<1> QED BY <1>2, <1>3 DEF Rank

\* Each rank below the number of correlators belongs to one of them.
LEMMA RankTaken ==
    ASSUME NEW k \in 0 .. Cardinality(Correlators) - 1
    PROVE  \E c \in Correlators : Rank(c) = k
<1> DEFINE n == Cardinality(Correlators)
           f == [c \in Correlators |-> Rank(c)]
<1>1. n \in Nat
  BY TransceiverAssumption, FS_CardinalityType
<1>2. f \in [Correlators -> 0 .. n - 1]
  BY RankBounds
<1>3. ASSUME NEW c \in Correlators, NEW d \in Correlators, f[c] = f[d] PROVE c = d
  <2>1. ~(c < d) /\ ~(d < c)
    BY <1>3, RankGrows
  <2> QED BY <2>1, TransceiverAssumption
<1>4. f \in Injection(Correlators, 0 .. n - 1)
  BY <1>2, <1>3 DEF Injection, IsInjective
<1>5. IsFiniteSet(0 .. n - 1) /\ Cardinality(0 .. n - 1) = n
  <2>1. /\ IsFiniteSet(0 .. n - 1)
        /\ Cardinality(0 .. n - 1) = IF 0 > n - 1 THEN 0 ELSE (n - 1) - 0 + 1
    <3>1. 0 \in Int /\ n - 1 \in Int
      BY <1>1
    <3> HIDE DEF n
    <3> QED BY <3>1, FS_Interval
  <2> QED BY <1>1, <2>1
<1>6. f \in Surjection(Correlators, 0 .. n - 1)
  BY <1>4, <1>5, FS_Injection
<1> QED BY <1>6 DEF Surjection

\* FlushAll has one FLUSH for every correlator and nothing else.
LEMMA FlushAllFacts ==
    /\ FlushAll \in Seq([cmd : {"MUX_FLUSH"}, in_sel : Correlators])
    /\ \A c \in Correlators :
          \E i \in DOMAIN FlushAll : FlushAll[i] = MuxCommand("MUX_FLUSH", c)
<1> DEFINE n == Cardinality(Correlators)
           At(i) == CHOOSE c \in Correlators : Cardinality({d \in Correlators : d < c}) = i - 1
<1>1. n \in Nat
  BY TransceiverAssumption, FS_CardinalityType
<1>2. ASSUME NEW i \in 1 .. n PROVE At(i) \in Correlators /\ Rank(At(i)) = i - 1
  <2>1. i - 1 \in 0 .. n - 1
    BY <1>1
  <2>2. \E c \in Correlators : Cardinality({d \in Correlators : d < c}) = i - 1
    BY <2>1, RankTaken DEF Rank
  <2> QED BY <2>2 DEF Rank
<1>3. FlushAll = [i \in 1 .. n |-> MuxCommand("MUX_FLUSH", At(i))]
  BY DEF FlushAll
<1> HIDE DEF At
<1>4. FlushAll \in Seq([cmd : {"MUX_FLUSH"}, in_sel : Correlators])
  <2>1. \A i \in 1 .. n : MuxCommand("MUX_FLUSH", At(i)) \in [cmd : {"MUX_FLUSH"}, in_sel : Correlators]
    BY <1>2 DEF MuxCommand
  <2> HIDE DEF n
  <2> QED BY <1>1, <1>3, <2>1
<1>5. ASSUME NEW c \in Correlators
      PROVE  \E i \in DOMAIN FlushAll : FlushAll[i] = MuxCommand("MUX_FLUSH", c)
  <2>1. Rank(c) + 1 \in 1 .. n
    BY <1>1, RankBounds
  <2>2. At(Rank(c) + 1) \in Correlators /\ Rank(At(Rank(c) + 1)) = Rank(c)
    BY <1>2, <2>1, RankBounds
  <2>3. ~(At(Rank(c) + 1) < c) /\ ~(c < At(Rank(c) + 1))
    BY <2>2, RankGrows
  <2>4. At(Rank(c) + 1) = c
    <3>1. At(Rank(c) + 1) \in Nat /\ c \in Nat
      BY <2>2, TransceiverAssumption
    <3> QED BY <2>3, <3>1
  <2> QED BY <1>3, <2>1, <2>4
<1> QED BY <1>4, <1>5

-----------------------------------------------------------------------------
(***************************************************************************)
(* The types of the round.  Each queue holds only tasks its reader knows.  *)
(***************************************************************************)
SentData == Packets \cup {NoData, "query", Garbled}

EncoderTasks ==
    [to : {"encoder"},
     cmd : {"TURN_ON_TIMED", "TURN_ON", "PREAMBLE", "FRAME_SYNCH", "DATA_BITS"},
     len : Nat, data : SentData]

GateTasks ==
    [to : {"gate"}, cmd : {"RXB_GATE", "RXB_UNGATE", "RXB_DONE"}, len : Nat, data : SentData]

Marks == [kind : {"carrier", "delimiter", "bits"}, data : SentData, reply : Packets]

Windows == [len : Nat, reply : Packets]

MuxCommands ==
    [cmd : {"MUX_DELETE", "MUX_COPY", "MUX_TAG", "MUX_FLUSH"}, in_sel : Correlators]

QueueTypes ==
    /\ body \in [Callers -> Seq(EncoderTasks \cup GateTasks)]
    /\ encoder_queue \in Seq(EncoderTasks)
    /\ gate_queue \in Seq(GateTasks)

FrontTypes ==
    /\ commands \in Nat
    /\ e_state \in {"OFF_IDLE", "ON_IDLE", "ON_TIMED", "SEND_SAMPLES", "GET_TASK"}
    /\ e_frame \in SentData \cup {"delimiter"}
    /\ tag_rn16 \in Packets
    /\ air \in Seq(Marks)
    /\ g_state \in {"TXOFF", "TXON_MUTE", "COMMAND", "WAIT", "UNMUTE"}
    /\ g_carrier \in BOOLEAN
    /\ g_reply \in Packets
    /\ bursts \in Seq(Windows)

SearchTypes ==
    /\ counted \in [Correlators -> Nat]
    /\ peaks \in [Correlators -> Seq(BOOLEAN)]
    /\ searched \in Nat
    /\ winners \subseteq Correlators
    /\ prompt \in Prompts
    /\ mux_queue \in Seq(MuxCommands)
    /\ mux_at \in [Correlators -> Nat \ {0}]
    /\ copied \in BOOLEAN

RoundTypes == QueueTypes /\ FrontTypes /\ SearchTypes

(***************************************************************************)
(* What the refinement needs beyond types: while the process runs, the mux *)
(* has a TAG command to do only in SYMBOL_DET, one of them, and no tag is  *)
(* waiting at the timing loop.                                             *)
(***************************************************************************)
IsTag(i) == mux_queue[i].cmd = "MUX_TAG"

TagPending ==
    Running => \A i \in DOMAIN mux_queue : IsTag(i) =>
                  /\ d_state = "SYMBOL_DET"
                  /\ tag = NoTag
                  /\ \A j \in DOMAIN mux_queue : IsTag(j) => j = i

\* decoded_message is the only method that is left in its own state.
FramerWaits == "framer" \in inside => d_state = "WAIT_FOR_DECODE"

SimInv == TypeOK /\ RoundTypes /\ TagInv /\ FramerWaits /\ TagPending

-----------------------------------------------------------------------------
\* What Head and Tail return.
LEMMA TailFacts ==
    ASSUME NEW S, NEW s \in Seq(S), s # << >>
    PROVE  /\ Head(s) \in S /\ Head(s) = s[1] /\ Len(s) > 0 /\ Len(s) \in Nat
           /\ Tail(s) \in Seq(S) /\ Len(Tail(s)) = Len(s) - 1
           /\ \A i \in 1 .. Len(s) - 1 : Tail(s)[i] = s[i + 1]
           /\ DOMAIN s = 1 .. Len(s) /\ DOMAIN Tail(s) = 1 .. Len(s) - 1
OBVIOUS

LEMMA SeqMonotone == ASSUME NEW S, NEW T, S \subseteq T, NEW s \in Seq(S) PROVE s \in Seq(T)
OBVIOUS

\* What concatenation returns.
LEMMA ConcatFacts ==
    ASSUME NEW S, NEW s \in Seq(S), NEW t \in Seq(S)
    PROVE  /\ s \o t \in Seq(S) /\ Len(s \o t) = Len(s) + Len(t)
           /\ DOMAIN (s \o t) = 1 .. Len(s) + Len(t)
           /\ \A i \in 1 .. Len(s) : (s \o t)[i] = s[i]
           /\ \A i \in 1 .. Len(t) : (s \o t)[Len(s) + i] = t[i]
OBVIOUS

\* The number of the burst an input is at.
LEMMA BurstAtFacts ==
    ASSUME NEW x \in Nat \ {0}
    PROVE  /\ (x + 1) \div 2 \in Nat \ {0}
           /\ x % 2 = 1 => x = 2 * ((x + 1) \div 2) - 1
           /\ x % 2 # 1 => x = 2 * ((x + 1) \div 2)
OBVIOUS

LEMMA MuxCommandsType ==
    /\ FlushAll \in Seq(MuxCommands)
    /\ \A c \in Correlators : CopyOut(c) \in Seq(MuxCommands)
<1>1. [cmd : {"MUX_FLUSH"}, in_sel : Correlators] \subseteq MuxCommands
  BY DEF MuxCommands
<1>2. FlushAll \in Seq(MuxCommands)
  BY <1>1, FlushAllFacts, SeqMonotone
<1>3. ASSUME NEW c \in Correlators PROVE CopyOut(c) \in Seq(MuxCommands)
  BY DEF CopyOut, MuxCommand, MuxCommands
<1> QED BY <1>2, <1>3

LEMMA BurstTypes ==
    /\ setup_query_ack_rep_burst \in Seq(EncoderTasks \cup GateTasks)
    /\ \A p \in Bits : setup_ack_burst(p) \in Seq(EncoderTasks \cup GateTasks)
BY DEF setup_query_ack_rep_burst, setup_ack_burst, TxTask, RxTask, EncoderTasks, GateTasks,
       SentData, NoData, Bits

\* The queues keep their types whatever the back end and its environment do.
LEMMA QueueTypesStep ==
    ASSUME TypeOK, QueueTypes, [Next]_vars PROVE QueueTypes'
<1>1. ASSUME NEW t \in Callers, MacStep(t) PROVE QueueTypes'
  <2>1. CASE Return(t)
    BY <2>1 DEF Return, QueueTypes, queues
  <2>2. CASE queue_msg(t)
    <3> DEFINE S == EncoderTasks \cup GateTasks
               msg == Head(body[t])
    <3>1. body[t] \in Seq(S) /\ body[t] # << >>
      BY <2>2 DEF queue_msg, QueueTypes
    <3>2. msg \in S /\ Tail(body[t]) \in Seq(S)
      BY <3>1, TailFacts
    <3>3. \/ msg.to = "encoder" /\ encoder_queue' = Append(encoder_queue, msg) /\ gate_queue' = gate_queue
          \/ msg.to = "gate" /\ gate_queue' = Append(gate_queue, msg) /\ encoder_queue' = encoder_queue
      BY <2>2, Zenon DEF queue_msg
    <3>4. body' = [body EXCEPT ![t] = Tail(body[t])]
      BY <2>2 DEF queue_msg
    <3>5. /\ msg.to = "encoder" => msg \in EncoderTasks
          /\ msg.to = "gate" => msg \in GateTasks
      BY <3>2 DEF EncoderTasks, GateTasks
    <3> HIDE DEF msg, S
    <3>6. encoder_queue' \in Seq(EncoderTasks) /\ gate_queue' \in Seq(GateTasks)
      <4>1. encoder_queue \in Seq(EncoderTasks) /\ gate_queue \in Seq(GateTasks)
        BY DEF QueueTypes
      <4>2. CASE msg.to = "encoder" /\ encoder_queue' = Append(encoder_queue, msg) /\ gate_queue' = gate_queue
        BY <3>5, <4>1, <4>2, AppendFacts
      <4>3. CASE msg.to = "gate" /\ gate_queue' = Append(gate_queue, msg) /\ encoder_queue' = encoder_queue
        BY <3>5, <4>1, <4>3, AppendFacts
      <4> QED BY <3>3, <4>2, <4>3
    <3>7. body' \in [Callers -> Seq(S)]
      BY <3>2, <3>4 DEF QueueTypes, S
    <3> QED BY <3>6, <3>7 DEF QueueTypes, S
  <2> QED BY <1>1, <2>1, <2>2 DEF MacStep
<1>2. CASE Environment
  <2>1. CASE Issue
    BY <2>1, BurstTypes DEF Issue, issue_downlink_command, Abort, Enter, QueueTypes, queues, Callers
  <2>2. CASE \E success \in BOOLEAN : Search(success)
    BY <2>2 DEF Search, preamble_search, Abort, QueueTypes, queues
  <2>3. CASE \E p \in Packets : TagBurst(p)
    BY <2>3 DEF TagBurst, QueueTypes, queues, mac
  <2>4. CASE EncoderTakes
    BY <2>4, TailFacts DEF EncoderTakes, QueueTypes, mac
  <2>5. CASE GateTakes
    BY <2>5, TailFacts DEF GateTakes, QueueTypes, mac
  <2> QED BY <1>2, <2>1, <2>2, <2>3, <2>4, <2>5 DEF Environment
<1>3. CASE SymbolSynch
  BY <1>3 DEF SymbolSynch, symbol_synch, Abort, QueueTypes, queues
<1>4. CASE \E n \in 1 .. SymBufLimit : EmitSymbols(n)
  BY <1>4 DEF EmitSymbols, QueueTypes, queues, mac
<1>5. CASE Decoder
  BY <1>5 DEF Decoder, OrthogonalDecode, QueueTypes, queues, mac
<1>6. CASE FramerIdle
  BY <1>6 DEF FramerIdle, bit_decode, Abort, QueueTypes, queues
<1>7. ASSUME NEW n \in 0 .. BitBufLimit, FramerOffset(n) PROVE QueueTypes'
  BY <1>7 DEF FramerOffset, Take, QueueTypes, queues, mac
<1>8. ASSUME NEW n \in 0 .. BitBufLimit, FramerGetFrame(n) PROVE QueueTypes'
  <2>1. Packet \in Bits
    BY DEF Packet, Bits, TypeOK
  <2>2. UNCHANGED queues
    BY <1>8 DEF FramerGetFrame, Take
  <2>3. UNCHANGED mac \/ decoded_message(Packet)
    BY <1>8, Zenon DEF FramerGetFrame
  <2> HIDE DEF Packet
  <2>4. body' \in [Callers -> Seq(EncoderTasks \cup GateTasks)]
    BY <2>1, <2>3, BurstTypes DEF decoded_message, Abort, Enter, mac, QueueTypes, Callers
  <2> QED BY <2>2, <2>4 DEF QueueTypes, queues
<1>9. CASE UNCHANGED vars
  BY <1>9 DEF vars, mac, queues, QueueTypes
<1> QED BY <1>1, <1>2, <1>3, <1>4, <1>5, <1>6, <1>7, <1>8, <1>9
        DEF Next, TimingLoop, Framer, Callers

-----------------------------------------------------------------------------
(***************************************************************************)
(* The steps of the front end as ReplyFramer sees them.                    *)
(***************************************************************************)

\* The commands of the mux other than TAG leave the back end alone; TAG puts
\* the answer of some burst on the timing loop.
LEMMA MuxSimulates ==
    ASSUME SimInv, MuxStep
    PROVE  UNCHANGED vars \/ \E p \in Packets : TagBurst(p)
<1> DEFINE c == Head(mux_queue).in_sel
           cmd == Head(mux_queue).cmd
<1>1. Head(mux_queue) \in MuxCommands /\ mux_queue[1] = Head(mux_queue) /\ 1 \in DOMAIN mux_queue
  BY TailFacts DEF MuxStep, SimInv, RoundTypes, SearchTypes
<1>2. CASE cmd = "MUX_TAG"
  <2>1. /\ BurstAt(c) <= Len(bursts)
        /\ tag' = bursts[BurstAt(c)].reply
        /\ UNCHANGED <<mac, queues, tracked, d_symbol_counter, sym_buf, bit_buf, framer, next_bit>>
    BY <1>2 DEF MuxStep
  <2>2. BurstAt(c) \in 1 .. Len(bursts)
    <3>1. mux_at[c] \in Nat \ {0}
      BY <1>1 DEF MuxCommands, SimInv, RoundTypes, SearchTypes
    <3>2. BurstAt(c) \in Nat \ {0}
      BY <3>1, BurstAtFacts DEF BurstAt
    <3>3. Len(bursts) \in Nat
      BY DEF SimInv, RoundTypes, FrontTypes
    <3> QED BY <2>1, <3>2, <3>3
  <2>3. bursts[BurstAt(c)].reply \in Packets
    <3>1. bursts[BurstAt(c)] \in Windows
      BY <2>2 DEF SimInv, RoundTypes, FrontTypes
    <3> QED BY <3>1 DEF Windows
  <2>4. d_state = "SYMBOL_DET" /\ tag = NoTag /\ Running
    BY <1>1, <1>2 DEF MuxStep, SimInv, TagPending, IsTag
  <2> QED BY <2>1, <2>3, <2>4 DEF TagBurst
<1>3. CASE cmd # "MUX_TAG"
  BY <1>1, <1>3 DEF MuxStep, MuxCommands, vars, chain
<1> QED BY <1>2, <1>3

LEMMA Simulates == ASSUME SimInv, [RoundNext]_roundVars PROVE [Next]_vars
<1>1. CASE Main
  BY <1>1 DEF Main, Command, Next, Environment
<1>2. CASE Encoder
  BY <1>2 DEF Encoder, EncoderTask, EncoderSends, Next, Environment
<1>3. CASE Gate
  BY <1>3 DEF Gate, GateListens, GateCommand, Next, Environment
<1>4. CASE \E c \in Correlators : PeakCount(c)
  BY <1>4 DEF PeakCount
<1>5. CASE PickPeak
  BY <1>5 DEF PickPeak, Next, Environment
<1>6. CASE MuxStep
  BY <1>6, MuxSimulates DEF Next, Environment
<1>7. CASE RoundTimingLoop
  BY <1>7 DEF RoundTimingLoop, Next, TimingLoop
<1>8. CASE RoundDecoder \/ RoundFramer
  BY <1>8 DEF RoundDecoder, RoundFramer, Next
<1>9. CASE UNCHANGED roundVars
  BY <1>9 DEF roundVars
<1> QED BY <1>1, <1>2, <1>3, <1>4, <1>5, <1>6, <1>7, <1>8, <1>9 DEF RoundNext

-----------------------------------------------------------------------------
LEMMA EncoderTypes == ASSUME TypeOK, RoundTypes, Encoder PROVE FrontTypes'
<1>1. CASE EncoderTask
  <2>1. Head(encoder_queue) \in EncoderTasks
    BY <1>1, TailFacts DEF EncoderTask, EncoderTakes, RoundTypes, QueueTypes
  <2>2. /\ e_state' \in {"ON_TIMED", "ON_IDLE", "SEND_SAMPLES"}
        /\ e_frame' \in SentData \cup {"delimiter"}
    BY <1>1, <2>1 DEF EncoderTask, decode_task, EncoderTasks, RoundTypes, FrontTypes
  <2> QED BY <1>1, <2>2 DEF EncoderTask, RoundTypes, FrontTypes
<1>2. CASE EncoderSends
  <2>1. PICK m \in Marks : air' = Append(air, m)
    <3>1. CASE air' = Append(air, Mark("carrier", NoData, Noise))
      BY <3>1, TransceiverAssumption DEF Mark, Marks, SentData
    <3>2. CASE air' = Append(air, Mark("delimiter", NoData, Noise))
      BY <3>2, TransceiverAssumption DEF Mark, Marks, SentData
    <3>3. CASE /\ e_frame # "delimiter"
               /\ \E reply \in Answers(e_frame) : air' = Append(air, Mark("bits", e_frame, reply))
      <4>1. PICK reply \in Answers(e_frame) : air' = Append(air, Mark("bits", e_frame, reply))
        BY <3>3
      <4>2. reply \in Packets /\ e_frame \in SentData
        BY <3>3, TransceiverAssumption DEF Answers, RoundTypes, FrontTypes
      <4> QED BY <4>1, <4>2 DEF Mark, Marks
    <3> QED BY <1>2, <3>1, <3>2, <3>3 DEF EncoderSends
  <2>2. tag_rn16' \in Packets
    BY <1>2, TransceiverAssumption DEF EncoderSends, Answers, RoundTypes, FrontTypes
  <2>3. air' \in Seq(Marks)
    BY <2>1, AppendFacts DEF RoundTypes, FrontTypes
  <2> QED BY <1>2, <2>2, <2>3 DEF EncoderSends, RoundTypes, FrontTypes
<1> QED BY <1>1, <1>2 DEF Encoder

LEMMA GateTypes == ASSUME TypeOK, RoundTypes, Gate PROVE FrontTypes'
<1>1. CASE GateListens
  <2>1. /\ air' = air \/ (air # << >> /\ air' = Tail(air))
        /\ g_reply' \in {g_reply, Noise} \/ (air # << >> /\ g_reply' = Head(air).reply)
        /\ g_state' \in {"TXOFF", "TXON_MUTE", "COMMAND", "WAIT", "UNMUTE"}
        /\ UNCHANGED <<commands, e_state, e_frame, tag_rn16, bursts>>
    BY <1>1 DEF GateListens, RoundTypes, FrontTypes
  <2>4. g_carrier' \in BOOLEAN
    <3>1. g_carrier' = g_carrier \/ g_carrier' = (Head(air).kind = "carrier")
      BY <1>1, Zenon DEF GateListens
    <3> QED BY <3>1 DEF RoundTypes, FrontTypes
  <2>2. air # << >> => Head(air) \in Marks /\ Tail(air) \in Seq(Marks)
    BY TailFacts DEF RoundTypes, FrontTypes
  <2>3. air' \in Seq(Marks) /\ g_reply' \in Packets
    BY <2>1, <2>2, TransceiverAssumption DEF RoundTypes, FrontTypes, Marks
  <2> QED BY <2>1, <2>3, <2>4 DEF RoundTypes, FrontTypes
<1>2. CASE GateCommand
  <2> DEFINE task == Head(gate_queue)
             w == [len |-> task.len, reply |-> g_reply]
  <2>1. task \in GateTasks
    BY <1>2, TailFacts DEF GateCommand, GateTakes, RoundTypes, QueueTypes
  <2>2. w \in Windows
    BY <2>1 DEF GateTasks, Windows, RoundTypes, FrontTypes
  <2>3. bursts' = bursts \/ bursts' = Append(bursts, w)
    BY <1>2, Zenon DEF GateCommand
  <2>4. g_state' \in {"WAIT", "UNMUTE", "TXOFF"}
    BY <1>2 DEF GateCommand
  <2> HIDE DEF task, w
  <2>5. bursts' \in Seq(Windows)
    BY <2>2, <2>3, AppendFacts DEF RoundTypes, FrontTypes
  <2> QED BY <1>2, <2>4, <2>5 DEF GateCommand, RoundTypes, FrontTypes
<1> QED BY <1>1, <1>2 DEF Gate

LEMMA PeakCountTypes ==
    ASSUME RoundTypes, NEW c \in Correlators, PeakCount(c) PROVE SearchTypes'
<1>1. counted' \in [Correlators -> Nat]
  BY DEF PeakCount, RoundTypes, SearchTypes
<1>2. PICK found \in BOOLEAN : peaks' = [peaks EXCEPT ![c] = Append(@, found)]
  BY DEF PeakCount
<1>3. peaks[c] \in Seq(BOOLEAN)
  BY DEF RoundTypes, SearchTypes
<1>4. Append(peaks[c], found) \in Seq(BOOLEAN)
  BY <1>3, AppendFacts
<1>5. peaks' \in [Correlators -> Seq(BOOLEAN)]
  BY <1>2, <1>4 DEF RoundTypes, SearchTypes
<1> QED BY <1>1, <1>5 DEF PeakCount, RoundTypes, SearchTypes

LEMMA PickPeakTypes == ASSUME RoundTypes, PickPeak PROVE SearchTypes'
<1>1. peaks' \in [Correlators -> Seq(BOOLEAN)]
  <2>1. \A c \in Correlators : Tail(peaks[c]) \in Seq(BOOLEAN)
    BY TailFacts DEF PickPeak, RoundTypes, SearchTypes
  <2> QED BY <2>1 DEF PickPeak
<1>2. mux_queue' \in Seq(MuxCommands) /\ winners' \subseteq Correlators
  <2>1. CASE /\ mux_queue' = mux_queue \o FlushAll
             /\ UNCHANGED winners
    BY <2>1, MuxCommandsType, ConcatFacts DEF RoundTypes, SearchTypes
  <2>2. ASSUME NEW best \in Correlators, mux_queue' = mux_queue \o CopyOut(best) \o FlushAll,
               winners' = winners \cup {best}
        PROVE  mux_queue' \in Seq(MuxCommands) /\ winners' \subseteq Correlators
    <3>1. mux_queue \o CopyOut(best) \in Seq(MuxCommands)
      BY MuxCommandsType, ConcatFacts DEF RoundTypes, SearchTypes
    <3> QED BY <2>2, <3>1, MuxCommandsType, ConcatFacts DEF RoundTypes, SearchTypes
  <2> QED BY <2>1, <2>2 DEF PickPeak
<1>3. searched' = searched + 1 /\ searched \in Nat
  BY DEF PickPeak, RoundTypes, SearchTypes
<1>4. searched' \in Nat
  BY <1>3
<1>5. UNCHANGED <<counted, prompt, mux_at, copied>>
  BY DEF PickPeak
<1> QED BY <1>1, <1>2, <1>4, <1>5 DEF RoundTypes, SearchTypes

LEMMA MuxStepTypes == ASSUME RoundTypes, MuxStep PROVE SearchTypes'
<1> DEFINE c == Head(mux_queue).in_sel
<1>1. c \in Correlators /\ mux_queue' \in Seq(MuxCommands)
  <2>1. Head(mux_queue) \in MuxCommands /\ mux_queue' \in Seq(MuxCommands)
    BY TailFacts DEF MuxStep, RoundTypes, SearchTypes
  <2> QED BY <2>1 DEF MuxCommands
<1>2. mux_at[c] \in Nat \ {0}
  BY <1>1 DEF RoundTypes, SearchTypes
<1>3. 2 * BurstAt(c) \in Nat \ {0} /\ mux_at[c] + 1 \in Nat \ {0}
  <2>1. BurstAt(c) \in Nat \ {0}
    BY <1>2, BurstAtFacts DEF BurstAt
  <2> QED BY <1>2, <2>1
<1>4. \/ mux_at' = mux_at
      \/ mux_at' = [mux_at EXCEPT ![c] = 2 * BurstAt(c)]
      \/ mux_at' = [mux_at EXCEPT ![c] = mux_at[c] + 1]
  BY DEF MuxStep
<1>5. mux_at' \in [Correlators -> Nat \ {0}]
  BY <1>1, <1>3, <1>4 DEF RoundTypes, SearchTypes
<1>6. copied' \in BOOLEAN
  BY DEF MuxStep, RoundTypes, SearchTypes
<1> QED BY <1>1, <1>5, <1>6 DEF MuxStep, RoundTypes, SearchTypes

LEMMA RoundTypesStep == ASSUME SimInv, [RoundNext]_roundVars PROVE RoundTypes'
<1>1. QueueTypes'
  BY Simulates, QueueTypesStep DEF SimInv, RoundTypes
<1>2. FrontTypes'
  <2>1. CASE UNCHANGED front
    BY <2>1 DEF SimInv, RoundTypes, FrontTypes, front
  <2>2. CASE Command
    BY <2>2 DEF Command, SimInv, RoundTypes, FrontTypes
  <2> QED BY <2>1, <2>2, EncoderTypes, GateTypes
          DEF SimInv, RoundNext, Main, PeakCount, PickPeak, MuxStep, RoundTimingLoop,
              RoundDecoder, RoundFramer, roundVars, front
<1>3. SearchTypes'
  <2>1. CASE UNCHANGED search
    BY <2>1 DEF SimInv, RoundTypes, SearchTypes, search
  <2> QED BY <2>1, PeakCountTypes, PickPeakTypes, MuxStepTypes
          DEF SimInv, RoundNext, Main, Command, Encoder, EncoderTask, EncoderSends, Gate,
              GateListens, GateCommand, RoundTimingLoop, RoundDecoder, RoundFramer, roundVars
<1> QED BY <1>1, <1>2, <1>3 DEF RoundTypes

-----------------------------------------------------------------------------
\* No other method of the MAC leaves WAIT_FOR_DECODE while decoded_message is
\* in it, and SYMBOL_DET is left with the tag taken.
LEMMA CallersStep ==
    ASSUME SimInv, [RoundNext]_roundVars PROVE TagInv' /\ FramerWaits'
<1>1. [Next]_vars
  BY Simulates
<1>2. TagInv'
  BY <1>1, BufferAssumption
     DEF SimInv, TagInv, FramerWaits, Next, TimingLoop, SymbolSynch, EmitSymbols, Decoder, OrthogonalDecode,
         Framer, FramerIdle, FramerOffset, FramerGetFrame, Take, MacStep, Environment, Issue,
         Search, TagBurst, EncoderTakes, GateTakes, issue_downlink_command, preamble_search,
         symbol_synch, symbol_synch_asserts, bit_decode, bit_decode_asserts, decoded_message,
         Abort, queue_msg, Return, vars, mac, chain
<1>3. FramerWaits'
  BY <1>1
     DEF SimInv, FramerWaits, Next, TimingLoop, SymbolSynch, EmitSymbols, Decoder, OrthogonalDecode,
         Framer, FramerIdle, FramerOffset, FramerGetFrame, Take, MacStep, Environment, Issue,
         Search, TagBurst, EncoderTakes, GateTakes, issue_downlink_command, preamble_search,
         symbol_synch, symbol_synch_asserts, bit_decode, bit_decode_asserts, decoded_message,
         Enter, Abort, queue_msg, Return, vars, mac, chain
<1> QED BY <1>2, <1>3

\* A step that leaves the mux and its queue alone and does not leave
\* SYMBOL_DET for another state, or takes the tag, keeps TagPending.
LEMMA TagPendingKept ==
    ASSUME SimInv, UNCHANGED mux_queue,
           \/ aborted' # "none"
           \/ /\ aborted' = aborted
              /\ tag # NoTag \/ d_state # "SYMBOL_DET" \/ UNCHANGED <<d_state, tag>>
    PROVE  TagPending'
BY DEF SimInv, TagPending, IsTag, Running

LEMMA PickPeakTagPending == ASSUME SimInv, PickPeak PROVE TagPending'
<1>2. SUFFICES ASSUME aborted' = "none" PROVE TagPending'
  BY DEF TagPending, Running
<1>3. aborted = "none" /\ d_state = "PREAMBLE_DET" /\ tag = NoTag /\ tag' = NoTag
  BY <1>2 DEF PickPeak, Search, preamble_search, Abort, Running, SimInv, TagInv, chain
<1>4. \A i \in DOMAIN mux_queue : ~IsTag(i)
  BY <1>3 DEF SimInv, TagPending, Running
<1>5. \A i \in DOMAIN FlushAll : FlushAll[i].cmd = "MUX_FLUSH"
  <2> DEFINE F == [cmd : {"MUX_FLUSH"}, in_sel : Correlators]
  <2>1. \A m \in F : m.cmd = "MUX_FLUSH"
    OBVIOUS
  <2> HIDE DEF F
  <2>2. FlushAll \in Seq(F)
    BY FlushAllFacts DEF F
  <2> QED BY <2>1, <2>2
<1>6. CASE mux_queue' = mux_queue \o FlushAll
  <2>1. mux_queue \in Seq(MuxCommands) /\ FlushAll \in Seq(MuxCommands)
    BY MuxCommandsType DEF SimInv, RoundTypes, SearchTypes
  <2>2. \A i \in DOMAIN mux_queue' : mux_queue'[i].cmd # "MUX_TAG"
    <3> TAKE i \in DOMAIN mux_queue'
    <3>1. i \in 1 .. Len(mux_queue) + Len(FlushAll)
      BY <1>6, <2>1, ConcatFacts
    <3>2. CASE i \in 1 .. Len(mux_queue)
      BY <1>4, <1>6, <2>1, <3>2, ConcatFacts DEF IsTag
    <3>3. CASE i \notin 1 .. Len(mux_queue)
      <4>1. i - Len(mux_queue) \in 1 .. Len(FlushAll) /\ i = Len(mux_queue) + (i - Len(mux_queue))
        BY <2>1, <3>1, <3>3
      <4>2. mux_queue'[i] = FlushAll[i - Len(mux_queue)]
        BY <1>6, <2>1, <4>1, ConcatFacts
      <4> QED BY <1>5, <2>1, <4>1, <4>2
    <3> QED BY <3>2, <3>3
  <2> QED BY <2>2 DEF TagPending, IsTag
<1>7. ASSUME NEW best \in Correlators, mux_queue' = mux_queue \o CopyOut(best) \o FlushAll,
             d_state' = "SYMBOL_DET"
      PROVE  TagPending'
  <2> DEFINE k == Len(mux_queue)
             q == mux_queue \o CopyOut(best)
  <2>1. mux_queue \in Seq(MuxCommands) /\ FlushAll \in Seq(MuxCommands) /\ CopyOut(best) \in Seq(MuxCommands)
    BY MuxCommandsType DEF SimInv, RoundTypes, SearchTypes
  <2>2. /\ Len(CopyOut(best)) = 4
        /\ CopyOut(best)[1].cmd = "MUX_DELETE" /\ CopyOut(best)[2].cmd = "MUX_COPY"
        /\ CopyOut(best)[3].cmd = "MUX_TAG" /\ CopyOut(best)[4].cmd = "MUX_COPY"
    BY DEF CopyOut, MuxCommand
  <2>3. q \in Seq(MuxCommands) /\ k \in Nat /\ Len(q) = k + 4
    <3>1. q \in Seq(MuxCommands) /\ Len(q) = Len(mux_queue) + Len(CopyOut(best))
      BY <2>1, ConcatFacts
    <3> QED BY <2>1, <2>2, <3>1
  <2>4. \A i \in DOMAIN mux_queue' : mux_queue'[i].cmd = "MUX_TAG" => i = k + 3
    <3> TAKE i \in DOMAIN mux_queue'
    <3>1. i \in 1 .. Len(q) + Len(FlushAll)
      BY <1>7, <2>1, <2>3, ConcatFacts
    <3>2. CASE i \in 1 .. k
      <4>1. i \in 1 .. Len(q)
        BY <2>3, <3>2
      <4>2. mux_queue'[i] = q[i]
        BY <1>7, <2>1, <2>3, <4>1, ConcatFacts
      <4>3. q[i] = mux_queue[i]
        BY <2>1, <3>2, ConcatFacts
      <4> QED BY <1>4, <2>1, <3>2, <4>2, <4>3 DEF IsTag
    <3>3. CASE i \in k + 1 .. k + 4
      <4>1. PICK j \in 1 .. 4 : i = k + j
        <5>1. i - k \in 1 .. 4 /\ i = k + (i - k)
          BY <2>3, <3>3
        <5> QED BY <5>1
      <4>2. mux_queue'[i] = q[i]
        BY <1>7, <2>1, <2>3, <3>1, <3>3, ConcatFacts
      <4>3. q[i] = CopyOut(best)[j]
        <5>1. \A h \in 1 .. Len(CopyOut(best)) : q[k + h] = CopyOut(best)[h]
          BY <2>1, ConcatFacts
        <5> QED BY <2>2, <4>1, <5>1
      <4> QED BY <2>2, <4>1, <4>2, <4>3
    <3>4. CASE i > k + 4
      <4>1. i - Len(q) \in 1 .. Len(FlushAll) /\ i = Len(q) + (i - Len(q))
        BY <2>1, <2>3, <3>1, <3>4
      <4>2. mux_queue'[i] = FlushAll[i - Len(q)]
        BY <1>7, <2>1, <2>3, <4>1, ConcatFacts
      <4> QED BY <1>5, <2>1, <4>1, <4>2
    <3> QED BY <2>3, <3>1, <3>2, <3>3, <3>4
  <2> QED BY <1>3, <1>7, <2>4 DEF TagPending, IsTag
<1>8. Search(TRUE) => d_state' = "SYMBOL_DET"
  BY <1>2, <1>3 DEF Search, preamble_search, Abort
<1> QED BY <1>6, <1>7, <1>8 DEF PickPeak

LEMMA MuxTagPending == ASSUME SimInv, MuxStep PROVE TagPending'
<1>1. mux_queue \in Seq(MuxCommands) /\ mux_queue # << >> /\ mux_queue' = Tail(mux_queue)
  BY DEF MuxStep, SimInv, RoundTypes, SearchTypes
<1>2. /\ DOMAIN mux_queue = 1 .. Len(mux_queue) /\ Len(mux_queue) \in Nat
      /\ DOMAIN mux_queue' = 1 .. Len(mux_queue) - 1
      /\ \A i \in 1 .. Len(mux_queue) - 1 : mux_queue'[i] = mux_queue[i + 1]
      /\ Head(mux_queue) = mux_queue[1] /\ Len(mux_queue) > 0
  BY <1>1, TailFacts
<1>3. \A i \in 1 .. Len(mux_queue) - 1 : i + 1 \in DOMAIN mux_queue /\ mux_queue'[i].cmd = mux_queue[i + 1].cmd
  BY <1>2
<1>4. Running /\ aborted' = aborted /\ d_state' = d_state
  BY DEF MuxStep, mac
<1>5. CASE IsTag(1)
  <2>1. \A i \in DOMAIN mux_queue : IsTag(i) => i = 1
    BY <1>2, <1>4, <1>5 DEF SimInv, TagPending
  <2>2. \A i \in DOMAIN mux_queue' : mux_queue'[i].cmd # "MUX_TAG"
    <3> TAKE i \in DOMAIN mux_queue'
    <3>1. i + 1 \in DOMAIN mux_queue /\ i + 1 # 1 /\ mux_queue'[i].cmd = mux_queue[i + 1].cmd
      BY <1>2, <1>3
    <3> QED BY <2>1, <3>1 DEF IsTag
  <2> QED BY <2>2 DEF TagPending, IsTag
<1>6. CASE ~IsTag(1)
  <2>1. tag' = tag
    BY <1>2, <1>6 DEF MuxStep, IsTag
  <2>2. ASSUME NEW i \in DOMAIN mux_queue', mux_queue'[i].cmd = "MUX_TAG"
        PROVE  /\ d_state = "SYMBOL_DET" /\ tag = NoTag
               /\ \A j \in DOMAIN mux_queue' : mux_queue'[j].cmd = "MUX_TAG" => j = i
    <3>1. i \in 1 .. Len(mux_queue) - 1 /\ i + 1 \in DOMAIN mux_queue /\ IsTag(i + 1)
      BY <1>2, <1>3, <2>2 DEF IsTag
    <3>2. /\ d_state = "SYMBOL_DET" /\ tag = NoTag
          /\ \A j \in DOMAIN mux_queue : IsTag(j) => j = i + 1
      BY <1>4, <3>1 DEF SimInv, TagPending
    <3>3. ASSUME NEW j \in DOMAIN mux_queue', mux_queue'[j].cmd = "MUX_TAG" PROVE j = i
      <4>1. j \in 1 .. Len(mux_queue) - 1 /\ j + 1 \in DOMAIN mux_queue /\ IsTag(j + 1)
        BY <1>2, <1>3, <3>3 DEF IsTag
      <4>2. j + 1 = i + 1
        BY <3>2, <4>1
      <4> QED BY <3>1, <4>1, <4>2
    <3> QED BY <3>2, <3>3
  <2> QED BY <1>4, <2>1, <2>2 DEF TagPending, IsTag
<1> QED BY <1>5, <1>6

LEMMA TagPendingStep == ASSUME SimInv, [RoundNext]_roundVars PROVE TagPending'
<1>1. CASE Main
  BY <1>1, TagPendingKept
     DEF Main, Command, Issue, issue_downlink_command, Abort, Enter, MacStep, queue_msg, Return,
         search, chain, Callers
<1>2. CASE Encoder
  BY <1>2, TagPendingKept DEF Encoder, EncoderTask, EncoderTakes, EncoderSends, search, mac, chain, vars
<1>3. CASE Gate
  BY <1>3, TagPendingKept DEF Gate, GateListens, GateCommand, GateTakes, search, mac, chain, vars
<1>4. CASE \E c \in Correlators : PeakCount(c)
  BY <1>4, TagPendingKept DEF PeakCount, mac, chain, vars
<1>5. CASE RoundTimingLoop
  BY <1>5, TagPendingKept, BufferAssumption
     DEF RoundTimingLoop, SymbolSynch, symbol_synch, Abort, EmitSymbols, search, mac
<1>6. CASE RoundDecoder
  BY <1>6, TagPendingKept DEF RoundDecoder, Decoder, OrthogonalDecode, search, mac
<1>7. CASE FramerIdle /\ UNCHANGED search
  BY <1>7, TagPendingKept
     DEF FramerIdle, bit_decode, bit_decode_asserts, Abort, search, chain
<1>8. ASSUME NEW t \in 0 .. BitBufLimit, FramerOffset(t) \/ FramerGetFrame(t), UNCHANGED search
      PROVE  TagPending'
  BY <1>8, TagPendingKept
     DEF FramerOffset, FramerGetFrame, Take, decoded_message, Abort, Enter, search, mac
<1>9. CASE MacStep("framer") /\ UNCHANGED search
  <2>1. CASE queue_msg("framer")
    BY <1>9, <2>1, TagPendingKept DEF MacStep, queue_msg, search, chain
  <2>2. CASE Return("framer")
    BY <1>9, <2>2, TagPendingKept DEF MacStep, Return, search, SimInv, FramerWaits
  <2> QED BY <1>9, <2>1, <2>2 DEF MacStep
<1>10. CASE UNCHANGED roundVars
  BY <1>10, TagPendingKept DEF roundVars, vars, mac, chain, search
<1> QED BY <1>1, <1>2, <1>3, <1>4, <1>5, <1>6, <1>7, <1>8, <1>9, <1>10, PickPeakTagPending, MuxTagPending
        DEF RoundNext, RoundFramer, Framer

-----------------------------------------------------------------------------
LEMMA SimStarts == RoundInit => SimInv
<1> SUFFICES ASSUME RoundInit PROVE SimInv
  OBVIOUS
<1>1. TypeOK
  BY TypeStarts DEF RoundInit
<1>2. QueueTypes
  BY DEF RoundInit, Init, MacInit, QueueTypes
<1>3. FrontTypes
  <2>1. g_carrier \in BOOLEAN
    BY Zenon DEF RoundInit
  <2>2. air \in Seq(Marks) /\ bursts \in Seq(Windows)
    BY DEF RoundInit
  <2> QED BY <2>1, <2>2, TransceiverAssumption DEF RoundInit, FrontTypes, SentData
<1>4. SearchTypes
  <2>1. copied \in BOOLEAN
    BY Zenon DEF RoundInit
  <2>2. mux_queue \in Seq(MuxCommands)
    BY DEF RoundInit
  <2>3. peaks \in [Correlators -> Seq(BOOLEAN)]
    BY DEF RoundInit
  <2>4. counted \in [Correlators -> Nat] /\ mux_at \in [Correlators -> Nat \ {0}]
    BY DEF RoundInit
  <2> QED BY <2>1, <2>2, <2>3, <2>4, Zenon DEF RoundInit, SearchTypes
<1>5. TagInv /\ FramerWaits /\ TagPending
  BY DEF RoundInit, Init, MacInit, TagInv, FramerWaits, TagPending
<1> QED BY <1>1, <1>2, <1>3, <1>4, <1>5 DEF SimInv, RoundTypes

LEMMA SimStep == SimInv /\ [RoundNext]_roundVars => SimInv'
BY Simulates, TypeStep, RoundTypesStep, CallersStep, TagPendingStep DEF SimInv

(***************************************************************************)
(* The flowgraph implements ReplyFramer: whatever the correlators, queue   *)
(* sizes and prompt threads, and whatever the packetizer starts with, its  *)
(* threads use the back end only as the environment of ReplyFramer may.    *)
(***************************************************************************)
THEOREM RoundImplements == RoundSpec => ImplementsReplyFramer
<1>1. RoundInit => Init
  BY DEF RoundInit
<1>2. SimInv /\ [RoundNext]_roundVars => [Next]_vars
  BY Simulates
<1> QED BY <1>1, <1>2, SimStarts, SimStep, PTL DEF RoundSpec, ImplementsReplyFramer, Spec

\* Every variable of the round keeps its type.
THEOREM RoundTypeCorrect == RoundSpec => [](TypeOK /\ RoundTypes)
<1>1. SimInv => TypeOK /\ RoundTypes
  BY DEF SimInv
<1> QED BY <1>1, SimStarts, SimStep, PTL DEF RoundSpec
=============================================================================
