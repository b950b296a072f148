----------------------- MODULE TransceiverCourse_proofs -----------------------
(***************************************************************************)
(* The course of a round: which messages are queued, what the encoder has  *)
(* sent and the gate has read of it, and what the searches have to do with *)
(* the state of the MAC.  From it follow the safety properties of          *)
(* Transceiver that speak of the front, and with it, where the mux stands, *)
(* the one that speaks of the back.                                        *)
(***************************************************************************)
EXTENDS Transceiver_proofs

(***************************************************************************)
(* The course of a round, as long as the call of snd_query is over before  *)
(* the query is answered.  Its thirteen messages are the seven of the      *)
(* query and the six of the ACK; q of them are queued, the encoder has     *)
(* taken te of its seven and sent s of the five marks they make, and the   *)
(* gate has read r marks and taken tg of its six messages.                 *)
(***************************************************************************)
MainIsPrompt == \A P \in Prompts : "main" \in P

RoundTasks(p) ==
    [k \in 1 .. 13 |-> IF k <= 7 THEN setup_query_ack_rep_burst[k] ELSE setup_ack_burst(p)[k - 7]]

EncoderRound(p) == [k \in 1 .. 7 |-> RoundTasks(p)[IF k <= 4 THEN k ELSE k + 3]]

GateRound(p) == [k \in 1 .. 6 |-> RoundTasks(p)[IF k <= 3 THEN k + 4 ELSE k + 7]]

\* How many of the first q messages are the encoder's, and the gate's.
EncoderShare(q) == IF q <= 4 THEN q ELSE IF q <= 7 THEN 4 ELSE IF q <= 10 THEN q - 3 ELSE 7

GateShare(q) == q - EncoderShare(q)

BodyAt(q) ==
    /\ \A t \in Callers : t \notin inside => body[t] = << >>
    /\ \/ d_mac_state = "MS_IDLE" /\ q = 0 /\ inside = {}
       \/ d_mac_state = "MS_RN16" /\ Len(body["main"]) = 7 - q /\ "framer" \notin inside
       \/ d_mac_state = "MS_EPC" /\ q >= 7 /\ Len(body["framer"]) = 13 - q /\ "main" \notin inside
    /\ \A t \in Callers : \A i \in 1 .. Len(body[t]) : body[t][i] = RoundTasks(tag_rn16)[q + i]

EncoderQueueAt(q, te) ==
    /\ Len(encoder_queue) = EncoderShare(q) - te
    /\ \A i \in 1 .. Len(encoder_queue) : encoder_queue[i] = EncoderRound(tag_rn16)[te + i]

GateQueueAt(q, tg) ==
    /\ Len(gate_queue) = GateShare(q) - tg
    /\ \A i \in 1 .. Len(gate_queue) : gate_queue[i] = GateRound(tag_rn16)[tg + i]

EncoderAt(te, s) ==
    \/ te = 0 /\ s = 0 /\ e_state = "OFF_IDLE" /\ e_frame = NoData
    \/ te = 1 /\ s = 0 /\ e_state = "ON_TIMED" /\ e_frame = NoData
    \/ te = 1 /\ s = 1 /\ e_state = "GET_TASK" /\ e_frame = NoData
    \/ te = 2 /\ s = 1 /\ e_state = "SEND_SAMPLES" /\ e_frame = "delimiter"
    \/ te = 2 /\ s = 2 /\ e_state = "GET_TASK" /\ e_frame = "delimiter"
    \/ te = 3 /\ s = 2 /\ e_state = "SEND_SAMPLES" /\ e_frame = "query"
    \/ te = 3 /\ s = 3 /\ e_state = "GET_TASK" /\ e_frame = "query"
    \/ te = 4 /\ s = 3 /\ e_state = "ON_IDLE" /\ e_frame = "query"
    \/ te = 5 /\ s = 3 /\ e_state = "SEND_SAMPLES" /\ e_frame = "delimiter"
    \/ te = 5 /\ s = 4 /\ e_state = "GET_TASK" /\ e_frame = "delimiter"
    \/ te = 6 /\ s = 4 /\ e_state = "SEND_SAMPLES" /\ e_frame = tag_rn16
    \/ te = 6 /\ s = 5 /\ e_state = "GET_TASK" /\ e_frame = tag_rn16
    \/ te = 7 /\ s = 5 /\ e_state = "ON_IDLE" /\ e_frame = tag_rn16

\* The k-th mark of a round in which the tag answers p to the query.
IsMark(m, k, p) ==
    /\ k = 1 => m.kind = "carrier" /\ m.data = NoData /\ m.reply = Noise
    /\ k \in {2, 4} => m.kind = "delimiter" /\ m.data = NoData /\ m.reply = Noise
    /\ k = 3 => m.kind = "bits" /\ m.data = "query" /\ m.reply = p
    /\ k = 5 => m.kind = "bits" /\ m.data = p

AirAt(s, r) ==
    /\ Len(air) = s - r
    /\ \A i \in 1 .. Len(air) : IsMark(air[i], r + i, tag_rn16)

GateAt(r, tg) ==
    \/ r = 0 /\ tg = 0 /\ g_state = "TXOFF" /\ ~g_carrier
    \/ r = 1 /\ tg = 0 /\ g_state \in {"TXOFF", "TXON_MUTE"} /\ g_carrier
    \/ r = 2 /\ tg = 0 /\ g_state = "COMMAND" /\ g_carrier
    \/ r = 2 /\ tg = 1 /\ g_state = "WAIT" /\ g_carrier
    \/ r = 3 /\ tg = 1 /\ g_state = "COMMAND" /\ g_carrier /\ g_reply = tag_rn16
    \/ r = 3 /\ tg = 2 /\ g_state \in {"UNMUTE", "COMMAND"} /\ g_carrier
    \/ r = 3 /\ tg = 3 /\ g_state \in {"TXOFF", "TXON_MUTE"} /\ g_carrier
    \/ r = 4 /\ tg = 3 /\ g_state = "COMMAND" /\ g_carrier
    \/ r = 4 /\ tg = 4 /\ g_state = "WAIT" /\ g_carrier
    \/ r = 5 /\ tg = 4 /\ g_state = "COMMAND" /\ g_carrier
    \/ r = 5 /\ tg = 5 /\ g_state \in {"UNMUTE", "COMMAND"} /\ g_carrier
    \/ r = 5 /\ tg = 6 /\ g_state \in {"TXOFF", "TXON_MUTE"} /\ g_carrier

BurstsAt(tg) ==
    /\ tg <= 1 => Len(bursts) = 0
    /\ tg \in 2 .. 4 => Len(bursts) = 1
    /\ tg >= 5 => Len(bursts) = 2 /\ bursts[2].len = 2800
    /\ tg >= 2 => bursts[1] = [len |-> 800, reply |-> tag_rn16]

RoundAt(q, te, s, r, tg) ==
    /\ BodyAt(q)
    /\ EncoderQueueAt(q, te) /\ EncoderAt(te, s)
    /\ AirAt(s, r)
    /\ GateQueueAt(q, tg) /\ GateAt(r, tg) /\ BurstsAt(tg)

Progress ==
    \E q \in 0 .. 13, te \in 0 .. 7, s \in 0 .. 5, r \in 0 .. 5, tg \in 0 .. 6 :
        RoundAt(q, te, s, r, tg)

(***************************************************************************)
(* What the searches have to do with the state of the MAC.                 *)
(***************************************************************************)
ResultsInv ==
    \A c \in Correlators : Len(peaks[c]) = counted[c] - searched /\ counted[c] <= Len(bursts)

PhaseInv ==
    /\ commands = 0 <=> d_mac_state = "MS_IDLE"
    /\ commands <= MaxCommands
    /\ d_mac_state = "MS_IDLE" => d_state = "READY_DOWNLINK"
    /\ searched = 0 /\ d_mac_state # "MS_IDLE" =>
          d_state = "PREAMBLE_DET" /\ d_mac_state = "MS_RN16"
    /\ searched > 0 => "main" \notin inside
    /\ searched = 1 /\ d_mac_state = "MS_EPC" =>
          "framer" \in inside \/ d_state = "PREAMBLE_DET"

\* The packet that is being received in MS_RN16 is the answer to the query.
AnswerInv ==
    d_mac_state = "MS_RN16" =>
        /\ tag \in {NoTag, tag_rn16}
        /\ d_state \in {"BIT_DECODE", "WAIT_FOR_DECODE"} => tracked = tag_rn16

AbortInv ==
    aborted # "none" =>
        \/ aborted = "issue_downlink_command" /\ commands > 0 /\ MaxCommands > 1
        \/ aborted = "preamble_search" /\ "framer" \in inside /\ "framer" \notin prompt

CourseInv == Progress /\ ResultsInv /\ PhaseInv /\ AnswerInv /\ AbortInv

RoundInv == SimInv /\ FrameInv /\ CourseInv

-----------------------------------------------------------------------------
\* The thirteen messages one by one.
LEMMA RoundTaskList ==
    ASSUME NEW p
    PROVE  /\ RoundTasks(p)[1].to = "encoder" /\ RoundTasks(p)[1].cmd = "TURN_ON_TIMED"
           /\ RoundTasks(p)[2].to = "encoder" /\ RoundTasks(p)[2].cmd = "PREAMBLE"
           /\ RoundTasks(p)[3].to = "encoder" /\ RoundTasks(p)[3].cmd = "DATA_BITS" /\ RoundTasks(p)[3].data = "query"
           /\ RoundTasks(p)[4].to = "encoder" /\ RoundTasks(p)[4].cmd = "TURN_ON"
           /\ RoundTasks(p)[5].to = "gate" /\ RoundTasks(p)[5].cmd = "RXB_GATE"
           /\ RoundTasks(p)[6].to = "gate" /\ RoundTasks(p)[6].cmd = "RXB_UNGATE" /\ RoundTasks(p)[6].len = 800
           /\ RoundTasks(p)[7].to = "gate" /\ RoundTasks(p)[7].cmd = "RXB_DONE"
           /\ RoundTasks(p)[8].to = "encoder" /\ RoundTasks(p)[8].cmd = "FRAME_SYNCH"
           /\ RoundTasks(p)[9].to = "encoder" /\ RoundTasks(p)[9].cmd = "DATA_BITS" /\ RoundTasks(p)[9].data = p
           /\ RoundTasks(p)[10].to = "encoder" /\ RoundTasks(p)[10].cmd = "TURN_ON"
           /\ RoundTasks(p)[11].to = "gate" /\ RoundTasks(p)[11].cmd = "RXB_GATE"
           /\ RoundTasks(p)[12].to = "gate" /\ RoundTasks(p)[12].cmd = "RXB_UNGATE" /\ RoundTasks(p)[12].len = 2800
           /\ RoundTasks(p)[13].to = "gate" /\ RoundTasks(p)[13].cmd = "RXB_DONE"
<1>1. /\ setup_query_ack_rep_burst[1].to = "encoder" /\ setup_query_ack_rep_burst[1].cmd = "TURN_ON_TIMED"
      /\ setup_query_ack_rep_burst[2].to = "encoder" /\ setup_query_ack_rep_burst[2].cmd = "PREAMBLE"
      /\ setup_query_ack_rep_burst[3].to = "encoder" /\ setup_query_ack_rep_burst[3].cmd = "DATA_BITS" /\ setup_query_ack_rep_burst[3].data = "query"
      /\ setup_query_ack_rep_burst[4].to = "encoder" /\ setup_query_ack_rep_burst[4].cmd = "TURN_ON"
      /\ setup_query_ack_rep_burst[5].to = "gate" /\ setup_query_ack_rep_burst[5].cmd = "RXB_GATE"
      /\ setup_query_ack_rep_burst[6].to = "gate" /\ setup_query_ack_rep_burst[6].cmd = "RXB_UNGATE" /\ setup_query_ack_rep_burst[6].len = 800
      /\ setup_query_ack_rep_burst[7].to = "gate" /\ setup_query_ack_rep_burst[7].cmd = "RXB_DONE"
  BY DEF setup_query_ack_rep_burst, TxTask, RxTask
<1>2. /\ setup_ack_burst(p)[1].to = "encoder" /\ setup_ack_burst(p)[1].cmd = "FRAME_SYNCH"
      /\ setup_ack_burst(p)[2].to = "encoder" /\ setup_ack_burst(p)[2].cmd = "DATA_BITS" /\ setup_ack_burst(p)[2].data = p
      /\ setup_ack_burst(p)[3].to = "encoder" /\ setup_ack_burst(p)[3].cmd = "TURN_ON"
      /\ setup_ack_burst(p)[4].to = "gate" /\ setup_ack_burst(p)[4].cmd = "RXB_GATE"
      /\ setup_ack_burst(p)[5].to = "gate" /\ setup_ack_burst(p)[5].cmd = "RXB_UNGATE" /\ setup_ack_burst(p)[5].len = 2800
      /\ setup_ack_burst(p)[6].to = "gate" /\ setup_ack_burst(p)[6].cmd = "RXB_DONE"
  BY DEF setup_ack_burst, TxTask, RxTask
<1>3. \A k \in 1 .. 7 : RoundTasks(p)[k] = setup_query_ack_rep_burst[k]
  BY DEF RoundTasks
<1>4. \A k \in 1 .. 6 : RoundTasks(p)[k + 7] = setup_ack_burst(p)[k]
  BY DEF RoundTasks
<1>5. /\ RoundTasks(p)[8] = setup_ack_burst(p)[1]
      /\ RoundTasks(p)[9] = setup_ack_burst(p)[2]
      /\ RoundTasks(p)[10] = setup_ack_burst(p)[3]
      /\ RoundTasks(p)[11] = setup_ack_burst(p)[4]
      /\ RoundTasks(p)[12] = setup_ack_burst(p)[5]
      /\ RoundTasks(p)[13] = setup_ack_burst(p)[6]
  BY <1>4
<1> QED BY <1>1, <1>2, <1>3, <1>5

\* Where they stand in the order of the calls.
LEMMA RoundOrders ==
    ASSUME NEW p
    PROVE  /\ EncoderRound(p)[1] = RoundTasks(p)[1] /\ EncoderRound(p)[2] = RoundTasks(p)[2]
           /\ EncoderRound(p)[3] = RoundTasks(p)[3] /\ EncoderRound(p)[4] = RoundTasks(p)[4]
           /\ EncoderRound(p)[5] = RoundTasks(p)[8] /\ EncoderRound(p)[6] = RoundTasks(p)[9]
           /\ EncoderRound(p)[7] = RoundTasks(p)[10]
           /\ GateRound(p)[1] = RoundTasks(p)[5] /\ GateRound(p)[2] = RoundTasks(p)[6]
           /\ GateRound(p)[3] = RoundTasks(p)[7] /\ GateRound(p)[4] = RoundTasks(p)[11]
           /\ GateRound(p)[5] = RoundTasks(p)[12] /\ GateRound(p)[6] = RoundTasks(p)[13]
BY DEF EncoderRound, GateRound

\* What the encoder's and the gate's messages tell them to do.
LEMMA TaskKinds ==
    ASSUME NEW p
    PROVE  /\ EncoderRound(p)[1].cmd = "TURN_ON_TIMED"
           /\ EncoderRound(p)[2].cmd = "PREAMBLE"
           /\ EncoderRound(p)[3].cmd = "DATA_BITS" /\ EncoderRound(p)[3].data = "query"
           /\ EncoderRound(p)[4].cmd = "TURN_ON"
           /\ EncoderRound(p)[5].cmd = "FRAME_SYNCH"
           /\ EncoderRound(p)[6].cmd = "DATA_BITS" /\ EncoderRound(p)[6].data = p
           /\ EncoderRound(p)[7].cmd = "TURN_ON"
           /\ GateRound(p)[1].cmd = "RXB_GATE"
           /\ GateRound(p)[2].cmd = "RXB_UNGATE" /\ GateRound(p)[2].len = 800
           /\ GateRound(p)[3].cmd = "RXB_DONE"
           /\ GateRound(p)[4].cmd = "RXB_GATE"
           /\ GateRound(p)[5].cmd = "RXB_UNGATE" /\ GateRound(p)[5].len = 2800
           /\ GateRound(p)[6].cmd = "RXB_DONE"
BY RoundTaskList, RoundOrders

\* The messages of the query do not depend on the answer to it.
LEMMA QueryPart ==
    ASSUME NEW p, NEW o
    PROVE  /\ \A k \in 1 .. 7 : RoundTasks(p)[k] = RoundTasks(o)[k]
           /\ \A k \in 1 .. 4 : EncoderRound(p)[k] = EncoderRound(o)[k]
           /\ \A k \in 1 .. 3 : GateRound(p)[k] = GateRound(o)[k]
<1>1. \A k \in 1 .. 7 : RoundTasks(p)[k] = RoundTasks(o)[k]
  BY DEF RoundTasks, setup_query_ack_rep_burst, setup_ack_burst, TxTask, RxTask
<1> QED BY <1>1 DEF EncoderRound, GateRound

\* The next message in the order of the calls is the next of its queue.
LEMMA NextMessage ==
    ASSUME NEW p, NEW q \in 0 .. 12
    PROVE  \/ /\ RoundTasks(p)[q + 1].to = "encoder"
              /\ RoundTasks(p)[q + 1] = EncoderRound(p)[EncoderShare(q) + 1]
              /\ EncoderShare(q + 1) = EncoderShare(q) + 1 /\ GateShare(q + 1) = GateShare(q)
           \/ /\ RoundTasks(p)[q + 1].to = "gate"
              /\ RoundTasks(p)[q + 1] = GateRound(p)[GateShare(q) + 1]
              /\ EncoderShare(q + 1) = EncoderShare(q) /\ GateShare(q + 1) = GateShare(q) + 1
<1>1. q \in {0, 1, 2, 3, 4, 5, 6, 7, 8, 9, 10, 11, 12}
  OBVIOUS
<1> QED BY <1>1, RoundTaskList, RoundOrders DEF EncoderShare, GateShare

\* Taking the head of a queue that holds a stretch of F, and adding to it.
LEMMA TakeFrom ==
    ASSUME NEW S, NEW s \in Seq(S), s # << >>, NEW F, NEW k \in Nat,
           \A i \in 1 .. Len(s) : s[i] = F[k + i]
    PROVE  /\ Head(s) = F[k + 1] /\ Len(Tail(s)) = Len(s) - 1
           /\ \A i \in 1 .. Len(Tail(s)) : Tail(s)[i] = F[(k + 1) + i]
<1>1. /\ Head(s) = s[1] /\ Len(s) > 0 /\ Len(s) \in Nat /\ Len(Tail(s)) = Len(s) - 1
      /\ \A i \in 1 .. Len(s) - 1 : Tail(s)[i] = s[i + 1]
  BY TailFacts
<1>2. ASSUME NEW i \in 1 .. Len(s) - 1 PROVE Tail(s)[i] = F[(k + 1) + i]
  <2>1. i + 1 \in 1 .. Len(s) /\ k + (i + 1) = (k + 1) + i
    BY <1>1
  <2> QED BY <1>1, <2>1
<1> QED BY <1>1, <1>2

\* s is what F has from k + 1 on.
IsPart(s, F, k) == \A i \in 1 .. Len(s) : s[i] = F[k + i]

LEMMA AddTo ==
    ASSUME NEW S, NEW s \in Seq(S), NEW F, NEW k \in Nat, NEW x \in S, x = F[k + Len(s) + 1],
           IsPart(s, F, k)
    PROVE  /\ Len(Append(s, x)) = Len(s) + 1
           /\ IsPart(Append(s, x), F, k)
<1>1. /\ Len(s) \in Nat /\ Len(Append(s, x)) = Len(s) + 1
      /\ \A i \in 1 .. Len(s) : Append(s, x)[i] = s[i]
      /\ Append(s, x)[Len(s) + 1] = x
  BY AppendFacts
<1>2. ASSUME NEW i \in 1 .. Len(s) + 1 PROVE Append(s, x)[i] = F[k + i]
  <2>1. CASE i \in 1 .. Len(s)
    BY <1>1, <2>1 DEF IsPart
  <2>2. CASE i = Len(s) + 1
    <3>1. k + i = k + Len(s) + 1
      BY <1>1, <2>2
    <3> QED BY <1>1, <2>2, <3>1
  <2> QED BY <1>1, <2>1, <2>2
<1> QED BY <1>1, <1>2 DEF IsPart

LEMMA ShareBounds ==
    ASSUME NEW q \in 0 .. 13
    PROVE  /\ EncoderShare(q) \in 0 .. 7 /\ GateShare(q) \in 0 .. 6
           /\ q <= 7 => EncoderShare(q) <= 4 /\ GateShare(q) <= 3
BY DEF EncoderShare, GateShare

-----------------------------------------------------------------------------
(***************************************************************************)
(* Every step takes the round one place further or leaves it where it is.  *)
(***************************************************************************)
radio == <<e_state, e_frame, tag_rn16, air, g_state, g_carrier, g_reply, bursts>>

LEMMA RadioKept ==
    ASSUME NEW te, NEW s, NEW r, NEW tg, UNCHANGED radio,
           EncoderAt(te, s), AirAt(s, r), GateAt(r, tg), BurstsAt(tg)
    PROVE  EncoderAt(te, s)' /\ AirAt(s, r)' /\ GateAt(r, tg)' /\ BurstsAt(tg)'
BY DEF radio, EncoderAt, AirAt, IsMark, GateAt, BurstsAt

LEMMA QueuesKept ==
    ASSUME NEW q, NEW te, NEW tg, UNCHANGED <<queues, tag_rn16>>,
           EncoderQueueAt(q, te), GateQueueAt(q, tg)
    PROVE  EncoderQueueAt(q, te)' /\ GateQueueAt(q, tg)'
BY DEF queues, EncoderQueueAt, GateQueueAt

LEMMA ProgressKept ==
    ASSUME RoundInv, UNCHANGED <<d_mac_state, inside, body, queues, radio>>
    PROVE  Progress'
<1> PICK q \in 0 .. 13, te \in 0 .. 7, s \in 0 .. 5, r \in 0 .. 5, tg \in 0 .. 6 :
        RoundAt(q, te, s, r, tg)
  BY DEF RoundInv, CourseInv, Progress
<1>1. BodyAt(q)'
  BY DEF RoundAt, BodyAt, radio
<1>2. RoundAt(q, te, s, r, tg)'
  BY <1>1, RadioKept, QueuesKept DEF RoundAt, radio
<1> QED BY <1>2 DEF Progress

\* snd_query, once: after it the seven messages of the query are to be queued.
LEMMA CommandProgress == ASSUME RoundInv, Command PROVE Progress'
<1>1. CASE Abort("issue_downlink_command")
  BY <1>1, ProgressKept DEF Command, Issue, Abort, radio
<1>2. CASE /\ d_mac_state = "MS_IDLE" /\ d_mac_state' = "MS_RN16"
           /\ Enter("main", setup_query_ack_rep_burst)
  <2> PICK q \in 0 .. 13, te \in 0 .. 7, s \in 0 .. 5, r \in 0 .. 5, tg \in 0 .. 6 :
          RoundAt(q, te, s, r, tg)
    BY DEF RoundInv, CourseInv, Progress
  <2>1. q = 0 /\ inside = {} /\ body["framer"] = << >>
    BY <1>2 DEF RoundAt, BodyAt, Callers
  <2>2. /\ inside' = {"main"}
        /\ body'["main"] = setup_query_ack_rep_burst /\ body'["framer"] = << >>
    BY <1>2, <2>1 DEF Enter, Callers, RoundInv, SimInv, TypeOK, MacTypeOK
  <2>3. /\ Len(setup_query_ack_rep_burst) = 7
        /\ \A i \in 1 .. 7 : setup_query_ack_rep_burst[i] = RoundTasks(tag_rn16)[0 + i]
    BY DEF RoundTasks, setup_query_ack_rep_burst
  <2>4. tag_rn16' = tag_rn16
    BY DEF Command
  <2>5. BodyAt(0)'
    <3>1. \A o \in Callers : \A i \in 1 .. Len(body'[o]) : body'[o][i] = RoundTasks(tag_rn16')[0 + i]
      <4>1. Len(body'["framer"]) = 0 /\ Len(body'["main"]) = 7
        BY <2>2, <2>3
      <4>2. \A i \in 1 .. 7 : body'["main"][i] = RoundTasks(tag_rn16')[0 + i]
        BY <2>2, <2>3, <2>4
      <4>3. 1 .. Len(body'["framer"]) = {}
        BY <4>1
      <4> QED BY <4>1, <4>2, <4>3, Zenon DEF Callers
    <3>2. \A o \in Callers : o \notin inside' => body'[o] = << >>
      BY <2>2 DEF Callers
    <3>3. d_mac_state' = "MS_RN16" /\ Len(body'["main"]) = 7 - 0 /\ "framer" \notin inside'
      BY <1>2, <2>2, <2>3
    <3> QED BY <3>1, <3>2, <3>3 DEF BodyAt
  <2>6. /\ EncoderQueueAt(0, te)' /\ EncoderAt(te, s)' /\ AirAt(s, r)'
        /\ GateQueueAt(0, tg)' /\ GateAt(r, tg)' /\ BurstsAt(tg)'
    BY <2>1, RadioKept, QueuesKept DEF RoundAt, Command, Issue, radio
  <2>7. RoundAt(0, te, s, r, tg)'
    BY <2>5, <2>6 DEF RoundAt
  <2>8. 0 \in 0 .. 13
    OBVIOUS
  <2> QED BY <2>7, <2>8, Zenon DEF Progress
<1> QED BY <1>1, <1>2 DEF Command, Issue, issue_downlink_command

\* Only one thread has messages to queue, and they come in order.
LEMMA QueueMsgProgress ==
    ASSUME RoundInv, NEW t \in Callers, queue_msg(t), UNCHANGED radio PROVE Progress'
<1> PICK q \in 0 .. 13, te \in 0 .. 7, s \in 0 .. 5, r \in 0 .. 5, tg \in 0 .. 6 :
        RoundAt(q, te, s, r, tg)
  BY DEF RoundInv, CourseInv, Progress
<1> DEFINE p == tag_rn16
           msg == Head(body[t])
           S == EncoderTasks \cup GateTasks
<1>1. /\ body[t] \in Seq(S) /\ body[t] # << >> /\ Len(body[t]) > 0
      /\ encoder_queue \in Seq(EncoderTasks) /\ gate_queue \in Seq(GateTasks)
      /\ body \in [Callers -> Seq(S)]
  BY DEF queue_msg, RoundInv, SimInv, RoundTypes, QueueTypes
<1>2. /\ q \in 0 .. 12
      /\ \/ d_mac_state = "MS_RN16" /\ t = "main" /\ Len(body["main"]) = 7 - q
         \/ d_mac_state = "MS_EPC" /\ t = "framer" /\ Len(body["framer"]) = 13 - q /\ q >= 7
  BY <1>1 DEF RoundAt, BodyAt, Callers
<1> DEFINE F == RoundTasks(p)
<1>3. \A i \in 1 .. Len(body[t]) : body[t][i] = F[q + i]
  BY DEF RoundAt, BodyAt
<1> HIDE DEF S, F
<1>4. /\ msg = F[q + 1] /\ Len(Tail(body[t])) = Len(body[t]) - 1
      /\ \A i \in 1 .. Len(Tail(body[t])) : Tail(body[t])[i] = F[(q + 1) + i]
  <2> DEFINE b == body[t]
  <2>1. b \in Seq(S) /\ b # << >> /\ q \in Nat /\ \A i \in 1 .. Len(b) : b[i] = F[q + i]
    BY <1>1, <1>3
  <2> HIDE DEF b
  <2>2. /\ Head(b) = F[q + 1] /\ Len(Tail(b)) = Len(b) - 1
        /\ \A i \in 1 .. Len(Tail(b)) : Tail(b)[i] = F[(q + 1) + i]
    BY <2>1, TakeFrom
  <2> QED BY <2>2 DEF b
<1> USE DEF F
<1>5. \/ /\ msg.to = "encoder"
         /\ encoder_queue' = Append(encoder_queue, msg) /\ gate_queue' = gate_queue
      \/ /\ msg.to = "gate"
         /\ gate_queue' = Append(gate_queue, msg) /\ encoder_queue' = encoder_queue
  BY Zenon DEF queue_msg
<1>6. /\ body' = [body EXCEPT ![t] = Tail(body[t])]
      /\ UNCHANGED <<d_mac_state, inside, tag_rn16>>
  BY DEF queue_msg, radio
<1>7. BodyAt(q + 1)'
  <2>1. body'[t] = Tail(body[t]) /\ \A o \in Callers : o # t => body'[o] = body[o]
    BY <1>1, <1>6
  <2>2. \A o \in Callers : o # t => body[o] = << >>
    BY <1>2 DEF RoundAt, BodyAt, Callers
  <2>3. t \in inside
    BY <1>1 DEF RoundAt, BodyAt
  <2>4. Len(body'[t]) = Len(body[t]) - 1 /\ \A i \in 1 .. Len(body'[t]) : body'[t][i] = RoundTasks(p)[(q + 1) + i]
    BY <1>4, <2>1
  <2>5. \A o \in Callers : \A i \in 1 .. Len(body'[o]) : body'[o][i] = RoundTasks(p)[(q + 1) + i]
    <3>1. \A o \in Callers : o # t => Len(body'[o]) = 0
      BY <2>1, <2>2
    <3> QED BY <2>4, <3>1
  <2>6. \A o \in Callers : o \notin inside' => body'[o] = << >>
    BY <1>6, <2>1, <2>2, <2>3
  <2>7. \/ d_mac_state' = "MS_RN16" /\ Len(body'["main"]) = 7 - (q + 1) /\ "framer" \notin inside'
        \/ /\ d_mac_state' = "MS_EPC" /\ q + 1 >= 7 /\ Len(body'["framer"]) = 13 - (q + 1)
           /\ "main" \notin inside'
    BY <1>2, <1>6, <2>4 DEF RoundAt, BodyAt
  <2> QED BY <1>6, <2>5, <2>6, <2>7, SMTT(60) DEF BodyAt
<1>8. EncoderQueueAt(q + 1, te)' /\ GateQueueAt(q + 1, tg)'
  <2>1. /\ Len(encoder_queue) = EncoderShare(q) - te /\ Len(gate_queue) = GateShare(q) - tg
        /\ \A i \in 1 .. Len(encoder_queue) : encoder_queue[i] = EncoderRound(p)[te + i]
        /\ \A i \in 1 .. Len(gate_queue) : gate_queue[i] = GateRound(p)[tg + i]
    BY DEF RoundAt, EncoderQueueAt, GateQueueAt
  <2>2. EncoderShare(q) \in 0 .. 7 /\ GateShare(q) \in 0 .. 6
    BY ShareBounds
  <2>3. msg \in S
    BY <1>1, TailFacts
  <2>4. CASE /\ msg.to = "encoder"
             /\ encoder_queue' = Append(encoder_queue, msg) /\ gate_queue' = gate_queue
    <3>1. msg \in EncoderTasks
      BY <2>3, <2>4 DEF S, EncoderTasks, GateTasks
    <3>2. /\ msg = EncoderRound(p)[EncoderShare(q) + 1]
          /\ EncoderShare(q + 1) = EncoderShare(q) + 1 /\ GateShare(q + 1) = GateShare(q)
      BY <1>2, <1>4, <2>4, NextMessage
    <3> PICK n \in Nat : n = Len(encoder_queue)
      BY <1>1
    <3>5. n = EncoderShare(q) - te
      BY <2>1
    <3>3. te + Len(encoder_queue) + 1 = EncoderShare(q) + 1
      BY <2>2, <3>5
    <3>4. /\ Len(encoder_queue') = Len(encoder_queue) + 1
          /\ \A i \in 1 .. Len(encoder_queue') : encoder_queue'[i] = EncoderRound(p)[te + i]
      <4> DEFINE b == encoder_queue
                 E == EncoderRound(p)
      <4>1. /\ b \in Seq(EncoderTasks) /\ te \in Nat /\ msg \in EncoderTasks
            /\ msg = E[te + Len(b) + 1] /\ IsPart(b, E, te)
        BY <1>1, <2>1, <3>1, <3>2, <3>3 DEF IsPart
      <4> HIDE DEF b, E, msg, F
      <4>2. /\ Len(Append(b, msg)) = Len(b) + 1
            /\ IsPart(Append(b, msg), E, te)
        BY <4>1, AddTo
      <4> QED BY <2>4, <4>2 DEF b, E, msg, IsPart
    <3>6. Len(encoder_queue') = EncoderShare(q + 1) - te
      BY <2>2, <3>2, <3>4, <3>5, SMTT(60)
    <3>7. EncoderQueueAt(q + 1, te)'
      BY <1>6, <3>4, <3>6 DEF EncoderQueueAt
    <3>8. GateQueueAt(q + 1, tg)'
      BY <1>6, <2>1, <2>4, <3>2 DEF GateQueueAt
    <3> QED BY <3>7, <3>8
  <2>5. CASE /\ msg.to = "gate"
             /\ gate_queue' = Append(gate_queue, msg) /\ encoder_queue' = encoder_queue
    <3>1. msg \in GateTasks
      BY <2>3, <2>5 DEF S, EncoderTasks, GateTasks
    <3>2. /\ msg = GateRound(p)[GateShare(q) + 1]
          /\ EncoderShare(q + 1) = EncoderShare(q) /\ GateShare(q + 1) = GateShare(q) + 1
      BY <1>2, <1>4, <2>5, NextMessage
    <3> PICK n \in Nat : n = Len(gate_queue)
      BY <1>1
    <3>5. n = GateShare(q) - tg
      BY <2>1
    <3>3. tg + Len(gate_queue) + 1 = GateShare(q) + 1
      BY <2>2, <3>5
    <3>4. /\ Len(gate_queue') = Len(gate_queue) + 1
          /\ \A i \in 1 .. Len(gate_queue') : gate_queue'[i] = GateRound(p)[tg + i]
      <4> DEFINE b == gate_queue
                 E == GateRound(p)
      <4>1. /\ b \in Seq(GateTasks) /\ tg \in Nat /\ msg \in GateTasks
            /\ msg = E[tg + Len(b) + 1] /\ IsPart(b, E, tg)
        BY <1>1, <2>1, <3>1, <3>2, <3>3 DEF IsPart
      <4> HIDE DEF b, E, msg, F
      <4>2. /\ Len(Append(b, msg)) = Len(b) + 1
            /\ IsPart(Append(b, msg), E, tg)
        BY <4>1, AddTo
      <4> QED BY <2>5, <4>2 DEF b, E, msg, IsPart
    <3>6. Len(gate_queue') = GateShare(q + 1) - tg
      BY <2>2, <3>2, <3>4, <3>5
    <3>7. GateQueueAt(q + 1, tg)'
      BY <1>6, <3>4, <3>6 DEF GateQueueAt
    <3>8. EncoderQueueAt(q + 1, te)'
      BY <1>6, <2>1, <2>5, <3>2 DEF EncoderQueueAt
    <3> QED BY <3>7, <3>8
  <2> QED BY <1>5, <2>4, <2>5
<1>9. EncoderAt(te, s)' /\ AirAt(s, r)' /\ GateAt(r, tg)' /\ BurstsAt(tg)'
  BY RadioKept DEF RoundAt
<1>10. RoundAt(q + 1, te, s, r, tg)' /\ q + 1 \in 0 .. 13
  BY <1>2, <1>7, <1>8, <1>9 DEF RoundAt
<1> QED BY <1>10 DEF Progress

LEMMA ReturnProgress ==
    ASSUME RoundInv, NEW t \in Callers, Return(t), UNCHANGED radio PROVE Progress'
<1> PICK q \in 0 .. 13, te \in 0 .. 7, s \in 0 .. 5, r \in 0 .. 5, tg \in 0 .. 6 :
        RoundAt(q, te, s, r, tg)
  BY DEF RoundInv, CourseInv, Progress
<1>1. BodyAt(q)'
  BY DEF RoundAt, BodyAt, Return, radio
<1>2. /\ EncoderQueueAt(q, te)' /\ EncoderAt(te, s)' /\ AirAt(s, r)'
      /\ GateQueueAt(q, tg)' /\ GateAt(r, tg)' /\ BurstsAt(tg)'
  BY RadioKept, QueuesKept DEF RoundAt, Return, radio
<1>3. RoundAt(q, te, s, r, tg)'
  BY <1>1, <1>2 DEF RoundAt
<1> QED BY <1>3 DEF Progress

\* The packet that decoded_message is given in MS_RN16 is the tag's answer.
LEMMA DecodeProgress ==
    ASSUME RoundInv, NEW t \in 0 .. BitBufLimit, FramerGetFrame(t), UNCHANGED radio,
           PacketsIntact'
    PROVE  Progress'
<1>1. UNCHANGED queues
  BY DEF FramerGetFrame, Take
<1>2. CASE UNCHANGED mac
  BY <1>1, <1>2, ProgressKept DEF mac
<1>3. CASE Abort("decoded_message")
  BY <1>1, <1>3, ProgressKept DEF Abort
<1>4. CASE /\ d_packet_len' = 0 /\ d_mac_state = "MS_RN16" /\ d_state = "WAIT_FOR_DECODE"
           /\ d_mac_state' = "MS_EPC" /\ Enter("framer", setup_ack_burst(Packet))
  <2> PICK q \in 0 .. 13, te \in 0 .. 7, s \in 0 .. 5, r \in 0 .. 5, tg \in 0 .. 6 :
          RoundAt(q, te, s, r, tg)
    BY DEF RoundInv, CourseInv, Progress
  <2> DEFINE p == tag_rn16
  <2>1. searched > 0
    BY <1>4 DEF RoundInv, CourseInv, PhaseInv, SimInv, RoundTypes, SearchTypes
  <2>2. "main" \notin inside
    BY <2>1 DEF RoundInv, CourseInv, PhaseInv
  <2>3. q = 7 /\ body["main"] = << >> /\ "framer" \notin inside
    <3>1. BodyAt(q) /\ "main" \in Callers
      BY DEF RoundAt, Callers
    <3>2. body["main"] = << >> /\ Len(<< >>) = 0
      BY <2>2, <3>1 DEF BodyAt
    <3>3. Len(body["main"]) = 7 - q /\ "framer" \notin inside
      <4>1. d_mac_state = "MS_RN16"
        BY <1>4
      <4> QED
        BY ONLY <3>1, <4>1 DEF BodyAt
    <3> QED
      BY <3>2, <3>3
  <2>4. Packet = p
    <3>1. tracked = p
      BY <1>4 DEF RoundInv, CourseInv, AnswerInv
    <3>2. decoded = << >>
      BY <1>4 DEF RoundInv, FrameInv, CountInv
    <3> DEFINE e == [frame |-> d_mac_state, sent |-> tracked, data |-> Packet]
    <3>3. decoded' = Append(decoded, e)
      BY <1>4 DEF FramerGetFrame
    <3>4. e.sent = tracked /\ e.data = Packet
      OBVIOUS
    <3> HIDE DEF e
    <3>5. decoded'[1] = e /\ 1 \in DOMAIN decoded'
      BY <3>2, <3>3
    <3> QED BY <3>1, <3>4, <3>5 DEF PacketsIntact
  <2>5. /\ inside' = inside \cup {"framer"}
        /\ body'["framer"] = setup_ack_burst(p) /\ body'["main"] = << >>
    BY <1>4, <2>3, <2>4 DEF Enter, Callers, RoundInv, SimInv, TypeOK, MacTypeOK
  <2>6. /\ Len(setup_ack_burst(p)) = 6
        /\ \A i \in 1 .. 6 : setup_ack_burst(p)[i] = RoundTasks(p)[7 + i]
    <3>1. \A i \in 1 .. 6 : 7 + i \in 1 .. 13 /\ 7 + i > 7 /\ (7 + i) - 7 = i
      OBVIOUS
    <3> QED BY <3>1 DEF RoundTasks, setup_ack_burst
  <2>7. tag_rn16' = p
    BY DEF radio
  <2>8. BodyAt(7)'
    <3>1. \A o \in Callers : \A i \in 1 .. Len(body'[o]) : body'[o][i] = RoundTasks(tag_rn16')[7 + i]
      <4>1. Len(body'["main"]) = 0 /\ Len(body'["framer"]) = 6
        BY <2>5, <2>6
      <4>2. \A i \in 1 .. 6 : body'["framer"][i] = RoundTasks(tag_rn16')[7 + i]
        BY <2>5, <2>6, <2>7
      <4>3. 1 .. Len(body'["main"]) = {}
        BY <4>1
      <4> QED BY <4>1, <4>2, <4>3, Zenon DEF Callers
    <3>2. \A o \in Callers : o \notin inside' => body'[o] = << >>
      BY <2>5 DEF Callers
    <3>3. d_mac_state' = "MS_EPC" /\ Len(body'["framer"]) = 13 - 7 /\ "main" \notin inside'
      BY <1>4, <2>2, <2>5, <2>6
    <3> QED BY <3>1, <3>2, <3>3 DEF BodyAt
  <2>9. /\ EncoderQueueAt(7, te)' /\ EncoderAt(te, s)' /\ AirAt(s, r)'
        /\ GateQueueAt(7, tg)' /\ GateAt(r, tg)' /\ BurstsAt(tg)'
    BY <1>1, <2>3, RadioKept, QueuesKept DEF RoundAt, radio
  <2>10. RoundAt(7, te, s, r, tg)'
    BY <2>8, <2>9 DEF RoundAt
  <2>11. 7 \in 0 .. 13
    OBVIOUS
  <2> QED BY <2>10, <2>11, Zenon DEF Progress
<1> QED BY <1>2, <1>3, <1>4, Zenon DEF FramerGetFrame, decoded_message

\* The encoder takes its messages in the order they were queued in.
LEMMA EncoderTaskProgress == ASSUME RoundInv, EncoderTask PROVE Progress'
<1> PICK q \in 0 .. 13, te \in 0 .. 7, s \in 0 .. 5, r \in 0 .. 5, tg \in 0 .. 6 :
        RoundAt(q, te, s, r, tg)
  BY DEF RoundInv, CourseInv, Progress
<1> DEFINE F == EncoderRound(tag_rn16)
           task == Head(encoder_queue)
<1>1. encoder_queue \in Seq(EncoderTasks) /\ encoder_queue # << >>
  BY DEF EncoderTask, EncoderTakes, RoundInv, SimInv, RoundTypes, QueueTypes
<1>2. /\ Len(encoder_queue) = EncoderShare(q) - te
      /\ \A i \in 1 .. Len(encoder_queue) : encoder_queue[i] = F[te + i]
  BY DEF RoundAt, EncoderQueueAt
<1>3. te \in {0, 1, 2, 3, 4, 5, 6}
  <2>1. Len(encoder_queue) > 0 /\ EncoderShare(q) \in 0 .. 7
    BY <1>1, TailFacts, ShareBounds
  <2> QED BY <1>2, <2>1
<1>4. /\ task = F[te + 1] /\ Len(Tail(encoder_queue)) = Len(encoder_queue) - 1
      /\ \A i \in 1 .. Len(Tail(encoder_queue)) : Tail(encoder_queue)[i] = F[(te + 1) + i]
  <2> DEFINE b == encoder_queue
  <2>1. b \in Seq(EncoderTasks) /\ b # << >> /\ te \in Nat /\ \A i \in 1 .. Len(b) : b[i] = F[te + i]
    BY <1>1, <1>2
  <2> HIDE DEF b, F
  <2>2. /\ Head(b) = F[te + 1] /\ Len(Tail(b)) = Len(b) - 1
        /\ \A i \in 1 .. Len(Tail(b)) : Tail(b)[i] = F[(te + 1) + i]
    BY ONLY <2>1, TakeFrom
  <2> QED BY <2>2 DEF b
<1>5. /\ encoder_queue' = Tail(encoder_queue)
      /\ UNCHANGED <<d_mac_state, inside, body, gate_queue, tag_rn16, air, g_state, g_carrier,
                     g_reply, bursts>>
  BY DEF EncoderTask, EncoderTakes, mac
<1>6. EncoderQueueAt(q, te + 1)'
  <2>1. EncoderShare(q) \in 0 .. 7
    BY ShareBounds
  <2>2. Len(encoder_queue') = EncoderShare(q) - (te + 1)
    BY <1>2, <1>4, <1>5, <2>1, SMTT(60)
  <2>3. \A i \in 1 .. Len(encoder_queue') : encoder_queue'[i] = EncoderRound(tag_rn16')[(te + 1) + i]
    BY <1>4, <1>5
  <2> QED BY <2>2, <2>3 DEF EncoderQueueAt
<1>7. EncoderAt(te + 1, s)'
  <2>1. /\ task.cmd = "TURN_ON_TIMED" => e_state' = "ON_TIMED" /\ e_frame' = e_frame
        /\ task.cmd = "TURN_ON" => e_state' = "ON_IDLE" /\ e_frame' = e_frame
        /\ task.cmd \in {"PREAMBLE", "FRAME_SYNCH"} =>
              e_state' = "SEND_SAMPLES" /\ e_frame' = "delimiter"
        /\ task.cmd = "DATA_BITS" => e_state' = "SEND_SAMPLES" /\ e_frame' = task.data
    BY DEF EncoderTask, decode_task
  <2>2. e_state \in {"OFF_IDLE", "ON_IDLE", "GET_TASK"} /\ EncoderAt(te, s)
    BY DEF EncoderTask, RoundAt
  <2>3. /\ te = 0 => task.cmd = "TURN_ON_TIMED"
        /\ te = 1 => task.cmd = "PREAMBLE"
        /\ te = 2 => task.cmd = "DATA_BITS" /\ task.data = "query"
        /\ te = 3 => task.cmd = "TURN_ON"
        /\ te = 4 => task.cmd = "FRAME_SYNCH"
        /\ te = 5 => task.cmd = "DATA_BITS" /\ task.data = tag_rn16
        /\ te = 6 => task.cmd = "TURN_ON"
    BY <1>4, TaskKinds
  <2> HIDE DEF task
  <2> QED BY <1>3, <1>5, <2>1, <2>2, <2>3 DEF EncoderAt
<1>8. BodyAt(q)' /\ GateQueueAt(q, tg)' /\ AirAt(s, r)' /\ GateAt(r, tg)' /\ BurstsAt(tg)'
  BY <1>5 DEF RoundAt, BodyAt, GateQueueAt, AirAt, IsMark, GateAt, BurstsAt
<1>9. RoundAt(q, te + 1, s, r, tg)' /\ te + 1 \in 0 .. 7
  BY <1>3, <1>6, <1>7, <1>8 DEF RoundAt
<1> QED BY <1>9 DEF Progress

\* A search is decided only on a burst the gate has let through.
LEMMA SearchedBursts == ASSUME RoundInv PROVE searched <= Len(bursts) /\ Len(bursts) \in Nat
<1>1. PICK c \in Correlators : TRUE
  BY TransceiverAssumption
<1>2. Len(peaks[c]) \in Nat /\ counted[c] \in Nat /\ searched \in Nat /\ Len(bursts) \in Nat
  BY DEF RoundInv, SimInv, RoundTypes, SearchTypes, FrontTypes
<1>3. Len(peaks[c]) = counted[c] - searched /\ counted[c] <= Len(bursts)
  BY DEF RoundInv, CourseInv, ResultsInv
<1> QED BY <1>2, <1>3

\* Before the answer to the query only the query is queued, and nothing that
\* depends on the answer.
LEMMA BeforeTheAnswer ==
    ASSUME RoundInv, NEW q \in 0 .. 13, NEW te \in 0 .. 7, NEW s \in 0 .. 2, NEW r \in 0 .. 5,
           NEW tg \in 0 .. 6, RoundAt(q, te, s, r, tg)
    PROVE  q <= 7 /\ r <= 2 /\ tg <= 1 /\ bursts = << >>
<1>1. r <= 2
  <2>1. Len(air) = s - r /\ Len(air) \in Nat
    BY DEF RoundAt, AirAt, RoundInv, SimInv, RoundTypes, FrontTypes
  <2> QED BY <2>1
<1>2. tg <= 1
  BY <1>1 DEF RoundAt, GateAt
<1>3. Len(bursts) = 0 /\ bursts = << >>
  BY <1>2 DEF RoundAt, BurstsAt, RoundInv, SimInv, RoundTypes, FrontTypes
<1>4. searched = 0
  BY <1>3, SearchedBursts DEF RoundInv, SimInv, RoundTypes, SearchTypes
<1>5. d_mac_state # "MS_EPC"
  BY <1>4 DEF RoundInv, CourseInv, PhaseInv
<1>6. q <= 7
  <2>1. CASE d_mac_state = "MS_RN16"
    <3>1. Len(body["main"]) = 7 - q /\ Len(body["main"]) \in Nat
      BY <2>1 DEF RoundAt, BodyAt, RoundInv, SimInv, RoundTypes, QueueTypes, Callers
    <3> QED BY <3>1
  <2>2. CASE d_mac_state # "MS_RN16"
    BY <1>5, <2>2 DEF RoundAt, BodyAt
  <2> QED BY <2>1, <2>2
<1> QED BY <1>1, <1>2, <1>3, <1>6

LEMMA AirAppend ==
    ASSUME NEW s \in 0 .. 5, NEW r \in 0 .. 5, air \in Seq(Marks), NEW m,
           AirAt(s, r), air' = Append(air, m), IsMark(m, s + 1, tag_rn16'),
           s <= 2 \/ UNCHANGED tag_rn16
    PROVE  AirAt(s + 1, r)'
<1>1. air \in Seq(Marks \cup {m}) /\ m \in Marks \cup {m}
  BY SeqMonotone
<1>2. /\ Len(air) \in Nat /\ Len(air') = Len(air) + 1
      /\ \A i \in 1 .. Len(air) : air'[i] = air[i]
      /\ air'[Len(air) + 1] = m
  BY <1>1, AppendFacts
<1>3. Len(air) = s - r /\ \A i \in 1 .. Len(air) : IsMark(air[i], r + i, tag_rn16)
  BY DEF AirAt
<1>4. ASSUME NEW i \in 1 .. Len(air) PROVE IsMark(air'[i], r + i, tag_rn16')
  <2>1. IsMark(air[i], r + i, tag_rn16) /\ air'[i] = air[i] /\ r + i <= s
    BY <1>2, <1>3
  <2> QED BY <2>1 DEF IsMark
<1>5. r + (Len(air) + 1) = s + 1 /\ Len(air') = (s + 1) - r
  BY <1>2, <1>3
<1>6. IsMark(air'[Len(air) + 1], r + (Len(air) + 1), tag_rn16')
  BY <1>2, <1>5
<1>7. ASSUME NEW i \in 1 .. Len(air') PROVE IsMark(air'[i], r + i, tag_rn16')
  <2>1. i \in 1 .. Len(air) \/ i = Len(air) + 1
    BY <1>2
  <2> QED BY <1>4, <1>6, <2>1
<1> QED BY <1>5, <1>7 DEF AirAt

\* What the encoder sends is the next mark of the round; the answer to the
\* query is chosen with the third.
LEMMA EncoderSendsProgress == ASSUME RoundInv, EncoderSends PROVE Progress'
<1> PICK q \in 0 .. 13, te \in 0 .. 7, s \in 0 .. 5, r \in 0 .. 5, tg \in 0 .. 6 :
        RoundAt(q, te, s, r, tg)
  BY DEF RoundInv, CourseInv, Progress
<1>1. /\ e_state' = "GET_TASK"
      /\ UNCHANGED <<d_mac_state, inside, body, encoder_queue, gate_queue, e_frame, g_state,
                     g_carrier, g_reply, bursts>>
  BY DEF EncoderSends, vars, mac, queues
<1>2. air \in Seq(Marks) /\ EncoderAt(te, s) /\ AirAt(s, r) /\ tag_rn16 \in Packets
  BY DEF RoundAt, RoundInv, SimInv, RoundTypes, FrontTypes
<1>3. ASSUME NEW m, air' = Append(air, m), IsMark(m, s + 1, tag_rn16'), s < 5,
             EncoderAt(te, s + 1)', UNCHANGED tag_rn16
      PROVE  Progress'
  <2>1. AirAt(s + 1, r)'
    BY <1>2, <1>3, AirAppend
  <2>2. /\ BodyAt(q)' /\ EncoderQueueAt(q, te)' /\ GateQueueAt(q, tg)'
        /\ GateAt(r, tg)' /\ BurstsAt(tg)'
    BY <1>1, <1>3 DEF RoundAt, BodyAt, EncoderQueueAt, GateQueueAt, GateAt, BurstsAt
  <2>3. RoundAt(q, te, s + 1, r, tg)' /\ s + 1 \in 0 .. 5
    BY <1>3, <2>1, <2>2 DEF RoundAt
  <2> QED BY <2>3 DEF Progress
<1>4. CASE /\ e_state = "ON_TIMED"
           /\ air' = Append(air, Mark("carrier", NoData, Noise))
           /\ UNCHANGED tag_rn16
  <2> DEFINE m == Mark("carrier", NoData, Noise)
  <2>1. s = 0 /\ te = 1 /\ e_frame = NoData
    BY <1>2, <1>4 DEF EncoderAt
  <2>2. IsMark(m, s + 1, tag_rn16') /\ EncoderAt(te, s + 1)'
    BY <1>1, <2>1 DEF IsMark, Mark, EncoderAt
  <2> QED BY <1>3, <1>4, <2>1, <2>2
<1>5. CASE /\ e_state = "SEND_SAMPLES" /\ e_frame = "delimiter"
           /\ air' = Append(air, Mark("delimiter", NoData, Noise))
           /\ UNCHANGED tag_rn16
  <2> DEFINE m == Mark("delimiter", NoData, Noise)
  <2>1. (s = 1 /\ te = 2) \/ (s = 3 /\ te = 5)
    BY <1>2, <1>5, TransceiverAssumption DEF EncoderAt
  <2>2. IsMark(m, s + 1, tag_rn16')
    BY <2>1 DEF IsMark, Mark
  <2>3. EncoderAt(te, s + 1)'
    BY <1>1, <1>5, <2>1 DEF EncoderAt
  <2> QED BY <1>3, <1>5, <2>1, <2>2, <2>3
<1>6. ASSUME NEW reply \in Answers(e_frame),
             e_state = "SEND_SAMPLES", e_frame # "delimiter",
             air' = Append(air, Mark("bits", e_frame, reply)),
             tag_rn16' = IF e_frame = "query" THEN reply ELSE tag_rn16
      PROVE  Progress'
  <2> DEFINE m == Mark("bits", e_frame, reply)
  <2>1. CASE e_frame = "query"
    <3>1. s = 2 /\ te = 3
      BY <1>2, <1>6, <2>1, PacketsAssumption DEF EncoderAt
    <3>2. q <= 7 /\ r <= 2 /\ tg <= 1 /\ bursts = << >>
      BY <3>1, BeforeTheAnswer, SMTT(60)
    <3>3. IsMark(m, s + 1, tag_rn16')
      BY <1>6, <2>1, <3>1 DEF IsMark, Mark
    <3>4. AirAt(3, r)'
      BY <1>2, <1>6, <3>1, <3>3, AirAppend
    <3>5. EncoderAt(3, 3)'
      BY <1>1, <2>1 DEF EncoderAt
    <3>6. EncoderQueueAt(q, 3)' /\ GateQueueAt(q, tg)'
      <4>1. /\ Len(encoder_queue) = EncoderShare(q) - 3 /\ Len(gate_queue) = GateShare(q) - tg
            /\ \A i \in 1 .. Len(encoder_queue) : encoder_queue[i] = EncoderRound(tag_rn16)[3 + i]
            /\ \A i \in 1 .. Len(gate_queue) : gate_queue[i] = GateRound(tag_rn16)[tg + i]
        BY <3>1 DEF RoundAt, EncoderQueueAt, GateQueueAt
      <4>2. EncoderShare(q) \in 0 .. 4 /\ GateShare(q) \in 0 .. 3
        BY <3>2, ShareBounds, SMTT(60)
      <4>3. ASSUME NEW i \in 1 .. Len(encoder_queue)
            PROVE  EncoderRound(tag_rn16)[3 + i] = EncoderRound(tag_rn16')[3 + i]
        <5>1. 3 + i \in 1 .. 4
          BY <4>1, <4>2
        <5> QED BY <5>1, QueryPart
      <4>4. ASSUME NEW i \in 1 .. Len(gate_queue)
            PROVE  GateRound(tag_rn16)[tg + i] = GateRound(tag_rn16')[tg + i]
        <5>1. tg + i \in 1 .. 3
          BY <4>1, <4>2
        <5> QED BY <5>1, QueryPart
      <4> QED BY <1>1, <4>1, <4>3, <4>4 DEF EncoderQueueAt, GateQueueAt
    <3>7. BodyAt(q)'
      <4>1. ASSUME NEW o \in Callers, NEW i \in 1 .. Len(body[o])
            PROVE  body[o][i] = RoundTasks(tag_rn16')[q + i]
        <5>1. body[o][i] = RoundTasks(tag_rn16)[q + i]
          BY DEF RoundAt, BodyAt
        <5>2. d_mac_state # "MS_EPC"
          BY <3>2, SearchedBursts DEF RoundInv, CourseInv, PhaseInv, SimInv, RoundTypes, SearchTypes
        <5>3. o = "main" /\ Len(body["main"]) = 7 - q
          BY <5>2 DEF RoundAt, BodyAt, Callers
        <5>4. q + i \in 1 .. 7
          BY <3>2, <5>3
        <5> QED BY <5>1, <5>4, QueryPart
      <4> QED BY <1>1, <4>1 DEF RoundAt, BodyAt
    <3>8. GateAt(r, tg)' /\ BurstsAt(tg)'
      BY <1>1, <3>2 DEF RoundAt, GateAt, BurstsAt
    <3>9. RoundAt(q, 3, 3, r, tg)'
      BY <3>4, <3>5, <3>6, <3>7, <3>8 DEF RoundAt
    <3>10. q \in 0 .. 13 /\ 3 \in 0 .. 7 /\ 3 \in 0 .. 5 /\ r \in 0 .. 5 /\ tg \in 0 .. 6
      OBVIOUS
    <3> QED BY ONLY <3>9, <3>10 DEF Progress
  <2>2. CASE e_frame # "query"
    <3>1. s = 4 /\ te = 6 /\ e_frame = tag_rn16
      BY <1>2, <1>6, <2>2 DEF EncoderAt
    <3>2. UNCHANGED tag_rn16
      BY <1>6, <2>2
    <3>3. IsMark(m, s + 1, tag_rn16') /\ EncoderAt(te, s + 1)'
      BY <1>1, <3>1, <3>2 DEF IsMark, Mark, EncoderAt
    <3> QED BY <1>3, <1>6, <3>1, <3>2, <3>3
  <2> QED BY <2>1, <2>2
<1> QED BY <1>4, <1>5, <1>6 DEF EncoderSends

\* Marks on the air come before the next command only if it is being sent.
LEMMA AirTake ==
    ASSUME NEW s \in 0 .. 5, NEW r \in 0 .. 5, air \in Seq(Marks), air # << >>,
           AirAt(s, r), air' = Tail(air), UNCHANGED tag_rn16
    PROVE  /\ r < s /\ IsMark(Head(air), r + 1, tag_rn16)
           /\ AirAt(s, r + 1)'
<1>1. /\ Len(air) \in Nat /\ Len(air) > 0 /\ Head(air) = air[1]
      /\ Len(air') = Len(air) - 1
      /\ \A i \in 1 .. Len(air) - 1 : air'[i] = air[i + 1]
  BY TailFacts
<1>2. Len(air) = s - r /\ \A i \in 1 .. Len(air) : IsMark(air[i], r + i, tag_rn16)
  BY DEF AirAt
<1>3. ASSUME NEW i \in 1 .. Len(air') PROVE IsMark(air'[i], (r + 1) + i, tag_rn16')
  <2>1. i + 1 \in 1 .. Len(air) /\ air'[i] = air[i + 1] /\ r + (i + 1) = (r + 1) + i
    BY <1>1
  <2>2. IsMark(air[i + 1], r + (i + 1), tag_rn16)
    BY <1>2, <2>1
  <2> QED BY <2>1, <2>2
<1>4. Len(air') = s - (r + 1)
  BY <1>1, <1>2
<1>5. IsMark(Head(air), r + 1, tag_rn16)
  <2>1. 1 \in 1 .. Len(air)
    BY <1>1
  <2> QED BY <1>1, <1>2, <2>1
<1> QED BY <1>1, <1>2, <1>3, <1>4, <1>5 DEF AirAt

\* The gate reads the marks in the states they are meant for.
LEMMA GateListensProgress == ASSUME RoundInv, GateListens PROVE Progress'
<1> PICK q \in 0 .. 13, te \in 0 .. 7, s \in 0 .. 5, r \in 0 .. 5, tg \in 0 .. 6 :
        RoundAt(q, te, s, r, tg)
  BY DEF RoundInv, CourseInv, Progress
<1>1. UNCHANGED <<d_mac_state, inside, body, queues, tag_rn16, e_state, e_frame, bursts>>
  BY DEF GateListens, vars, mac
<1>2. air \in Seq(Marks) /\ AirAt(s, r) /\ GateAt(r, tg)
  BY DEF RoundAt, RoundInv, SimInv, RoundTypes, FrontTypes
<1>3. BodyAt(q)' /\ EncoderQueueAt(q, te)' /\ GateQueueAt(q, tg)' /\ EncoderAt(te, s)' /\ BurstsAt(tg)'
  BY <1>1, QueuesKept DEF RoundAt, BodyAt, EncoderAt, BurstsAt
<1>4. CASE UNCHANGED <<air, g_carrier>> /\ GateAt(r, tg)'
  <2>1. AirAt(s, r)'
    BY <1>1, <1>2, <1>4 DEF AirAt
  <2>2. RoundAt(q, te, s, r, tg)'
    BY <1>3, <1>4, <2>1 DEF RoundAt
  <2> QED BY <2>2 DEF Progress
<1>5. CASE air # << >> /\ air' = Tail(air) /\ GateAt(r + 1, tg)'
  <2>1. r < s /\ AirAt(s, r + 1)'
    BY <1>1, <1>2, <1>5, AirTake
  <2>2. RoundAt(q, te, s, r + 1, tg)' /\ r + 1 \in 0 .. 5
    BY <1>3, <1>5, <2>1 DEF RoundAt
  <2> QED BY <2>2 DEF Progress
<1>6. CASE /\ g_state = "TXOFF" /\ g_carrier /\ g_state' = "TXON_MUTE"
           /\ UNCHANGED <<air, g_carrier, g_reply>>
  <2>1. GateAt(r, tg)'
    BY <1>2, <1>6 DEF GateAt
  <2> QED BY <1>4, <1>6, <2>1
<1>7. CASE /\ g_state = "TXOFF" /\ ~g_carrier /\ air # << >>
           /\ g_carrier' = (Head(air).kind = "carrier")
           /\ air' = Tail(air) /\ UNCHANGED <<g_state, g_reply>>
  <2>1. r = 0 /\ tg = 0
    BY <1>2, <1>7 DEF GateAt
  <2>2. IsMark(Head(air), r + 1, tag_rn16)
    BY <1>1, <1>2, <1>7, AirTake
  <2>3. g_carrier' = TRUE
    <3>1. Head(air).kind = "carrier"
      BY <2>1, <2>2 DEF IsMark
    <3> QED BY <1>7, <3>1, Zenon
  <2>4. GateAt(r + 1, tg)'
    BY <1>7, <2>1, <2>3 DEF GateAt
  <2> QED BY <1>5, <1>7, <2>4
<1>8. CASE /\ g_state \in {"TXON_MUTE", "WAIT"} /\ air # << >>
           /\ g_state' = IF \/ g_state = "TXON_MUTE" /\ Head(air).kind # "carrier"
                            \/ g_state = "WAIT" /\ Head(air).kind = "bits"
                         THEN "COMMAND" ELSE g_state
           /\ g_reply' = Head(air).reply
           /\ air' = Tail(air) /\ UNCHANGED g_carrier
  <2>1. IsMark(Head(air), r + 1, tag_rn16) /\ r < s
    BY <1>1, <1>2, <1>8, AirTake
  <2>2. g_carrier /\ (\/ r = 1 /\ tg = 0 /\ g_state = "TXON_MUTE"
                      \/ r = 2 /\ tg = 1 /\ g_state = "WAIT"
                      \/ r = 3 /\ tg = 3 /\ g_state = "TXON_MUTE"
                      \/ r = 4 /\ tg = 4 /\ g_state = "WAIT")
    BY <1>2, <1>8, <2>1 DEF GateAt
  <2>3. GateAt(r + 1, tg)'
    <3>1. g_carrier'
      BY <1>8, <2>2
    <3>2. g_state' = "COMMAND"
      BY <1>8, <2>1, <2>2 DEF IsMark
    <3>3. r = 2 => g_reply' = tag_rn16'
      BY <1>1, <1>8, <2>1 DEF IsMark
    <3> QED BY <2>2, <3>1, <3>2, <3>3 DEF GateAt
  <2> QED BY <1>5, <1>8, <2>3
<1>9. CASE /\ g_state = "UNMUTE" /\ g_state' = "COMMAND" /\ g_reply' = Noise
           /\ UNCHANGED <<air, g_carrier>>
  <2>1. GateAt(r, tg)'
    BY <1>2, <1>9 DEF GateAt
  <2> QED BY <1>4, <1>9, <2>1
<1> QED BY <1>6, <1>7, <1>8, <1>9, Zenon DEF GateListens

\* The gate's messages are carried out for the command they were queued with.
LEMMA GateCommandProgress == ASSUME RoundInv, GateCommand PROVE Progress'
<1> PICK q \in 0 .. 13, te \in 0 .. 7, s \in 0 .. 5, r \in 0 .. 5, tg \in 0 .. 6 :
        RoundAt(q, te, s, r, tg)
  BY DEF RoundInv, CourseInv, Progress
<1> DEFINE F == GateRound(tag_rn16)
           task == Head(gate_queue)
           w == [len |-> task.len, reply |-> g_reply]
<1>1. gate_queue \in Seq(GateTasks) /\ gate_queue # << >> /\ bursts \in Seq(Windows)
  BY DEF GateCommand, GateTakes, RoundInv, SimInv, RoundTypes, QueueTypes, FrontTypes
<1>2. /\ Len(gate_queue) = GateShare(q) - tg
      /\ \A i \in 1 .. Len(gate_queue) : gate_queue[i] = F[tg + i]
  BY DEF RoundAt, GateQueueAt
<1>3. tg \in {0, 1, 2, 3, 4, 5}
  <2>1. Len(gate_queue) > 0 /\ GateShare(q) \in 0 .. 6
    BY <1>1, TailFacts, ShareBounds
  <2> QED BY <1>2, <2>1
<1>4. /\ task = F[tg + 1] /\ Len(Tail(gate_queue)) = Len(gate_queue) - 1
      /\ \A i \in 1 .. Len(Tail(gate_queue)) : Tail(gate_queue)[i] = F[(tg + 1) + i]
  <2> DEFINE b == gate_queue
  <2>1. b \in Seq(GateTasks) /\ b # << >> /\ tg \in Nat /\ \A i \in 1 .. Len(b) : b[i] = F[tg + i]
    BY <1>1, <1>2
  <2> HIDE DEF b, F
  <2>2. /\ Head(b) = F[tg + 1] /\ Len(Tail(b)) = Len(b) - 1
        /\ \A i \in 1 .. Len(Tail(b)) : Tail(b)[i] = F[(tg + 1) + i]
    BY <2>1, TakeFrom
  <2> QED BY <2>2 DEF b
<1>5. /\ gate_queue' = Tail(gate_queue)
      /\ UNCHANGED <<d_mac_state, inside, body, encoder_queue, tag_rn16, air, e_state, e_frame,
                     g_carrier, g_reply>>
  BY DEF GateCommand, GateTakes, mac
<1>6. GateQueueAt(q, tg + 1)'
  <2>1. GateShare(q) \in 0 .. 6
    BY ShareBounds
  <2>2. Len(gate_queue') = GateShare(q) - (tg + 1)
    BY <1>2, <1>4, <1>5, <2>1, SMTT(60)
  <2>3. \A i \in 1 .. Len(gate_queue') : gate_queue'[i] = GateRound(tag_rn16')[(tg + 1) + i]
    BY <1>4, <1>5
  <2> QED BY <2>2, <2>3 DEF GateQueueAt
<1>7. /\ \/ r = 2 /\ tg = 0
         \/ r = 3 /\ tg = 1 /\ g_reply = tag_rn16
         \/ r = 3 /\ tg = 2
         \/ r = 4 /\ tg = 3
         \/ r = 5 /\ tg = 4
         \/ r = 5 /\ tg = 5
      /\ g_carrier
  BY <1>3 DEF GateCommand, RoundAt, GateAt
<1>8. /\ tg = 0 => task.cmd = "RXB_GATE"
      /\ tg = 1 => task.cmd = "RXB_UNGATE" /\ task.len = 800
      /\ tg = 2 => task.cmd = "RXB_DONE"
      /\ tg = 3 => task.cmd = "RXB_GATE"
      /\ tg = 4 => task.cmd = "RXB_UNGATE" /\ task.len = 2800
      /\ tg = 5 => task.cmd = "RXB_DONE"
  BY <1>4, TaskKinds
<1>9. /\ task.cmd = "RXB_GATE" => g_state' = "WAIT" /\ bursts' = bursts
      /\ task.cmd = "RXB_UNGATE" => g_state' = "UNMUTE" /\ bursts' = Append(bursts, w)
      /\ task.cmd = "RXB_DONE" => g_state' = "TXOFF" /\ bursts' = bursts
  BY DEF GateCommand
<1>10. GateAt(r, tg + 1)'
  <2>1. g_carrier'
    BY <1>5, <1>7
  <2> HIDE DEF task
  <2> QED BY <1>7, <1>8, <1>9, <2>1 DEF GateAt
<1>11. BurstsAt(tg + 1)'
  <2>1. BurstsAt(tg)
    BY DEF RoundAt
  <2>2. /\ Len(bursts) \in Nat /\ w.len = task.len /\ w.reply = g_reply
        /\ Len(Append(bursts, w)) = Len(bursts) + 1
        /\ \A i \in 1 .. Len(bursts) : Append(bursts, w)[i] = bursts[i]
        /\ Append(bursts, w)[Len(bursts) + 1] = w
    <3>1. bursts \in Seq(Windows \cup {w}) /\ w \in Windows \cup {w}
      BY <1>1, SeqMonotone
    <3> HIDE DEF w
    <3>2. /\ Len(bursts) \in Nat
          /\ Len(Append(bursts, w)) = Len(bursts) + 1
          /\ \A i \in 1 .. Len(bursts) : Append(bursts, w)[i] = bursts[i]
          /\ Append(bursts, w)[Len(bursts) + 1] = w
      BY <3>1, AppendFacts
    <3> QED BY <3>2 DEF w
  <2>3. CASE tg \in {0, 2, 3, 5}
    BY <1>5, <1>8, <1>9, <2>1, <2>3 DEF BurstsAt
  <2>4. CASE tg = 1
    <3>1. w = [len |-> 800, reply |-> tag_rn16]
      BY <1>7, <1>8, <2>4
    <3>2. Len(bursts) = 0 /\ bursts' = Append(bursts, w)
      BY <1>8, <1>9, <2>1, <2>4 DEF BurstsAt
    <3> HIDE DEF w
    <3>3. Len(bursts') = 1 /\ bursts'[1] = [len |-> 800, reply |-> tag_rn16']
      BY <1>5, <2>2, <3>1, <3>2
    <3> QED BY <2>4, <3>3 DEF BurstsAt
  <2>5. CASE tg = 4
    <3>1. Len(bursts) = 1 /\ bursts[1] = [len |-> 800, reply |-> tag_rn16]
      BY <2>1, <2>5 DEF BurstsAt
    <3>2. bursts' = Append(bursts, w) /\ w.len = 2800
      BY <1>8, <1>9, <2>5
    <3> HIDE DEF w
    <3>3. Len(bursts') = 2 /\ bursts'[2] = w /\ bursts'[1] = bursts[1]
      BY <2>2, <3>1, <3>2
    <3> QED BY <1>5, <2>5, <3>1, <3>2, <3>3 DEF BurstsAt
  <2> QED BY <1>3, <2>3, <2>4, <2>5
<1>12. BodyAt(q)' /\ EncoderQueueAt(q, te)' /\ AirAt(s, r)' /\ EncoderAt(te, s)'
  BY <1>5 DEF RoundAt, BodyAt, EncoderQueueAt, AirAt, EncoderAt
<1>13. RoundAt(q, te, s, r, tg + 1)' /\ tg + 1 \in 0 .. 6
  BY <1>3, <1>6, <1>10, <1>11, <1>12 DEF RoundAt
<1> QED BY <1>13 DEF Progress

\* The back end's invariant holds in the flowgraph as well.
LEMMA FrameInvStep == ASSUME RoundInv, [RoundNext]_roundVars PROVE FrameInv'
<1>1. TypeOK /\ FrameInv /\ [Next]_vars
  BY Simulates DEF RoundInv, SimInv
<1> QED BY <1>1, FrameStep DEF Inv

LEMMA ProgressStep == ASSUME RoundInv, [RoundNext]_roundVars PROVE Progress'
<1>1. PacketsIntact'
  BY FrameInvStep DEF FrameInv
<1>2. ASSUME NEW t \in Callers, MacStep(t), UNCHANGED front PROVE Progress'
  <2>1. UNCHANGED radio
    BY <1>2 DEF front, radio
  <2> QED BY <1>2, <2>1, QueueMsgProgress, ReturnProgress DEF MacStep
<1>3. CASE Main
  BY <1>2, <1>3, CommandProgress DEF Main, Callers
<1>4. CASE \E c \in Correlators : PeakCount(c)
  <2>1. UNCHANGED <<d_mac_state, inside, body, queues, radio>>
    BY <1>4 DEF PeakCount, vars, mac, front, radio
  <2> QED BY <2>1, ProgressKept
<1>5. CASE PickPeak
  <2>1. UNCHANGED <<d_mac_state, inside, body>>
    BY <1>5 DEF PickPeak, Search, preamble_search, Abort
  <2>2. UNCHANGED <<queues, radio>>
    BY <1>5 DEF PickPeak, Search, front, radio
  <2> QED BY <2>1, <2>2, ProgressKept
<1>6. CASE MuxStep
  <2>1. UNCHANGED <<d_mac_state, inside, body, queues, radio>>
    BY <1>6 DEF MuxStep, mac, front, radio
  <2> QED BY <2>1, ProgressKept
<1>7. CASE RoundTimingLoop
  <2>1. UNCHANGED <<d_mac_state, inside, body>>
    BY <1>7 DEF RoundTimingLoop, SymbolSynch, symbol_synch, Abort, EmitSymbols, mac
  <2>2. UNCHANGED <<queues, radio>>
    BY <1>7 DEF RoundTimingLoop, SymbolSynch, EmitSymbols, front, radio
  <2> QED BY <2>1, <2>2, ProgressKept
<1>8. CASE RoundDecoder
  <2>1. UNCHANGED <<d_mac_state, inside, body, queues, radio>>
    BY <1>8 DEF RoundDecoder, Decoder, OrthogonalDecode, mac, front, radio
  <2> QED BY <2>1, ProgressKept
<1>9. CASE FramerIdle /\ UNCHANGED front
  <2>1. UNCHANGED <<d_mac_state, inside, body>>
    BY <1>9 DEF FramerIdle, bit_decode, Abort
  <2>2. UNCHANGED <<queues, radio>>
    BY <1>9 DEF FramerIdle, front, radio
  <2> QED BY <2>1, <2>2, ProgressKept
<1>10. ASSUME NEW t \in 0 .. BitBufLimit, FramerOffset(t), UNCHANGED front PROVE Progress'
  <2>1. UNCHANGED <<d_mac_state, inside, body, queues, radio>>
    BY <1>10 DEF FramerOffset, Take, mac, front, radio
  <2> QED BY <2>1, ProgressKept
<1>11. ASSUME NEW t \in 0 .. BitBufLimit, FramerGetFrame(t), UNCHANGED front PROVE Progress'
  <2>1. UNCHANGED radio
    BY <1>11 DEF front, radio
  <2> QED BY <1>1, <1>11, <2>1, DecodeProgress
<1>12. CASE UNCHANGED roundVars
  <2>1. UNCHANGED <<d_mac_state, inside, body, queues, radio>>
    BY <1>12 DEF roundVars, vars, mac, front, radio
  <2> QED BY <2>1, ProgressKept
<1>13. CASE RoundFramer
  BY <1>2, <1>9, <1>10, <1>11, <1>13 DEF RoundFramer, Framer, Callers
<1> QED BY <1>3, <1>4, <1>5, <1>6, <1>7, <1>8, <1>12, <1>13, EncoderTaskProgress, EncoderSendsProgress,
           GateListensProgress, GateCommandProgress DEF RoundNext, Encoder, Gate

-----------------------------------------------------------------------------
\* A failed assertion is the end: nothing happens after it.
LEMMA AbortEnds == ASSUME RoundNext PROVE Running
BY DEF RoundNext, Main, Command, Issue, MacStep, Encoder, EncoderTask, EncoderTakes, EncoderSends,
       Gate, GateListens, GateCommand, GateTakes, PeakCount, PickPeak, Search, MuxStep,
       RoundTimingLoop, SymbolSynch, EmitSymbols, RoundDecoder, Decoder, OrthogonalDecode,
       RoundFramer, Framer, FramerIdle, FramerOffset, FramerGetFrame

\* A window is opened for the answer to a command whose messages are queued.
LEMMA WindowsNeedMessages ==
    ASSUME RoundInv
    PROVE  /\ bursts # << >> => d_mac_state # "MS_IDLE"
           /\ Len(bursts) <= 2
           /\ Len(bursts) = 2 => d_mac_state = "MS_EPC" /\ bursts[2].len = 2800
           /\ bursts # << >> => bursts[1] = [len |-> 800, reply |-> tag_rn16]
<1> PICK q \in 0 .. 13, te \in 0 .. 7, s \in 0 .. 5, r \in 0 .. 5, tg \in 0 .. 6 :
        RoundAt(q, te, s, r, tg)
  BY DEF RoundInv, CourseInv, Progress
<1>1. /\ bursts \in Seq(Windows) /\ gate_queue \in Seq(GateTasks)
      /\ body["main"] \in Seq(EncoderTasks \cup GateTasks)
  BY DEF RoundInv, SimInv, RoundTypes, FrontTypes, QueueTypes, Callers
<1>2. Len(gate_queue) = GateShare(q) - tg /\ Len(gate_queue) \in Nat /\ Len(body["main"]) \in Nat
  BY <1>1 DEF RoundAt, GateQueueAt
<1>3. tg <= GateShare(q)
  <2>1. GateShare(q) \in 0 .. 6
    BY ShareBounds
  <2>2. tg \in Nat
    OBVIOUS
  <2> QED BY <1>2, <2>1, <2>2
<1>4. /\ tg >= 2 => q >= 6
      /\ tg >= 5 => q >= 12
  BY <1>3 DEF EncoderShare, GateShare
<1>5. q >= 6 => d_mac_state # "MS_IDLE"
  BY DEF RoundAt, BodyAt
<1>6. q >= 12 => d_mac_state = "MS_EPC"
  BY <1>2 DEF RoundAt, BodyAt
<1>7. bursts # << >> => Len(bursts) > 0
  BY <1>1
<1>8. /\ tg <= 1 => Len(bursts) = 0
      /\ tg \in 2 .. 4 => Len(bursts) = 1
      /\ tg >= 5 => Len(bursts) = 2 /\ bursts[2].len = 2800
      /\ tg >= 2 => bursts[1] = [len |-> 800, reply |-> tag_rn16]
  BY DEF RoundAt, BurstsAt
<1>9. bursts # << >> => tg >= 2
  BY <1>7, <1>8
<1>10. Len(bursts) = 2 => tg >= 5
  BY <1>8
<1>11. Len(bursts) <= 2
  <2>1. tg <= 1 \/ tg \in 2 .. 4 \/ tg >= 5
    OBVIOUS
  <2>2. PICK n \in Nat : n = Len(bursts)
    BY <1>1
  <2>3. /\ tg <= 1 => n = 0
        /\ tg \in 2 .. 4 => n = 1
        /\ tg >= 5 => n = 2
    BY <1>8, <2>2
  <2>4. n <= 2
    BY <2>1, <2>3
  <2> QED BY <2>2, <2>4
<1>12. (bursts # << >> => d_mac_state # "MS_IDLE") /\ (Len(bursts) = 2 => d_mac_state = "MS_EPC")
  BY <1>4, <1>5, <1>6, <1>9, <1>10
<1>13. Len(bursts) = 2 => bursts[2].len = 2800
  BY <1>8, <1>10
<1>14. bursts # << >> => bursts[1] = [len |-> 800, reply |-> tag_rn16]
  BY <1>8, <1>9
<1> QED BY <1>11, <1>12, <1>13, <1>14

\* Each counter has a result for every burst it has counted and pick_peak
\* has not decided on.
LEMMA ResultsStep == ASSUME RoundInv, [RoundNext]_roundVars PROVE ResultsInv'
<1>1. /\ peaks \in [Correlators -> Seq(BOOLEAN)] /\ counted \in [Correlators -> Nat]
      /\ searched \in Nat /\ bursts \in Seq(Windows) /\ ResultsInv
  BY DEF RoundInv, SimInv, RoundTypes, SearchTypes, FrontTypes, CourseInv
<1>2. CASE UNCHANGED <<counted, peaks, searched>> /\ (bursts' = bursts \/ GateCommand)
  <2>1. Len(bursts') >= Len(bursts) /\ Len(bursts') \in Nat /\ Len(bursts) \in Nat
    <3>1. CASE bursts' = bursts
      BY <1>1, <3>1
    <3>2. ASSUME NEW w, bursts' = Append(bursts, w)
          PROVE  Len(bursts') >= Len(bursts) /\ Len(bursts') \in Nat /\ Len(bursts) \in Nat
      BY <1>1, <3>2
    <3> QED BY <1>2, <3>1, <3>2 DEF GateCommand
  <2>2. ASSUME NEW c \in Correlators PROVE counted[c] <= Len(bursts')
    <3>1. counted[c] \in Nat /\ counted[c] <= Len(bursts)
      BY <1>1 DEF ResultsInv
    <3> QED BY <2>1, <3>1
  <2> QED BY <1>1, <1>2, <2>2 DEF ResultsInv
<1>3. ASSUME NEW c \in Correlators, PeakCount(c) PROVE ResultsInv'
  <2>1. PICK found \in BOOLEAN : peaks' = [peaks EXCEPT ![c] = Append(peaks[c], found)]
    BY <1>3 DEF PeakCount
  <2>2. /\ counted[c] < Len(bursts) /\ counted' = [counted EXCEPT ![c] = counted[c] + 1]
        /\ UNCHANGED <<searched, bursts>>
    BY <1>3 DEF PeakCount, front
  <2>3. peaks[c] \in Seq(BOOLEAN) /\ Len(Append(peaks[c], found)) = Len(peaks[c]) + 1
    BY <1>1, AppendFacts
  <2>4. ASSUME NEW d \in Correlators
        PROVE  Len(peaks'[d]) = counted'[d] - searched /\ counted'[d] <= Len(bursts)
    <3>1. /\ Len(peaks[d]) = counted[d] - searched /\ counted[d] <= Len(bursts)
          /\ Len(peaks[d]) \in Nat /\ counted[d] \in Nat /\ Len(bursts) \in Nat
      BY <1>1 DEF ResultsInv
    <3>2. CASE d = c
      <4>1. peaks'[d] = Append(peaks[c], found) /\ counted'[d] = counted[c] + 1
        BY <1>1, <2>1, <2>2, <3>2
      <4> QED BY <1>1, <2>2, <2>3, <3>1, <3>2, <4>1
    <3>3. CASE d # c
      BY <1>1, <2>1, <2>2, <3>1, <3>3
    <3> QED BY <3>2, <3>3
  <2> QED BY <2>2, <2>4 DEF ResultsInv
<1>4. CASE PickPeak
  <2>1. /\ peaks' = [c \in Correlators |-> Tail(peaks[c])] /\ searched' = searched + 1
        /\ UNCHANGED <<counted, bursts>>
    BY <1>4 DEF PickPeak, front
  <2>2. ASSUME NEW c \in Correlators PROVE Len(peaks'[c]) = counted[c] - (searched + 1)
    <3>1. peaks[c] \in Seq(BOOLEAN) /\ peaks[c] # << >>
      BY <1>1, <1>4 DEF PickPeak
    <3>2. Len(Tail(peaks[c])) = Len(peaks[c]) - 1 /\ Len(peaks[c]) \in Nat
      BY <3>1, TailFacts
    <3>3. Len(peaks[c]) = counted[c] - searched /\ counted[c] \in Nat
      BY <1>1 DEF ResultsInv
    <3> QED BY <1>1, <2>1, <3>2, <3>3
  <2> QED BY <1>1, <2>1, <2>2 DEF ResultsInv
<1>5. CASE UNCHANGED roundVars
  BY <1>2, <1>5 DEF roundVars, front, search
<1> QED BY <1>2, <1>3, <1>4, <1>5
        DEF RoundNext, Main, Command, Encoder, EncoderTask, EncoderSends, Gate, GateListens,
            GateCommand, MuxStep, RoundTimingLoop, RoundDecoder, RoundFramer, front, search

\* The search that is decided finds the MAC in the state it asserts, unless
\* decoded_message has not returned yet.
LEMMA SearchFinds ==
    ASSUME RoundInv, PickPeak
    PROVE  /\ searched \in {0, 1} /\ d_mac_state \in Frames
           /\ searched = 0 => d_state = "PREAMBLE_DET" /\ d_mac_state = "MS_RN16"
           /\ searched = 1 => d_mac_state = "MS_EPC" /\ ("framer" \in inside \/ d_state = "PREAMBLE_DET")
<1>1. PICK c \in Correlators : TRUE
  BY TransceiverAssumption
<1>2. peaks[c] \in Seq(BOOLEAN) /\ peaks[c] # << >> /\ counted[c] \in Nat /\ searched \in Nat
  BY DEF PickPeak, RoundInv, SimInv, RoundTypes, SearchTypes
<1>3. Len(peaks[c]) > 0 /\ Len(peaks[c]) \in Nat
  BY <1>2, TailFacts
<1>4. Len(peaks[c]) = counted[c] - searched /\ counted[c] <= Len(bursts)
  BY DEF RoundInv, CourseInv, ResultsInv
<1>5. bursts \in Seq(Windows) /\ Len(bursts) \in Nat
  BY DEF RoundInv, SimInv, RoundTypes, FrontTypes
<1>6. searched < Len(bursts)
  BY <1>2, <1>3, <1>4, <1>5
<1>7. Len(bursts) <= 2 /\ bursts # << >>
  <2>1. Len(bursts) # 0
    BY <1>2, <1>6
  <2> QED BY <2>1, WindowsNeedMessages
<1>8. searched \in {0, 1} /\ (searched = 1 => Len(bursts) = 2)
  <2>1. PICK n \in Nat : n = Len(bursts)
    BY <1>5
  <2>2. searched < n /\ n <= 2
    BY <1>6, <1>7, <2>1
  <2>3. searched \in {0, 1} /\ (searched = 1 => n = 2)
    BY <1>2, <2>2
  <2> QED BY <2>1, <2>3
<1>9. d_mac_state \in Frames
  BY <1>7, WindowsNeedMessages DEF Frames, RoundInv, SimInv, TypeOK, MacTypeOK, MacState
<1>10. searched = 1 => d_mac_state = "MS_EPC"
  BY <1>8, WindowsNeedMessages
<1>11. /\ searched = 0 => d_state = "PREAMBLE_DET" /\ d_mac_state = "MS_RN16"
       /\ searched = 1 /\ d_mac_state = "MS_EPC" => ("framer" \in inside \/ d_state = "PREAMBLE_DET")
  BY <1>9 DEF RoundInv, CourseInv, PhaseInv, Frames
<1> QED BY <1>8, <1>9, <1>10, <1>11

LEMMA PhaseKept ==
    ASSUME PhaseInv, UNCHANGED <<commands, d_state, d_mac_state, inside, searched>>
    PROVE  PhaseInv'
BY DEF PhaseInv

LEMMA PhaseStep ==
    ASSUME MainIsPrompt, RoundInv, [RoundNext]_roundVars PROVE PhaseInv'
<1>1. PhaseInv /\ commands \in Nat /\ searched \in Nat /\ MaxCommands \in Nat /\ TypeOK /\ FrameInv
  BY TransceiverAssumption DEF RoundInv, CourseInv, SimInv, RoundTypes, FrontTypes, SearchTypes
<1>2. CASE Command
  <2>1. commands < MaxCommands /\ commands' = commands + 1 /\ searched' = searched
    BY <1>2 DEF Command, search
  <2>2. CASE Abort("issue_downlink_command")
    <3>1. ~(d_state = "READY_DOWNLINK" /\ d_mac_state = "MS_IDLE")
      BY <1>2, <2>2 DEF Command, Issue, issue_downlink_command, Enter, Abort, RoundInv, AbortInv, Running
    <3> QED BY <1>1, <2>1, <2>2, <3>1 DEF PhaseInv, Abort
  <2>3. CASE /\ d_mac_state = "MS_IDLE" /\ d_state' = "PREAMBLE_DET" /\ d_mac_state' = "MS_RN16"
    <3>1. bursts = << >>
      BY <2>3, WindowsNeedMessages
    <3>2. searched = 0
      <4>1. searched <= Len(bursts)
        BY SearchedBursts
      <4>2. Len(bursts) = 0
        BY <3>1
      <4> QED BY <1>1, <4>1, <4>2
    <3> QED BY <1>1, <2>1, <2>3, <3>2 DEF PhaseInv
  <2> QED BY <1>2, <2>2, <2>3 DEF Command, Issue, issue_downlink_command
<1>3. ASSUME NEW t \in Callers, MacStep(t), UNCHANGED <<front, search>> PROVE PhaseInv'
  <2>1. UNCHANGED <<commands, searched>>
    BY <1>3 DEF front, search
  <2>2. CASE queue_msg(t)
    BY <1>1, <2>1, <2>2, PhaseKept DEF queue_msg
  <2>3. CASE Return(t)
    <3>1. t \in inside /\ inside' = inside \ {t} /\ d_mac_state' = d_mac_state
          /\ d_state' = IF t = "framer" THEN "PREAMBLE_DET" ELSE d_state
      BY <2>3 DEF Return
    <3>2. CASE t = "framer"
      <4>1. d_mac_state = "MS_EPC" /\ d_state = "WAIT_FOR_DECODE"
        BY <1>1, <3>1, <3>2 DEF FrameInv, MacInv
      <4> QED BY <1>1, <2>1, <3>1, <3>2, <4>1 DEF PhaseInv
    <3>3. CASE t # "framer"
      BY <1>1, <2>1, <3>1, <3>3 DEF PhaseInv
    <3> QED BY <3>2, <3>3
  <2> QED BY <1>3, <2>2, <2>3 DEF MacStep
<1>4. CASE PickPeak
  <2>1. searched' = searched + 1 /\ UNCHANGED <<commands, d_mac_state, inside>>
    BY <1>4 DEF PickPeak, Search, preamble_search, Abort, front
  <2>2. "main" \notin inside
    BY <1>4 DEF PickPeak, MainIsPrompt, RoundInv, SimInv, RoundTypes, SearchTypes
  <2>3. /\ searched \in {0, 1} /\ d_mac_state \in Frames
        /\ searched = 0 => d_mac_state = "MS_RN16"
    BY <1>4, SearchFinds
  <2>4. d_mac_state # "MS_IDLE"
    BY <2>3 DEF Frames
  <2> QED BY <1>1, <2>1, <2>2, <2>3, <2>4 DEF PhaseInv
<1>5. CASE RoundTimingLoop
  <2>1. UNCHANGED <<commands, searched, d_mac_state, inside>>
    BY <1>5 DEF RoundTimingLoop, SymbolSynch, symbol_synch, Abort, EmitSymbols, mac, front, search
  <2>2. d_state' = d_state \/ (d_state = "SYMBOL_DET" /\ d_state' = "BIT_DECODE")
    BY <1>5 DEF RoundTimingLoop, SymbolSynch, symbol_synch, symbol_synch_asserts, Abort, EmitSymbols, mac
  <2> QED BY <1>1, <2>1, <2>2 DEF PhaseInv
<1>6. CASE FramerIdle /\ UNCHANGED <<front, search>>
  <2>1. UNCHANGED <<commands, searched, d_mac_state, inside>>
    BY <1>6 DEF FramerIdle, bit_decode, Abort, front, search
  <2>2. d_state' = d_state \/ (d_state = "BIT_DECODE" /\ d_state' = "WAIT_FOR_DECODE")
    BY <1>6 DEF FramerIdle, bit_decode, bit_decode_asserts, Abort
  <2> QED BY <1>1, <2>1, <2>2 DEF PhaseInv
<1>7. ASSUME NEW t \in 0 .. BitBufLimit, FramerGetFrame(t), UNCHANGED <<front, search>>
      PROVE  PhaseInv'
  <2>1. UNCHANGED <<commands, searched>>
    BY <1>7 DEF front, search
  <2>2. UNCHANGED mac \/ decoded_message(Packet)
    BY <1>7, Zenon DEF FramerGetFrame
  <2>3. \/ UNCHANGED <<d_state, d_mac_state, inside>>
        \/ /\ d_state = "WAIT_FOR_DECODE" /\ d_state' = d_state
           /\ d_mac_state = "MS_RN16" /\ d_mac_state' = "MS_EPC" /\ inside' = inside \cup {"framer"}
    BY <2>2 DEF decoded_message, Abort, Enter, mac
  <2> QED BY <1>1, <2>1, <2>3 DEF PhaseInv
<1>8. ASSUME NEW t \in 0 .. BitBufLimit, FramerOffset(t), UNCHANGED <<front, search>> PROVE PhaseInv'
  BY <1>1, <1>8, PhaseKept DEF FramerOffset, mac, front, search
<1>9. CASE UNCHANGED <<commands, d_state, d_mac_state, inside, searched>>
  BY <1>1, <1>9, PhaseKept
<1>10. CASE RoundFramer
  BY <1>3, <1>6, <1>7, <1>8, <1>10 DEF RoundFramer, Framer, Callers
<1>11. CASE Main
  BY <1>2, <1>3, <1>11 DEF Main, Callers
<1>12. CASE Encoder \/ Gate \/ RoundDecoder
  BY <1>9, <1>12 DEF Encoder, EncoderTask, EncoderTakes, EncoderSends, Gate, GateListens, GateCommand,
     GateTakes, RoundDecoder, Decoder, OrthogonalDecode, vars, mac, front, search
<1>13. CASE (\E c \in Correlators : PeakCount(c)) \/ MuxStep \/ UNCHANGED roundVars
  BY <1>9, <1>13 DEF PeakCount, MuxStep, roundVars, vars, mac, front, search
<1> QED BY <1>4, <1>5, <1>10, <1>11, <1>12, <1>13 DEF RoundNext

-----------------------------------------------------------------------------
LEMMA AnswerKept ==
    ASSUME AnswerInv, UNCHANGED <<d_mac_state, tag, tag_rn16, tracked>>,
           d_state' \notin {"BIT_DECODE", "WAIT_FOR_DECODE"} \/ d_state \in {"BIT_DECODE", "WAIT_FOR_DECODE"}
    PROVE  AnswerInv'
BY DEF AnswerInv

\* The mux tags the one burst there is with what the tag answered.
LEMMA MuxAnswer ==
    ASSUME RoundInv, MuxStep, d_mac_state = "MS_RN16" PROVE tag' = tag \/ tag' = tag_rn16
<1> DEFINE c == Head(mux_queue).in_sel
           b == BurstAt(c)
<1>1. /\ mux_queue \in Seq(MuxCommands) /\ mux_queue # << >>
      /\ mux_at \in [Correlators -> Nat \ {0}] /\ bursts \in Seq(Windows)
  BY DEF MuxStep, RoundInv, SimInv, RoundTypes, SearchTypes, FrontTypes
<1>2. c \in Correlators
  <2>1. Head(mux_queue) \in MuxCommands
    BY <1>1, TailFacts
  <2> QED BY <2>1 DEF MuxCommands
<1>3. b \in Nat \ {0}
  BY <1>1, <1>2, BurstAtFacts DEF BurstAt
<1>4. b <= Len(bursts) /\ (tag' = tag \/ tag' = bursts[b].reply)
  BY DEF MuxStep
<1> HIDE DEF b
<1>5. PICK n \in Nat : n = Len(bursts)
  BY <1>1
<1>6. n # 2 /\ n <= 2
  BY <1>5, WindowsNeedMessages
<1>7. b = 1 /\ n = 1
  BY <1>3, <1>4, <1>5, <1>6
<1>8. bursts # << >>
  <2>1. Len(bursts) = 1
    BY <1>5, <1>7
  <2> QED BY <2>1
<1> QED BY <1>4, <1>7, <1>8, WindowsNeedMessages

\* Once a query is answered the tag keeps its RN16.
LEMMA QueryIsSentOnce ==
    ASSUME RoundInv, EncoderSends, tag_rn16' # tag_rn16 PROVE searched = 0 /\ bursts = << >>
<1> PICK q \in 0 .. 13, te \in 0 .. 7, s \in 0 .. 5, r \in 0 .. 5, tg \in 0 .. 6 :
        RoundAt(q, te, s, r, tg)
  BY DEF RoundInv, CourseInv, Progress
<1>1. e_state = "SEND_SAMPLES" /\ e_frame = "query"
  BY DEF EncoderSends
<1>2. tag_rn16 # "query"
  BY PacketsAssumption DEF RoundInv, SimInv, RoundTypes, FrontTypes
<1>3. s = 2
  BY <1>1, <1>2 DEF RoundAt, EncoderAt
<1>4. bursts = << >>
  <2>1. s \in 0 .. 2
    BY <1>3
  <2> QED BY <2>1, BeforeTheAnswer
<1>5. searched <= Len(bursts) /\ Len(bursts) = 0 /\ searched \in Nat
  BY <1>4, SearchedBursts DEF RoundInv, SimInv, RoundTypes, SearchTypes
<1> QED BY <1>4, <1>5

LEMMA AnswerStep == ASSUME RoundInv, [RoundNext]_roundVars PROVE AnswerInv'
<1>1. AnswerInv /\ PhaseInv /\ TagInv /\ FrameInv
  BY DEF RoundInv, CourseInv, SimInv
<1>2. CASE Command
  <2>1. UNCHANGED <<tag, tracked, tag_rn16>>
    BY <1>2 DEF Command, Issue, chain
  <2>2. CASE Abort("issue_downlink_command")
    BY <1>1, <2>1, <2>2, AnswerKept DEF Abort
  <2>3. CASE d_state = "READY_DOWNLINK" /\ d_state' = "PREAMBLE_DET" /\ d_mac_state' = "MS_RN16"
    BY <1>1, <2>1, <2>3 DEF TagInv, AnswerInv
  <2> QED BY <1>2, <2>2, <2>3 DEF Command, Issue, issue_downlink_command
<1>3. ASSUME NEW t \in Callers, MacStep(t), UNCHANGED <<front, search>> PROVE AnswerInv'
  <2>1. UNCHANGED <<tag, tracked, tag_rn16, d_mac_state>>
    BY <1>3 DEF MacStep, queue_msg, Return, chain, front
  <2>2. d_state' = d_state \/ d_state' = "PREAMBLE_DET"
    BY <1>3 DEF MacStep, queue_msg, Return
  <2> QED BY <1>1, <2>1, <2>2, AnswerKept
<1>4. CASE EncoderSends
  <2>1. UNCHANGED <<tag, tracked, d_mac_state, d_state>>
    BY <1>4 DEF EncoderSends, vars, mac, chain
  <2>2. CASE tag_rn16' = tag_rn16
    BY <1>1, <2>1, <2>2, AnswerKept
  <2>3. CASE tag_rn16' # tag_rn16
    <3>1. d_mac_state = "MS_RN16" => d_state = "PREAMBLE_DET"
      BY <1>1, <1>4, <2>3, QueryIsSentOnce DEF PhaseInv
    <3> QED BY <1>1, <2>1, <3>1 DEF TagInv, AnswerInv
  <2> QED BY <2>2, <2>3
<1>5. CASE PickPeak
  <2>1. UNCHANGED <<tag, tracked, tag_rn16, d_mac_state>>
    BY <1>5 DEF PickPeak, Search, preamble_search, Abort, chain, front
  <2>2. d_state' \in {d_state, "SYMBOL_DET", "READY_DOWNLINK"}
    BY <1>5 DEF PickPeak, Search, preamble_search, Abort
  <2> QED BY <1>1, <2>1, <2>2, AnswerKept
<1>6. CASE MuxStep
  <2>1. UNCHANGED <<tracked, tag_rn16, d_mac_state, d_state>>
    BY <1>6 DEF MuxStep, mac, front
  <2> QED BY <1>1, <1>6, <2>1, MuxAnswer DEF AnswerInv
<1>7. CASE RoundTimingLoop
  <2>1. UNCHANGED <<tag_rn16, d_mac_state>>
    BY <1>7 DEF RoundTimingLoop, SymbolSynch, symbol_synch, Abort, EmitSymbols, mac, front
  <2>2. CASE SymbolSynch
    <3>1. /\ tag # NoTag /\ tracked' = tag /\ tag' = NoTag
      BY <2>2 DEF SymbolSynch
    <3>2. d_state = "SYMBOL_DET"
      BY <1>1, <3>1 DEF TagInv
    <3> QED BY <1>1, <2>1, <3>1, <3>2 DEF AnswerInv
  <2>3. CASE \E n \in 1 .. SymBufLimit : EmitSymbols(n)
    BY <1>1, <2>1, <2>3, AnswerKept DEF EmitSymbols, mac
  <2> QED BY <1>7, <2>2, <2>3 DEF RoundTimingLoop
<1>8. CASE FramerIdle /\ UNCHANGED <<front, search>>
  <2>1. UNCHANGED <<tag, tracked, tag_rn16, d_mac_state>>
    BY <1>8 DEF FramerIdle, bit_decode, Abort, chain, front
  <2>2. d_state' = d_state \/ d_state = "BIT_DECODE"
    BY <1>8 DEF FramerIdle, bit_decode, bit_decode_asserts, Abort
  <2> QED BY <1>1, <2>1, <2>2, AnswerKept
<1>9. ASSUME NEW t \in 0 .. BitBufLimit, FramerGetFrame(t), UNCHANGED <<front, search>>
      PROVE  AnswerInv'
  <2>1. UNCHANGED <<tag, tracked, tag_rn16>>
    BY <1>9 DEF FramerGetFrame, Take, front
  <2>2. UNCHANGED mac \/ decoded_message(Packet)
    BY <1>9, Zenon DEF FramerGetFrame
  <2>3. UNCHANGED <<d_state, d_mac_state>> \/ d_mac_state' = "MS_EPC"
    BY <2>2 DEF decoded_message, Abort, mac
  <2> QED BY <1>1, <2>1, <2>3 DEF AnswerInv
<1>10. CASE UNCHANGED <<d_state, d_mac_state, tag, tracked, tag_rn16>>
  BY <1>1, <1>10, AnswerKept
<1>11. ASSUME NEW t \in 0 .. BitBufLimit, FramerOffset(t), UNCHANGED <<front, search>> PROVE AnswerInv'
  BY <1>10, <1>11 DEF FramerOffset, Take, mac, front
<1>12. CASE RoundFramer
  BY <1>3, <1>8, <1>9, <1>11, <1>12 DEF RoundFramer, Framer, Callers
<1>13. CASE Main
  BY <1>2, <1>3, <1>13 DEF Main, Callers
<1>14. CASE EncoderTask \/ Gate \/ RoundDecoder
  BY <1>10, <1>14 DEF EncoderTask, EncoderTakes, Gate, GateListens, GateCommand,
     GateTakes, RoundDecoder, Decoder, OrthogonalDecode, vars, mac, chain, front
<1>15. CASE (\E c \in Correlators : PeakCount(c)) \/ UNCHANGED roundVars
  BY <1>10, <1>15 DEF PeakCount, roundVars, vars, mac, chain, front
<1> QED BY <1>4, <1>5, <1>6, <1>7, <1>12, <1>13, <1>14, <1>15 DEF RoundNext, Encoder

-----------------------------------------------------------------------------
\* Which call can find the MAC in a state it does not expect: a second
\* snd_query, or the search that overtakes decoded_message.
LEMMA AbortStep ==
    ASSUME MainIsPrompt, RoundInv, [RoundNext]_roundVars PROVE AbortInv'
<1>1. CASE UNCHANGED roundVars
  BY <1>1 DEF roundVars, vars, mac, front, search, RoundInv, CourseInv, AbortInv
<1>2. CASE RoundNext /\ aborted' = aborted
  BY <1>2, AbortEnds DEF Running, AbortInv
<1>3. ASSUME RoundNext, aborted' # aborted PROVE AbortInv'
  <2>1. aborted = "none" /\ aborted' \notin {"symbol_synch", "bit_decode", "decoded_message"}
    BY <1>3, AbortEnds, FrameInvStep DEF Running, FrameInv, BackEndAsserts
  <2>2. CASE Command
    <3>1. /\ aborted' = "issue_downlink_command" /\ commands < MaxCommands /\ commands' = commands + 1
          /\ ~(d_state = "READY_DOWNLINK" /\ d_mac_state = "MS_IDLE")
      BY <1>3, <2>2 DEF Command, Issue, issue_downlink_command, Enter, Abort
    <3>2. commands # 0 /\ commands \in Nat /\ MaxCommands \in Nat
      BY <3>1, TransceiverAssumption
         DEF RoundInv, CourseInv, PhaseInv, SimInv, RoundTypes, FrontTypes
    <3> QED BY <3>1, <3>2 DEF AbortInv
  <2>3. CASE PickPeak
    <3>1. /\ aborted' = "preamble_search" /\ UNCHANGED <<inside, prompt>>
          /\ ~(d_state = "PREAMBLE_DET" /\ d_mac_state \in Frames) /\ inside \cap prompt = {}
      BY <1>3, <2>3 DEF PickPeak, Search, preamble_search, Abort
    <3>2. "framer" \in inside
      BY <2>3, <3>1, SearchFinds
    <3> QED BY <3>1, <3>2 DEF AbortInv
  <2>4. aborted' \in {aborted, "symbol_synch", "bit_decode", "decoded_message"} \/ Command \/ PickPeak
    <3>1. ASSUME NEW t \in Callers, MacStep(t) PROVE aborted' = aborted
      BY <3>1 DEF MacStep, queue_msg, Return
    <3>2. CASE RoundTimingLoop
      BY <3>2 DEF RoundTimingLoop, SymbolSynch, symbol_synch, Abort, EmitSymbols, mac
    <3>3. CASE FramerIdle
      BY <3>3 DEF FramerIdle, bit_decode, Abort
    <3>4. ASSUME NEW t \in 0 .. BitBufLimit, FramerOffset(t) PROVE aborted' = aborted
      BY <3>4 DEF FramerOffset, mac
    <3>5. ASSUME NEW t \in 0 .. BitBufLimit, FramerGetFrame(t)
          PROVE  aborted' \in {aborted, "decoded_message"}
      <4>1. UNCHANGED mac \/ decoded_message(Packet)
        BY <3>5, Zenon DEF FramerGetFrame
      <4> QED BY <4>1 DEF decoded_message, Abort, Enter, mac
    <3>6. CASE Encoder \/ Gate \/ RoundDecoder
      BY <3>6 DEF Encoder, EncoderTask, EncoderTakes, EncoderSends, Gate, GateListens, GateCommand,
         GateTakes, RoundDecoder, Decoder, OrthogonalDecode, vars, mac
    <3>7. CASE (\E c \in Correlators : PeakCount(c)) \/ MuxStep
      BY <3>7 DEF PeakCount, MuxStep, vars, mac
    <3> QED BY <1>3, <3>1, <3>2, <3>3, <3>4, <3>5, <3>6, <3>7
            DEF RoundNext, Main, RoundFramer, Framer, Callers
  <2> QED BY <1>3, <2>1, <2>2, <2>3, <2>4
<1> QED BY <1>1, <1>2, <1>3

-----------------------------------------------------------------------------
LEMMA RoundStarts == ASSUME UninitStates = {"IDLE"} PROVE RoundInit => RoundInv
<1> SUFFICES ASSUME RoundInit PROVE RoundInv
  OBVIOUS
<1>1. SimInv /\ FrameInv
  BY SimStarts, FrameStarts DEF RoundInit
<1>2. /\ d_state = "READY_DOWNLINK" /\ d_mac_state = "MS_IDLE" /\ inside = {} /\ aborted = "none"
      /\ body["main"] = << >> /\ body["framer"] = << >> /\ encoder_queue = << >> /\ gate_queue = << >>
  BY DEF RoundInit, Init, MacInit, Callers
<1>3. Progress
  <2>1. BodyAt(0)
    <3>1. Len(body["main"]) = 0 /\ Len(body["framer"]) = 0
      BY <1>2
    <3>2. \A t \in Callers : body[t] = << >> /\ 1 .. Len(body[t]) = {}
      BY <1>2, <3>1 DEF Callers
    <3> QED BY <1>2, <3>2 DEF BodyAt
  <2>2. EncoderQueueAt(0, 0) /\ GateQueueAt(0, 0)
    <3>1. Len(encoder_queue) = 0 /\ Len(gate_queue) = 0
      BY <1>2
    <3> QED BY <3>1 DEF EncoderQueueAt, GateQueueAt, EncoderShare, GateShare
  <2>3. EncoderAt(0, 0) /\ GateAt(0, 0)
    BY DEF RoundInit, EncoderAt, GateAt
  <2>4. AirAt(0, 0) /\ BurstsAt(0)
    <3>1. Len(air) = 0 /\ Len(bursts) = 0
      BY DEF RoundInit
    <3> QED BY <3>1 DEF AirAt, BurstsAt
  <2>5. RoundAt(0, 0, 0, 0, 0)
    BY <2>1, <2>2, <2>3, <2>4 DEF RoundAt
  <2>6. 0 \in 0 .. 13 /\ 0 \in 0 .. 7 /\ 0 \in 0 .. 5 /\ 0 \in 0 .. 6
    OBVIOUS
  <2> QED BY ONLY <2>5, <2>6 DEF Progress
<1>4. ResultsInv
  <2>1. Len(bursts) = 0 /\ searched = 0
    BY DEF RoundInit
  <2>2. \A c \in Correlators : counted[c] = 0 /\ Len(peaks[c]) = 0
    BY DEF RoundInit
  <2> QED BY <2>1, <2>2 DEF ResultsInv
<1>5. PhaseInv
  BY <1>2, TransceiverAssumption DEF RoundInit, PhaseInv
<1>6. AnswerInv /\ AbortInv
  BY <1>2 DEF AnswerInv, AbortInv
<1> QED BY <1>1, <1>3, <1>4, <1>5, <1>6 DEF RoundInv, CourseInv

LEMMA RoundStep == ASSUME MainIsPrompt PROVE RoundInv /\ [RoundNext]_roundVars => RoundInv'
BY SimStep, FrameInvStep, ProgressStep, ResultsStep, PhaseStep, AnswerStep, AbortStep
   DEF RoundInv, CourseInv

LEMMA RoundInvariant ==
    ASSUME UninitStates = {"IDLE"}, MainIsPrompt PROVE RoundSpec => []RoundInv
BY RoundStarts, RoundStep, PTL DEF RoundSpec

-----------------------------------------------------------------------------
\* The ACK is on its way only when the RN16 has been received.
LEMMA AckAnswers == ASSUME RoundInv PROVE AckAnswersTheTag
<1> PICK q \in 0 .. 13, te \in 0 .. 7, s \in 0 .. 5, r \in 0 .. 5, tg \in 0 .. 6 :
        RoundAt(q, te, s, r, tg)
  BY DEF RoundInv, CourseInv, Progress
<1> SUFFICES ASSUME NEW p \in Packets \cup {Garbled},
                    \/ OnTheWay(TxTask("DATA_BITS", 0, p))
                    \/ e_frame = p
                    \/ \E i \in DOMAIN air : air[i].data = p
             PROVE  bursts # << >> /\ p = bursts[1].reply
  BY DEF AckAnswersTheTag
<1>1. p \notin {NoData, "query", "delimiter"}
  BY PacketsAssumption, TransceiverAssumption DEF NoData, Garbled
<1>2. /\ encoder_queue \in Seq(EncoderTasks) /\ body["framer"] \in Seq(EncoderTasks \cup GateTasks)
      /\ air \in Seq(Marks) /\ bursts \in Seq(Windows)
  BY DEF RoundInv, SimInv, RoundTypes, QueueTypes, FrontTypes, Callers
<1>3. Len(encoder_queue) \in Nat /\ Len(body["framer"]) \in Nat /\ Len(air) \in Nat
  BY <1>2
<1>4. EncoderShare(q) \in 0 .. 7 /\ Len(encoder_queue) = EncoderShare(q) - te
  BY ShareBounds DEF RoundAt, EncoderQueueAt
<1>5. SUFFICES d_mac_state = "MS_EPC" /\ p = tag_rn16
  <2>1. ASSUME d_mac_state = "MS_EPC" PROVE bursts # << >>
    <3>1. searched # 0
      BY <2>1 DEF RoundInv, CourseInv, PhaseInv
    <3>2. searched <= Len(bursts) /\ searched \in Nat
      BY SearchedBursts DEF RoundInv, SimInv, RoundTypes, SearchTypes
    <3> QED BY <3>1, <3>2
  <2> QED BY <2>1, WindowsNeedMessages
<1>6. q >= 9 => d_mac_state = "MS_EPC"
  <2>1. Len(body["main"]) \in Nat
    BY DEF RoundInv, SimInv, RoundTypes, QueueTypes, Callers
  <2> QED BY <2>1 DEF RoundAt, BodyAt
<1>7. EncoderShare(q) >= 6 => q >= 9
  BY DEF EncoderShare
<1>8. te >= 6 => d_mac_state = "MS_EPC"
  BY <1>3, <1>4, <1>6, <1>7
<1>9. ASSUME NEW i \in DOMAIN encoder_queue, encoder_queue[i] = TxTask("DATA_BITS", 0, p)
      PROVE  d_mac_state = "MS_EPC" /\ p = tag_rn16
  <2>1. i \in 1 .. Len(encoder_queue) /\ te + i \in 1 .. 7 /\ te + i <= EncoderShare(q)
    <3>1. DOMAIN encoder_queue = 1 .. Len(encoder_queue)
      BY <1>2
    <3>2. PICK n \in Nat : n = Len(encoder_queue)
      BY <1>3
    <3>3. i \in 1 .. n /\ n = EncoderShare(q) - te
      BY <1>4, <3>1, <3>2
    <3>4. te + i \in 1 .. 7 /\ te + i <= EncoderShare(q)
      <4>1. PICK e \in 0 .. 7 : e = EncoderShare(q)
        BY <1>4
      <4>2. te + i \in 1 .. 7 /\ te + i <= e
        BY <3>3, <4>1
      <4> QED BY <4>1, <4>2
    <3> QED BY <3>2, <3>3, <3>4
  <2>2. EncoderRound(tag_rn16)[te + i] = TxTask("DATA_BITS", 0, p)
    BY <1>9, <2>1 DEF RoundAt, EncoderQueueAt
  <2>3. EncoderRound(tag_rn16)[te + i].cmd = "DATA_BITS" /\ EncoderRound(tag_rn16)[te + i].data = p
    BY <2>2 DEF TxTask
  <2>4. PICK k \in {1, 2, 3, 4, 5, 6, 7} : k = te + i
    BY <2>1
  <2>5. k = 6 /\ p = tag_rn16
    BY <1>1, <2>3, <2>4, TaskKinds
  <2> QED BY <1>4, <1>6, <1>7, <2>1, <2>4, <2>5
<1>10. ASSUME NEW i \in DOMAIN body["framer"], body["framer"][i] = TxTask("DATA_BITS", 0, p)
       PROVE  d_mac_state = "MS_EPC" /\ p = tag_rn16
  <2>1. i \in 1 .. Len(body["framer"])
    BY <1>2
  <2>2. "framer" \in inside
    <3>1. Len(body["framer"]) # 0
      BY <1>3, <2>1
    <3> QED BY <3>1 DEF RoundAt, BodyAt, Callers
  <2>3. d_mac_state = "MS_EPC" /\ q >= 7 /\ Len(body["framer"]) = 13 - q
    BY <2>2 DEF RoundAt, BodyAt
  <2>4. PICK k \in {8, 9, 10, 11, 12, 13} : k = q + i
    <3>1. q + i \in 8 .. 13
      BY <2>1, <2>3
    <3> QED BY <3>1
  <2>5. RoundTasks(tag_rn16)[k] = TxTask("DATA_BITS", 0, p)
    BY <1>10, <2>1, <2>4 DEF RoundAt, BodyAt, Callers
  <2>6. RoundTasks(tag_rn16)[k].cmd = "DATA_BITS" /\ RoundTasks(tag_rn16)[k].data = p
    BY <2>5 DEF TxTask
  <2>7. k = 9
    <3>1. k \in {8, 9, 10, 11, 12, 13}
      OBVIOUS
    <3> QED BY ONLY <2>6, <3>1, RoundTaskList
  <2>8. RoundTasks(tag_rn16)[9].data = tag_rn16
    BY RoundTaskList
  <2> QED BY <2>3, <2>6, <2>7, <2>8, Zenon
<1>11. CASE e_frame = p
  BY <1>1, <1>8, <1>11 DEF RoundAt, EncoderAt
<1>12. ASSUME NEW i \in DOMAIN air, air[i].data = p
       PROVE  d_mac_state = "MS_EPC" /\ p = tag_rn16
  <2>1. i \in 1 .. Len(air) /\ Len(air) = s - r /\ IsMark(air[i], r + i, tag_rn16)
    <3>1. DOMAIN air = 1 .. Len(air)
      BY <1>2
    <3> QED BY <3>1 DEF RoundAt, AirAt
  <2>2. r + i \in 1 .. s
    BY <1>3, <2>1
  <2>3. PICK k \in {1, 2, 3, 4, 5} : k = r + i
    BY <2>2
  <2>4. k = 5 /\ p = tag_rn16
    BY <1>1, <1>12, <2>1, <2>3 DEF IsMark
  <2>5. te >= 6
    BY <2>2, <2>3, <2>4 DEF RoundAt, EncoderAt
  <2> QED BY <1>8, <2>4, <2>5
<1> QED BY <1>9, <1>10, <1>11, <1>12 DEF OnTheWay

\* A mark with an answer is one that ends a command, and the gate reads those
\* in WAIT.
LEMMA AnswerIsAwaited ==
    ASSUME RoundInv, [RoundNext]_roundVars, Len(air') < Len(air), Head(air).reply # Noise
    PROVE  g_state = "WAIT"
<1> PICK q \in 0 .. 13, te \in 0 .. 7, s \in 0 .. 5, r \in 0 .. 5, tg \in 0 .. 6 :
        RoundAt(q, te, s, r, tg)
  BY DEF RoundInv, CourseInv, Progress
<1>1. air \in Seq(Marks) /\ Len(air) \in Nat
  BY DEF RoundInv, SimInv, RoundTypes, FrontTypes
<1>2. air' # air /\ ~(\E m : air' = Append(air, m))
  <2>1. \A m : Len(Append(air, m)) = Len(air) + 1
    BY <1>1
  <2> QED BY <1>1, <2>1
<1>3. air' = air \/ (\E m : air' = Append(air, m)) \/ GateListens
  BY DEF RoundNext, roundVars, Main, Command, Encoder, EncoderTask, EncoderSends, Gate, GateCommand,
         PeakCount, PickPeak, MuxStep, RoundTimingLoop, RoundDecoder, RoundFramer, front
<1>4. GateListens
  BY <1>2, <1>3
<1>5. /\ air # << >> /\ air' = Tail(air)
      /\ \/ g_state = "TXOFF" /\ ~g_carrier
         \/ g_state = "TXON_MUTE"
         \/ g_state = "WAIT"
  BY <1>2, <1>4 DEF GateListens
<1>6. r < s /\ IsMark(Head(air), r + 1, tag_rn16)
  <2>1. 1 \in 1 .. Len(air) /\ Head(air) = air[1] /\ Len(air) > 0
    BY <1>1, <1>5, TailFacts
  <2> QED BY <2>1 DEF RoundAt, AirAt
<1>7. r \in {2, 4}
  <2>1. r \in {0, 1, 2, 3, 4}
    BY <1>6
  <2> QED BY <1>6, <2>1 DEF IsMark
<1> QED BY <1>5, <1>7 DEF RoundAt, GateAt

-----------------------------------------------------------------------------
(***************************************************************************)
(* The reader acknowledges the RN16 its gate let through for the query:    *)
(* for every number of correlators, every queue and buffer, and every set  *)
(* of payloads.                                                            *)
(***************************************************************************)
THEOREM RoundAcknowledges ==
    ASSUME UninitStates = {"IDLE"}, MainIsPrompt PROVE RoundSpec => []AckAnswersTheTag
<1>1. RoundInv => AckAnswersTheTag
  BY AckAnswers
<1> QED BY <1>1, RoundInvariant, PTL

(***************************************************************************)
(* The first window has the length for an RN16 and is open for the answer  *)
(* to the query, the second the length for an EPC, and there is no third.  *)
(***************************************************************************)
THEOREM RoundWindows ==
    ASSUME UninitStates = {"IDLE"}, MainIsPrompt PROVE RoundSpec => []WindowsMatchCommands
<1>1. RoundInv => WindowsMatchCommands
  <2> SUFFICES ASSUME RoundInv PROVE WindowsMatchCommands
    OBVIOUS
  <2>1. bursts \in Seq(Windows) /\ Len(bursts) \in Nat /\ DOMAIN bursts = 1 .. Len(bursts)
    BY DEF RoundInv, SimInv, RoundTypes, FrontTypes
  <2>2. PICK n \in Nat : n = Len(bursts)
    BY <2>1
  <2>3. n <= 2 /\ (bursts # << >> => bursts[1] = [len |-> 800, reply |-> tag_rn16])
        /\ (n = 2 => bursts[2].len = 2800)
    BY <2>2, WindowsNeedMessages
  <2>4. ASSUME NEW i \in DOMAIN bursts PROVE bursts[i].len = <<800, 2800>>[i]
    <3>1. i \in 1 .. n /\ bursts # << >>
      BY <2>1, <2>2
    <3>2. i = 1 \/ (i = 2 /\ n = 2)
      BY <2>2, <2>3, <3>1
    <3> QED BY <2>3, <3>1, <3>2
  <2> QED BY <2>2, <2>3, <2>4 DEF WindowsMatchCommands
<1> QED BY <1>1, RoundInvariant, PTL

(***************************************************************************)
(* No answer goes by while the gate is not waiting for it, although the    *)
(* encoder may be ahead of the gate by a whole command.                    *)
(***************************************************************************)
THEOREM RoundHearsTheTag ==
    ASSUME UninitStates = {"IDLE"}, MainIsPrompt PROVE RoundSpec => NoAnswerMissed
<1>1. RoundInv /\ [RoundNext]_roundVars =>
          [(Len(air') < Len(air) /\ Head(air).reply # Noise) => g_state = "WAIT"]_roundVars
  BY AnswerIsAwaited
<1> QED BY <1>1, RoundInvariant, PTL DEF RoundSpec, NoAnswerMissed

(***************************************************************************)
(* With the one call of snd_query in main(), the only assertion that can   *)
(* fail is the one of preamble_search, and only while decoded_message has  *)
(* not returned from queueing the ACK and is slower than the radio.        *)
(***************************************************************************)
THEOREM RoundRaces ==
    ASSUME UninitStates = {"IDLE"}, MainIsPrompt, MaxCommands <= 1
    PROVE  RoundSpec => []OnlyTheAckRaces
<1>1. RoundInv => OnlyTheAckRaces
  BY TransceiverAssumption DEF RoundInv, CourseInv, AbortInv, OnlyTheAckRaces
<1> QED BY <1>1, RoundInvariant, PTL

-----------------------------------------------------------------------------
(***************************************************************************)
(* The mux of the round: where it reads the input of the correlator that   *)
(* wins the searches, and what is queued for it.  The other inputs may     *)
(* fall behind (a FLUSH that finds its input on a tag reads nothing), the  *)
(* winner's does not, as its DELETE takes it past the tag.                 *)
(***************************************************************************)
IsDelete(i) == mux_queue[i].cmd = "MUX_DELETE"

IsFlush(i, c) == mux_queue[i].cmd = "MUX_FLUSH" /\ mux_queue[i].in_sel = c

NoDelete == \A i \in DOMAIN mux_queue : ~IsDelete(i)

\* Command i deletes from input c, and no other command deletes.
OnlyDelete(i, c) ==
    /\ i \in DOMAIN mux_queue
    /\ IsDelete(i) /\ mux_queue[i].in_sel = c
    /\ \A j \in DOMAIN mux_queue : IsDelete(j) => j = i

\* Input c is at the tag of the second burst, or a command before i takes it there.
ReachesSecond(i, c) ==
    \/ mux_at[c] = 3
    \/ mux_at[c] = 2 /\ \E j \in DOMAIN mux_queue : j < i /\ IsFlush(j, c)

(***************************************************************************)
(* The frame of search 1 still to be copied, or copied; then search 2 has  *)
(* found none, or has copied it, or has it still to be copied.             *)
(***************************************************************************)
CopyAt(w) ==
    \/ /\ searched = 1
       /\ mux_at[w] = 1
       /\ \E i \in DOMAIN mux_queue :
             /\ OnlyDelete(i, w)
             /\ \E j \in DOMAIN mux_queue : i < j /\ IsFlush(j, w)
             /\ \E j \in DOMAIN mux_queue : i < j /\ IsTag(j)
    \/ searched = 1 /\ NoDelete /\ ReachesSecond(Len(mux_queue) + 1, w)
    \/ searched = 2 /\ NoDelete
    \/ searched = 2 /\ \E i \in DOMAIN mux_queue : OnlyDelete(i, w) /\ ReachesSecond(i, w)

CopyInv ==
    /\ searched = 0 => winners = {}
    /\ winners = {} =>
          /\ d_state \in {"READY_DOWNLINK", "PREAMBLE_DET"} /\ d_mac_state # "MS_EPC"
          /\ NoDelete
          /\ \A c \in Correlators : mux_at[c] = 1
    /\ \A w \in Correlators : winners = {w} => CopyAt(w)

-----------------------------------------------------------------------------
LEMMA CopyKept ==
    ASSUME CopyInv, UNCHANGED search,
           \/ UNCHANGED <<d_state, d_mac_state>>
           \/ d_state \notin {"READY_DOWNLINK", "PREAMBLE_DET"}
           \/ d_state' \in {"READY_DOWNLINK", "PREAMBLE_DET"} /\ (d_mac_state' # "MS_EPC" \/ UNCHANGED d_mac_state)
    PROVE  CopyInv'
<1>1. UNCHANGED <<searched, winners, mux_queue, mux_at>>
  BY DEF search
<1>2. NoDelete => NoDelete'
  BY <1>1 DEF NoDelete, IsDelete
<1>3. ASSUME NEW w PROVE CopyAt(w) => CopyAt(w)'
  BY <1>1 DEF CopyAt, NoDelete, OnlyDelete, ReachesSecond, IsDelete, IsFlush, IsTag
<1> QED BY <1>1, <1>2, <1>3 DEF CopyInv

\* Everything but the mux and pick_peak leaves the copying alone.
LEMMA OthersKeepCopy ==
    ASSUME RoundInv, CopyInv, [RoundNext]_roundVars PROVE CopyInv' \/ MuxStep \/ PickPeak
<1>1. ASSUME NEW t \in Callers, MacStep(t), UNCHANGED search PROVE CopyInv'
  BY <1>1, CopyKept DEF MacStep, queue_msg, Return
<1>2. CASE Command
  <2>1. \/ UNCHANGED <<d_state, d_mac_state>>
        \/ d_state' = "PREAMBLE_DET" /\ d_mac_state' = "MS_RN16"
    BY <1>2 DEF Command, Issue, issue_downlink_command, Abort
  <2> QED BY <1>2, <2>1, CopyKept DEF Command
<1>3. CASE RoundTimingLoop
  <2>1. UNCHANGED <<d_state, d_mac_state>> \/ d_state = "SYMBOL_DET"
    BY <1>3 DEF RoundTimingLoop, SymbolSynch, symbol_synch, symbol_synch_asserts, Abort, EmitSymbols, mac
  <2> QED BY <1>3, <2>1, CopyKept DEF RoundTimingLoop
<1>4. CASE FramerIdle /\ UNCHANGED search
  <2>1. UNCHANGED <<d_state, d_mac_state>> \/ d_state = "BIT_DECODE"
    BY <1>4 DEF FramerIdle, bit_decode, bit_decode_asserts, Abort
  <2> QED BY <1>4, <2>1, CopyKept
<1>5. ASSUME NEW t \in 0 .. BitBufLimit, FramerOffset(t), UNCHANGED search PROVE CopyInv'
  BY <1>5, CopyKept DEF FramerOffset, mac
<1>6. ASSUME NEW t \in 0 .. BitBufLimit, FramerGetFrame(t), UNCHANGED search PROVE CopyInv'
  <2>1. UNCHANGED mac \/ decoded_message(Packet)
    BY <1>6, Zenon DEF FramerGetFrame
  <2>2. UNCHANGED <<d_state, d_mac_state>> \/ d_state = "WAIT_FOR_DECODE"
    BY <2>1 DEF decoded_message, Abort, mac
  <2> QED BY <1>6, <2>2, CopyKept
<1>7. ASSUME NEW c \in Correlators, PeakCount(c) PROVE CopyInv'
  <2>1. UNCHANGED <<d_state, d_mac_state, searched, winners, mux_queue, mux_at>>
    BY <1>7 DEF PeakCount, vars, mac
  <2>2. NoDelete => NoDelete'
    BY <2>1 DEF NoDelete, IsDelete
  <2>3. ASSUME NEW w PROVE CopyAt(w) => CopyAt(w)'
    BY <2>1 DEF CopyAt, NoDelete, OnlyDelete, ReachesSecond, IsDelete, IsFlush, IsTag
  <2> QED BY <2>1, <2>2, <2>3 DEF CopyInv
<1>8. CASE Encoder \/ Gate \/ RoundDecoder \/ UNCHANGED roundVars
  BY <1>8, CopyKept DEF Encoder, EncoderTask, EncoderTakes, EncoderSends, Gate, GateListens, GateCommand,
     GateTakes, RoundDecoder, Decoder, OrthogonalDecode, roundVars, vars, mac
<1>9. CASE Main
  BY <1>1, <1>2, <1>9 DEF Main, Callers
<1>10. CASE RoundFramer
  BY <1>1, <1>4, <1>5, <1>6, <1>10 DEF RoundFramer, Framer, Callers
<1> QED BY <1>3, <1>7, <1>8, <1>9, <1>10 DEF RoundNext

-----------------------------------------------------------------------------
\* What one command of the mux does to an input.
LEMMA MuxMoves ==
    ASSUME RoundInv, MuxStep, NEW c \in Correlators
    PROVE  /\ mux_queue # << >> /\ mux_queue' = Tail(mux_queue)
           /\ DOMAIN mux_queue = 1 .. Len(mux_queue) /\ Len(mux_queue) \in Nat
           /\ DOMAIN mux_queue' = 1 .. Len(mux_queue) - 1 /\ Len(mux_queue') = Len(mux_queue) - 1
           /\ 1 \in DOMAIN mux_queue
           /\ \A i \in DOMAIN mux_queue' : i + 1 \in DOMAIN mux_queue /\ mux_queue'[i] = mux_queue[i + 1]
           /\ \A i \in DOMAIN mux_queue : i > 1 => i - 1 \in DOMAIN mux_queue' /\ mux_queue'[i - 1] = mux_queue[i]
           /\ mux_at'[c] = mux_at[c] \/ IsDelete(1) \/ IsFlush(1, c)
           /\ IsDelete(1) /\ mux_queue[1].in_sel = c /\ mux_at[c] = 1 => mux_at'[c] = 2
           /\ IsDelete(1) /\ mux_queue[1].in_sel # c => mux_at'[c] = mux_at[c]
           /\ IsFlush(1, c) =>
                 /\ mux_at[c] \in {1, 3} => mux_at'[c] = mux_at[c]
                 /\ mux_at[c] = 2 => mux_at'[c] = 3
<1>1. /\ mux_queue \in Seq(MuxCommands) /\ mux_queue # << >> /\ mux_queue' = Tail(mux_queue)
      /\ mux_at \in [Correlators -> Nat \ {0}]
  BY DEF MuxStep, RoundInv, SimInv, RoundTypes, SearchTypes
<1>2. /\ Head(mux_queue) = mux_queue[1] /\ Len(mux_queue) > 0 /\ Len(mux_queue) \in Nat
      /\ Tail(mux_queue) \in Seq(MuxCommands) /\ Len(Tail(mux_queue)) = Len(mux_queue) - 1
      /\ \A i \in 1 .. Len(mux_queue) - 1 : Tail(mux_queue)[i] = mux_queue[i + 1]
      /\ Head(mux_queue) \in MuxCommands
  BY <1>1, TailFacts
<1>3. /\ DOMAIN mux_queue = 1 .. Len(mux_queue)
      /\ DOMAIN mux_queue' = 1 .. Len(mux_queue) - 1 /\ Len(mux_queue') = Len(mux_queue) - 1
      /\ 1 \in DOMAIN mux_queue
  <2>1. DOMAIN mux_queue = 1 .. Len(mux_queue) /\ DOMAIN mux_queue' = 1 .. Len(mux_queue')
    BY <1>1, <1>2
  <2> QED BY <1>1, <1>2, <2>1
<1>4. \A i \in DOMAIN mux_queue' : i + 1 \in DOMAIN mux_queue /\ mux_queue'[i] = mux_queue[i + 1]
  <2>1. \A i \in 1 .. Len(mux_queue) - 1 : i + 1 \in 1 .. Len(mux_queue)
    BY <1>2
  <2> QED BY <1>1, <1>2, <1>3, <2>1
<1>5. ASSUME NEW i \in DOMAIN mux_queue, i > 1
      PROVE  i - 1 \in DOMAIN mux_queue' /\ mux_queue'[i - 1] = mux_queue[i]
  <2>1. i - 1 \in 1 .. Len(mux_queue) - 1 /\ (i - 1) + 1 = i
    BY <1>2, <1>3, <1>5
  <2> QED BY <1>3, <1>4, <2>1
<1> DEFINE d == mux_queue[1].in_sel
           cmd == mux_queue[1].cmd
<1>6. d \in Correlators
  BY <1>2 DEF MuxCommands
<1>7. /\ cmd = "MUX_DELETE" => mux_at' = [mux_at EXCEPT ![d] = 2 * BurstAt(d)]
      /\ cmd \in {"MUX_COPY", "MUX_TAG"} => mux_at' = mux_at
      /\ cmd = "MUX_FLUSH" =>
            \/ AtTag(d) /\ mux_at' = mux_at
            \/ ~AtTag(d) /\ mux_at' = [mux_at EXCEPT ![d] = mux_at[d] + 1]
      /\ cmd \in {"MUX_DELETE", "MUX_COPY", "MUX_TAG", "MUX_FLUSH"}
  BY <1>2 DEF MuxStep, MuxCommands
<1>8. mux_at[c] = 1 => BurstAt(c) = 1
  BY DEF BurstAt
<1>9. (mux_at[c] \in {1, 3} => AtTag(c)) /\ (mux_at[c] = 2 => ~AtTag(c))
  BY DEF AtTag
<1>10. mux_at'[c] = mux_at[c] \/ d = c
  BY <1>1, <1>6, <1>7
<1>11. mux_at'[c] = mux_at[c] \/ IsDelete(1) \/ IsFlush(1, c)
  BY <1>7, <1>10 DEF IsDelete, IsFlush
<1>12. IsDelete(1) /\ d = c /\ mux_at[c] = 1 => mux_at'[c] = 2
  BY <1>1, <1>7, <1>8 DEF IsDelete
<1>13. IsFlush(1, c) => /\ mux_at[c] \in {1, 3} => mux_at'[c] = mux_at[c]
                        /\ mux_at[c] = 2 => mux_at'[c] = 3
  BY <1>1, <1>7, <1>9 DEF IsFlush
<1> QED BY <1>1, <1>2, <1>3, <1>4, <1>5, <1>10, <1>11, <1>12, <1>13

\* The command done is gone; where the winner's input is read, or the FLUSH
\* that takes it to the next tag, stays.
LEMMA ReachesKept ==
    ASSUME RoundInv, MuxStep, NEW w \in Correlators, NEW i \in Int, ReachesSecond(i, w), ~IsDelete(1)
    PROVE  ReachesSecond(i - 1, w)'
<1>1. CASE mux_at[w] = 3
  BY <1>1, MuxMoves DEF ReachesSecond
<1>2. CASE mux_at[w] = 2 /\ IsFlush(1, w)
  BY <1>2, MuxMoves DEF ReachesSecond
<1>3. ASSUME mux_at[w] = 2, ~IsFlush(1, w), NEW j \in DOMAIN mux_queue, j < i, IsFlush(j, w)
      PROVE  ReachesSecond(i - 1, w)'
  <2>1. mux_at'[w] = 2
    BY <1>3, MuxMoves
  <2>2. j \in Int /\ j > 1
    <3>1. j \in 1 .. Len(mux_queue) /\ j # 1 /\ Len(mux_queue) \in Nat
      BY <1>3, MuxMoves
    <3> QED BY <3>1
  <2>3. j - 1 \in DOMAIN mux_queue' /\ mux_queue'[j - 1] = mux_queue[j] /\ j - 1 < i - 1
    BY <1>3, <2>2, MuxMoves
  <2> QED BY <1>3, <2>1, <2>3 DEF ReachesSecond, IsFlush
<1> QED BY <1>1, <1>2, <1>3 DEF ReachesSecond

LEMMA MuxKeepsCopy == ASSUME RoundInv, CopyInv, MuxStep PROVE CopyInv'
<1>1. UNCHANGED <<d_state, d_mac_state, searched, winners>>
  BY DEF MuxStep, mac
<1>2. searched' = 0 => winners' = {}
  BY <1>1 DEF CopyInv
<1>3. NoDelete => NoDelete'
  <2>1. \A i \in DOMAIN mux_queue' : i + 1 \in DOMAIN mux_queue /\ mux_queue'[i] = mux_queue[i + 1]
    BY TransceiverAssumption, MuxMoves
  <2> QED BY <2>1 DEF NoDelete, IsDelete
<1>4. ASSUME winners = {}, NEW c \in Correlators PROVE mux_at'[c] = 1
  <2>1. mux_at[c] = 1 /\ NoDelete
    BY <1>4 DEF CopyInv
  <2>2. 1 \in DOMAIN mux_queue
    BY MuxMoves
  <2>3. ~IsDelete(1)
    BY <2>1, <2>2 DEF NoDelete
  <2> QED BY <2>1, <2>3, MuxMoves
<1>5. ASSUME NEW w \in Correlators, winners = {w} PROVE CopyAt(w)'
  <2>1. CopyAt(w)
    BY <1>5 DEF CopyInv
  <2>2. ASSUME NEW i \in DOMAIN mux_queue, OnlyDelete(i, w), i > 1
        PROVE  i - 1 \in DOMAIN mux_queue' /\ OnlyDelete(i - 1, w)' /\ ~IsDelete(1)
    <3>1. i - 1 \in DOMAIN mux_queue' /\ mux_queue'[i - 1] = mux_queue[i]
      BY <2>2, MuxMoves
    <3>2. ASSUME NEW j \in DOMAIN mux_queue', mux_queue'[j].cmd = "MUX_DELETE" PROVE j = i - 1
      <4>1. j + 1 \in DOMAIN mux_queue /\ mux_queue'[j] = mux_queue[j + 1] /\ j \in Int /\ i \in Int
        BY <2>2, MuxMoves, SMTT(60)
      <4>2. j + 1 = i
        BY <2>2, <3>2, <4>1 DEF OnlyDelete, IsDelete
      <4> QED BY <4>1, <4>2
    <3>3. ~IsDelete(1)
      BY <2>2, MuxMoves DEF OnlyDelete
    <3> QED BY <2>2, <3>1, <3>2, <3>3 DEF OnlyDelete, IsDelete
  <2>3. ASSUME OnlyDelete(1, w) PROVE NoDelete'
    <3>1. ASSUME NEW j \in DOMAIN mux_queue' PROVE mux_queue'[j].cmd # "MUX_DELETE"
      <4>1. j + 1 \in DOMAIN mux_queue /\ mux_queue'[j] = mux_queue[j + 1] /\ j \in Nat /\ j >= 1
        BY MuxMoves
      <4>2. j + 1 # 1
        BY <4>1
      <4> QED BY <2>3, <4>1, <4>2 DEF OnlyDelete, IsDelete
    <3> QED BY <3>1 DEF NoDelete, IsDelete
  <2>4. ASSUME NEW i \in DOMAIN mux_queue PROVE i \in Int /\ (i = 1 \/ i > 1)
    <3>1. i \in 1 .. Len(mux_queue) /\ Len(mux_queue) \in Nat
      BY <2>4, MuxMoves
    <3> QED BY <3>1
  <2>5. ASSUME searched = 1, mux_at[w] = 1, NEW i \in DOMAIN mux_queue, OnlyDelete(i, w),
               NEW j \in DOMAIN mux_queue, i < j, IsFlush(j, w),
               NEW k \in DOMAIN mux_queue, i < k, IsTag(k)
        PROVE  CopyAt(w)'
    <3>1. i \in Int /\ j \in Int /\ k \in Int /\ j > 1 /\ k > 1
      BY <2>4, <2>5
    <3>2. /\ j - 1 \in DOMAIN mux_queue' /\ mux_queue'[j - 1] = mux_queue[j]
          /\ k - 1 \in DOMAIN mux_queue' /\ mux_queue'[k - 1] = mux_queue[k]
      BY <3>1, <2>5, MuxMoves
    <3>3. IsFlush(j - 1, w)' /\ IsTag(k - 1)'
      BY <2>5, <3>2 DEF IsFlush, IsTag
    <3>4. CASE i = 1
      <4>1. mux_at'[w] = 2 /\ NoDelete'
        BY <2>3, <2>5, <3>4, MuxMoves DEF OnlyDelete
      <4>2. j - 1 < Len(mux_queue') + 1
        <5>1. j \in 1 .. Len(mux_queue) /\ Len(mux_queue) \in Nat /\ Len(mux_queue') = Len(mux_queue) - 1
          BY <2>5, MuxMoves
        <5> QED BY <5>1
      <4>3. ReachesSecond(Len(mux_queue) + 1, w)'
        BY <3>2, <3>3, <4>1, <4>2 DEF ReachesSecond
      <4> QED BY <1>1, <2>5, <4>1, <4>3 DEF CopyAt
    <3>5. CASE i > 1
      <4>1. i - 1 \in DOMAIN mux_queue' /\ OnlyDelete(i - 1, w)' /\ ~IsDelete(1)
        BY <2>2, <2>5, <3>5
      <4>2. mux_at'[w] = 1
        BY <2>5, <4>1, MuxMoves
      <4>3. i - 1 < j - 1 /\ i - 1 < k - 1
        BY <2>5, <3>1
      <4> QED BY <1>1, <2>5, <3>2, <3>3, <4>1, <4>2, <4>3 DEF CopyAt
    <3> QED BY <2>4, <3>4, <3>5
  <2>6. CASE searched = 1 /\ NoDelete /\ ReachesSecond(Len(mux_queue) + 1, w)
    <3>1. PICK n \in Nat : n = Len(mux_queue)
      BY MuxMoves
    <3>2. ~IsDelete(1) /\ n + 1 \in Int /\ Len(mux_queue') = n - 1
      BY <2>6, <3>1, MuxMoves DEF NoDelete
    <3>3. ReachesSecond((n + 1) - 1, w)'
      BY <2>6, <3>1, <3>2, ReachesKept
    <3>4. (n + 1) - 1 = Len(mux_queue') + 1
      BY <3>2
    <3>5. ReachesSecond(Len(mux_queue) + 1, w)'
      BY <3>3, <3>4
    <3> QED BY <1>1, <1>3, <2>6, <3>5 DEF CopyAt
  <2>7. CASE searched = 2 /\ NoDelete
    BY <1>1, <1>3, <2>7 DEF CopyAt
  <2>8. ASSUME searched = 2, NEW i \in DOMAIN mux_queue, OnlyDelete(i, w), ReachesSecond(i, w)
        PROVE  CopyAt(w)'
    <3>1. CASE i = 1
      BY <1>1, <2>3, <2>8, <3>1 DEF CopyAt
    <3>2. CASE i > 1
      <4>1. i - 1 \in DOMAIN mux_queue' /\ OnlyDelete(i - 1, w)' /\ ~IsDelete(1) /\ i \in Int
        BY <2>2, <2>4, <2>8, <3>2
      <4>2. ReachesSecond(i - 1, w)'
        BY <2>8, <4>1, ReachesKept
      <4> QED BY <1>1, <2>8, <4>1, <4>2 DEF CopyAt
    <3> QED BY <2>4, <3>1, <3>2
  <2> QED BY <2>1, <2>5, <2>6, <2>7, <2>8 DEF CopyAt
<1>6. winners = {} => NoDelete'
  BY <1>3 DEF CopyInv
<1> QED BY <1>1, <1>2, <1>4, <1>5, <1>6 DEF CopyInv

-----------------------------------------------------------------------------
\* What the concatenation of three sequences returns.
LEMMA ThreeParts ==
    ASSUME NEW S, NEW s \in Seq(S), NEW t \in Seq(S), NEW u \in Seq(S)
    PROVE  /\ DOMAIN (s \o t \o u) = 1 .. Len(s) + Len(t) + Len(u)
           /\ \A i \in 1 .. Len(s) : (s \o t \o u)[i] = s[i]
           /\ \A i \in 1 .. Len(t) : (s \o t \o u)[Len(s) + i] = t[i]
           /\ \A i \in 1 .. Len(u) : (s \o t \o u)[Len(s) + Len(t) + i] = u[i]
<1> DEFINE p == s \o t
<1>1. p \in Seq(S) /\ Len(p) = Len(s) + Len(t)
  BY ConcatFacts
<1>2. (\A i \in 1 .. Len(s) : p[i] = s[i]) /\ (\A i \in 1 .. Len(t) : p[Len(s) + i] = t[i])
  BY ConcatFacts
<1>3. Len(s) \in Nat /\ Len(t) \in Nat
  OBVIOUS
<1> HIDE DEF p
<1>4. DOMAIN (p \o u) = 1 .. Len(p) + Len(u)
  BY <1>1, ConcatFacts
<1>5. (\A i \in 1 .. Len(p) : (p \o u)[i] = p[i]) /\ (\A i \in 1 .. Len(u) : (p \o u)[Len(p) + i] = u[i])
  BY <1>1, ConcatFacts
<1>6. \A i \in 1 .. Len(s) : i \in 1 .. Len(p)
  BY <1>1, <1>3
<1>7. \A i \in 1 .. Len(t) : Len(s) + i \in 1 .. Len(p)
  BY <1>1, <1>3
<1>8. /\ DOMAIN (p \o u) = 1 .. Len(s) + Len(t) + Len(u)
      /\ \A i \in 1 .. Len(s) : (p \o u)[i] = s[i]
      /\ \A i \in 1 .. Len(t) : (p \o u)[Len(s) + i] = t[i]
      /\ \A i \in 1 .. Len(u) : (p \o u)[Len(s) + Len(t) + i] = u[i]
  BY <1>1, <1>2, <1>4, <1>5, <1>6, <1>7
<1> QED BY <1>8 DEF p

\* What a search adds to the commands of the mux.
LEMMA AddedCommands ==
    ASSUME mux_queue \in Seq(MuxCommands), NEW c \in Correlators, NEW n \in Nat, n = Len(mux_queue),
           NEW k \in Nat, k = Len(FlushAll), mux_queue' = mux_queue \o CopyOut(c) \o FlushAll
    PROVE  /\ DOMAIN mux_queue' = 1 .. n + 4 + k
           /\ \A i \in 1 .. n : mux_queue'[i] = mux_queue[i]
           /\ \A i \in 1 .. 4 : mux_queue'[n + i] = CopyOut(c)[i]
           /\ \A i \in 1 .. k : mux_queue'[n + 4 + i] = FlushAll[i]
<1>1. FlushAll \in Seq(MuxCommands) /\ CopyOut(c) \in Seq(MuxCommands)
  BY MuxCommandsType
<1>2. Len(CopyOut(c)) = 4
  BY DEF CopyOut
<1> DEFINE a == mux_queue
           b == CopyOut(c)
           d == FlushAll
<1>3. a \in Seq(MuxCommands) /\ b \in Seq(MuxCommands) /\ d \in Seq(MuxCommands)
  BY <1>1
<1>4. Len(a) = n /\ Len(b) = 4 /\ Len(d) = k /\ mux_queue' = a \o b \o d
  BY <1>2
<1> HIDE DEF a, b, d
<1>5. /\ DOMAIN (a \o b \o d) = 1 .. Len(a) + Len(b) + Len(d)
      /\ \A i \in 1 .. Len(a) : (a \o b \o d)[i] = a[i]
      /\ \A i \in 1 .. Len(b) : (a \o b \o d)[Len(a) + i] = b[i]
      /\ \A i \in 1 .. Len(d) : (a \o b \o d)[Len(a) + Len(b) + i] = d[i]
  BY <1>3, ThreeParts, SMTT(60)
<1>6. /\ DOMAIN mux_queue' = 1 .. n + 4 + k
      /\ \A i \in 1 .. n : mux_queue'[i] = a[i]
      /\ \A i \in 1 .. 4 : mux_queue'[n + i] = b[i]
      /\ \A i \in 1 .. k : mux_queue'[n + 4 + i] = d[i]
  BY <1>4, <1>5
<1> QED BY <1>6 DEF a, b, d

LEMMA FlushAllFlushes == \A i \in DOMAIN FlushAll : FlushAll[i].cmd = "MUX_FLUSH"
<1> DEFINE F == [cmd : {"MUX_FLUSH"}, in_sel : Correlators]
<1>1. \A m \in F : m.cmd = "MUX_FLUSH"
  OBVIOUS
<1> HIDE DEF F
<1>2. FlushAll \in Seq(F)
  BY FlushAllFacts DEF F
<1> QED BY <1>1, <1>2

\* A successful search: one DELETE, and behind it the TAG and a FLUSH.
LEMMA CopyIsAdded ==
    ASSUME mux_queue \in Seq(MuxCommands), NoDelete, NEW w \in Correlators,
           mux_queue' = mux_queue \o CopyOut(w) \o FlushAll
    PROVE  /\ \E i \in DOMAIN mux_queue' :
                 /\ OnlyDelete(i, w)'
                 /\ \E j \in DOMAIN mux_queue' : i < j /\ IsFlush(j, w)'
                 /\ \E j \in DOMAIN mux_queue' : i < j /\ IsTag(j)'
           /\ \A i \in Int : ReachesSecond(Len(mux_queue) + 1, w) /\ OnlyDelete(i, w)' /\ UNCHANGED mux_at
                 => ReachesSecond(i, w)'
<1> PICK n \in Nat : n = Len(mux_queue)
  OBVIOUS
<1> PICK k \in Nat : k = Len(FlushAll)
  BY MuxCommandsType
<1>1. /\ DOMAIN mux_queue' = 1 .. n + 4 + k
      /\ \A i \in 1 .. n : mux_queue'[i] = mux_queue[i]
      /\ \A i \in 1 .. 4 : mux_queue'[n + i] = CopyOut(w)[i]
      /\ \A i \in 1 .. k : mux_queue'[n + 4 + i] = FlushAll[i]
      /\ DOMAIN mux_queue = 1 .. n /\ DOMAIN FlushAll = 1 .. k
  <2>1. DOMAIN mux_queue = 1 .. n /\ DOMAIN FlushAll = 1 .. k
    BY MuxCommandsType
  <2> QED BY <2>1, AddedCommands
<1>2. /\ CopyOut(w)[1].cmd = "MUX_DELETE" /\ CopyOut(w)[1].in_sel = w
      /\ CopyOut(w)[2].cmd = "MUX_COPY" /\ CopyOut(w)[3].cmd = "MUX_TAG" /\ CopyOut(w)[4].cmd = "MUX_COPY"
  BY DEF CopyOut, MuxCommand
<1>3. ASSUME NEW i \in DOMAIN mux_queue', mux_queue'[i].cmd = "MUX_DELETE" PROVE i = n + 1
  <2>1. CASE i \in 1 .. n
    BY <1>1, <1>3, <2>1 DEF NoDelete, IsDelete
  <2>2. CASE i \in n + 1 .. n + 4
    <3>1. PICK j \in {1, 2, 3, 4} : i = n + j
      <4>1. i - n \in {1, 2, 3, 4} /\ i = n + (i - n)
        BY <2>2
      <4> QED BY <4>1
    <3> QED BY <1>1, <1>2, <1>3, <3>1, SMTT(60)
  <2>3. CASE i > n + 4
    <3>1. i - (n + 4) \in 1 .. k /\ i = n + 4 + (i - (n + 4))
      <4>1. i \in 1 .. n + 4 + k
        BY <1>1
      <4> QED BY <2>3, <4>1
    <3> QED BY <1>1, <1>3, <3>1, FlushAllFlushes, SMTT(60)
  <2> QED BY <1>1, <1>3, <2>1, <2>2, <2>3
<1>4. n + 1 \in DOMAIN mux_queue' /\ mux_queue'[n + 1] = CopyOut(w)[1]
  BY <1>1
<1>5. OnlyDelete(n + 1, w)'
  BY <1>2, <1>3, <1>4 DEF OnlyDelete, IsDelete
<1>6. \E j \in DOMAIN mux_queue' : n + 1 < j /\ IsFlush(j, w)'
  <2>1. PICK i \in DOMAIN FlushAll : FlushAll[i] = MuxCommand("MUX_FLUSH", w)
    BY FlushAllFacts
  <2>2. i \in 1 .. k
    BY <1>1
  <2>3. n + 4 + i \in 1 .. n + 4 + k /\ n + 1 < n + 4 + i
    BY <2>2
  <2>4. mux_queue'[n + 4 + i].cmd = "MUX_FLUSH" /\ mux_queue'[n + 4 + i].in_sel = w
    <3>1. FlushAll[i].cmd = "MUX_FLUSH" /\ FlushAll[i].in_sel = w
      BY <2>1 DEF MuxCommand
    <3>2. mux_queue'[n + 4 + i] = FlushAll[i]
      BY <1>1, <2>2
    <3> QED BY <3>1, <3>2
  <2> QED BY <1>1, <2>3, <2>4 DEF IsFlush
<1>7. \E j \in DOMAIN mux_queue' : n + 1 < j /\ IsTag(j)'
  <2>1. n + 3 \in DOMAIN mux_queue' /\ mux_queue'[n + 3] = CopyOut(w)[3] /\ n + 1 < n + 3
    BY <1>1
  <2> QED BY <1>2, <2>1 DEF IsTag
<1>8. ASSUME NEW i \in Int, ReachesSecond(n + 1, w), OnlyDelete(i, w)', UNCHANGED mux_at
      PROVE  ReachesSecond(i, w)'
  <2>1. i = n + 1
    BY <1>3, <1>8 DEF OnlyDelete, IsDelete
  <2>2. ASSUME NEW j \in DOMAIN mux_queue, IsFlush(j, w)
        PROVE  j \in DOMAIN mux_queue' /\ IsFlush(j, w)'
    <3>1. j \in 1 .. n /\ j \in DOMAIN mux_queue'
      BY <1>1, <2>2
    <3> QED BY <1>1, <2>2, <3>1 DEF IsFlush
  <2> QED BY <1>8, <2>1, <2>2 DEF ReachesSecond
<1> QED BY <1>5, <1>4, <1>6, <1>7, <1>8

\* A search that fails adds only FLUSHes.
LEMMA FlushIsAdded ==
    ASSUME mux_queue \in Seq(MuxCommands), NoDelete, mux_queue' = mux_queue \o FlushAll
    PROVE  NoDelete'
<1>1. FlushAll \in Seq(MuxCommands)
  BY MuxCommandsType
<1>2. /\ DOMAIN mux_queue' = 1 .. Len(mux_queue) + Len(FlushAll)
      /\ \A i \in 1 .. Len(mux_queue) : mux_queue'[i] = mux_queue[i]
      /\ \A i \in 1 .. Len(FlushAll) : mux_queue'[Len(mux_queue) + i] = FlushAll[i]
  BY <1>1, ConcatFacts
<1>3. ASSUME NEW i \in DOMAIN mux_queue' PROVE mux_queue'[i].cmd # "MUX_DELETE"
  <2> PICK n \in Nat, k \in Nat : n = Len(mux_queue) /\ k = Len(FlushAll)
    BY <1>1
  <2>1. i \in 1 .. n + k /\ DOMAIN mux_queue = 1 .. n /\ DOMAIN FlushAll = 1 .. k
    BY <1>1, <1>2, <1>3
  <2>2. CASE i \in 1 .. n
    BY <1>2, <2>1, <2>2 DEF NoDelete, IsDelete
  <2>3. CASE i > n
    <3>1. i - n \in 1 .. k /\ i = n + (i - n)
      BY <2>1, <2>3
    <3> QED BY <1>2, <2>1, <3>1, FlushAllFlushes
  <2> QED BY <2>1, <2>2, <2>3
<1> QED BY <1>3 DEF NoDelete, IsDelete

LEMMA SearchKeepsCopy == ASSUME RoundInv, CopyInv, PickPeak PROVE CopyInv'
<1> DEFINE found == {c \in Correlators : Head(peaks[c])}
<1>1. /\ mux_queue \in Seq(MuxCommands) /\ winners \subseteq Correlators
      /\ searched' = searched + 1 /\ mux_at' = mux_at
      /\ d_mac_state' = d_mac_state /\ UNCHANGED <<d_mac_state, mux_at>>
  BY DEF PickPeak, Search, preamble_search, Abort, RoundInv, SimInv, RoundTypes, SearchTypes
<1>2. /\ searched \in {0, 1}
      /\ searched = 0 => d_mac_state = "MS_RN16"
      /\ searched = 1 => d_mac_state = "MS_EPC" /\ ("framer" \in inside \/ d_state = "PREAMBLE_DET")
  BY SearchFinds
<1>3. searched = 0 => winners = {}
  BY DEF CopyInv
<1>4. searched = 1 => winners # {}
  BY <1>2 DEF CopyInv
<1>5. searched = 1 => \A i \in DOMAIN mux_queue : ~IsTag(i)
  <2>1. searched = 1 => d_state # "SYMBOL_DET"
    BY <1>2 DEF RoundInv, SimInv, FramerWaits
  <2> QED BY <2>1 DEF PickPeak, Search, RoundInv, SimInv, TagPending
<1>6. ASSUME NEW w \in Correlators, winners = {w}
      PROVE  searched = 1 /\ NoDelete /\ ReachesSecond(Len(mux_queue) + 1, w)
  <2>1. CopyAt(w) /\ searched = 1
    BY <1>2, <1>3, <1>6 DEF CopyInv
  <2> QED BY <1>5, <2>1 DEF CopyAt
<1>7. NoDelete \/ ~(\E w \in Correlators : winners = {w} \/ winners = {})
  BY <1>6 DEF CopyInv
<1>8. CASE winners' = winners /\ mux_queue' = mux_queue \o FlushAll /\ Search(FALSE)
  <2>1. CASE winners = {}
    <3>1. NoDelete /\ (\A c \in Correlators : mux_at[c] = 1) /\ d_state \in {"READY_DOWNLINK", "PREAMBLE_DET"}
      BY <2>1 DEF CopyInv
    <3>2. NoDelete'
      BY <1>1, <1>8, <3>1, FlushIsAdded
    <3>3. d_state' \in {d_state, "READY_DOWNLINK"}
      BY <1>8 DEF Search, preamble_search, Abort
    <3> QED BY <1>1, <1>2, <1>4, <1>8, <2>1, <3>1, <3>2, <3>3 DEF CopyInv
  <2>2. CASE winners # {}
    <3>1. ASSUME NEW w \in Correlators, winners = {w} PROVE CopyAt(w)'
      <4>1. searched' = 2 /\ NoDelete'
        BY <1>1, <1>6, <1>8, <3>1, FlushIsAdded
      <4> QED BY <4>1 DEF CopyAt
    <3> QED BY <1>1, <1>2, <1>8, <2>2, <3>1 DEF CopyInv
  <2> QED BY <2>1, <2>2
<1>9. ASSUME NEW best \in Correlators, mux_queue' = mux_queue \o CopyOut(best) \o FlushAll,
             winners' = winners \cup {best}
      PROVE  CopyInv'
  <2>1. ASSUME NEW w \in Correlators, winners' = {w} PROVE CopyAt(w)'
    <3>1. best = w
      BY <1>9, <2>1
    <3>2. CASE winners = {}
      <4>1. searched = 0 /\ NoDelete /\ mux_at[w] = 1
        BY <1>2, <1>4, <3>2 DEF CopyInv
      <4>2. searched' = 1 /\ mux_at'[w] = 1
        BY <1>1, <4>1
      <4>3. \E i \in DOMAIN mux_queue' :
               /\ OnlyDelete(i, w)'
               /\ \E j \in DOMAIN mux_queue' : i < j /\ IsFlush(j, w)'
               /\ \E j \in DOMAIN mux_queue' : i < j /\ IsTag(j)'
        BY <1>1, <1>9, <3>1, <4>1, CopyIsAdded
      <4> QED BY <4>2, <4>3 DEF CopyAt
    <3>3. CASE winners # {}
      <4>1. winners = {w}
        BY <1>9, <2>1, <3>1, <3>3
      <4>2. NoDelete /\ ReachesSecond(Len(mux_queue) + 1, w) /\ searched' = 2
        BY <1>1, <1>6, <4>1
      <4>3. PICK i \in DOMAIN mux_queue' : OnlyDelete(i, w)'
        BY <1>1, <1>9, <3>1, <4>2, CopyIsAdded
      <4>4. i \in Int
        <5>1. CopyOut(w) \in Seq(MuxCommands) /\ FlushAll \in Seq(MuxCommands)
          BY MuxCommandsType
        <5>2. mux_queue' \in Seq(MuxCommands)
          BY <1>1, <1>9, <3>1, <5>1
        <5> QED BY <4>3, <5>2
      <4>5. ReachesSecond(i, w)'
        BY <1>1, <1>9, <3>1, <4>2, <4>3, <4>4, CopyIsAdded
      <4> QED BY <4>2, <4>3, <4>5 DEF CopyAt
    <3> QED BY <3>2, <3>3
  <2> QED BY <1>1, <1>2, <1>9, <2>1 DEF CopyInv
<1>10. \/ winners' = winners /\ mux_queue' = mux_queue \o FlushAll /\ Search(FALSE)
       \/ \E best \in Correlators : /\ mux_queue' = mux_queue \o CopyOut(best) \o FlushAll
                                    /\ winners' = winners \cup {best}
  BY DEF PickPeak
<1> QED BY <1>8, <1>9, <1>10

-----------------------------------------------------------------------------
LEMMA CopyStarts == RoundInit => CopyInv
<1> SUFFICES ASSUME RoundInit PROVE CopyInv
  OBVIOUS
<1>1. NoDelete
  BY DEF RoundInit, NoDelete
<1> QED BY <1>1 DEF RoundInit, Init, MacInit, CopyInv

LEMMA CopyStep == RoundInv /\ CopyInv /\ [RoundNext]_roundVars => CopyInv'
BY OthersKeepCopy, MuxKeepsCopy, SearchKeepsCopy

LEMMA CopiesTheSearched == ASSUME RoundInv, CopyInv PROVE CopiedIsSearchedBySame
<1> SUFFICES ASSUME SameWinner, mux_queue # << >>, Head(mux_queue).cmd = "MUX_DELETE"
             PROVE  BurstAt(Head(mux_queue).in_sel) = searched
  BY DEF CopiedIsSearchedBySame, CopiedIsSearched
<1>1. mux_queue \in Seq(MuxCommands) /\ winners \subseteq Correlators
  BY DEF RoundInv, SimInv, RoundTypes, SearchTypes
<1>2. /\ Head(mux_queue) = mux_queue[1] /\ Len(mux_queue) > 0 /\ Len(mux_queue) \in Nat
      /\ DOMAIN mux_queue = 1 .. Len(mux_queue)
  BY <1>1, TailFacts
<1>3. 1 \in DOMAIN mux_queue /\ IsDelete(1) /\ ~NoDelete
  <2>1. 1 \in DOMAIN mux_queue
    BY <1>2
  <2> QED BY <1>2, <2>1 DEF IsDelete, NoDelete
<1>4. PICK w \in Correlators : winners = {w}
  <2>1. winners # {}
    BY <1>3 DEF CopyInv
  <2>2. PICK w \in winners : TRUE
    BY <2>1
  <2>3. IsFiniteSet(winners) /\ {w} \subseteq winners
    BY <1>1, <2>2, TransceiverAssumption, FS_Subset
  <2>4. Cardinality({w}) = 1 /\ Cardinality(winners) \in Nat /\ Cardinality(winners) <= 1
    BY <2>3, FS_Singleton, FS_CardinalityType DEF SameWinner
  <2>5. Cardinality({w}) <= Cardinality(winners) /\ (Cardinality({w}) = Cardinality(winners) => {w} = winners)
    BY <2>3, FS_Subset
  <2>6. winners = {w}
    BY <2>4, <2>5
  <2> QED BY <1>1, <2>6
<1>5. CopyAt(w)
  BY <1>4 DEF CopyInv
<1>6. ASSUME NEW i \in DOMAIN mux_queue, OnlyDelete(i, w) PROVE i = 1 /\ Head(mux_queue).in_sel = w
  BY <1>2, <1>3, <1>6 DEF OnlyDelete
<1>7. CASE searched = 1
  <2>1. mux_at[w] = 1 /\ Head(mux_queue).in_sel = w
    BY <1>3, <1>5, <1>6, <1>7 DEF CopyAt
  <2> QED BY <1>7, <2>1 DEF BurstAt
<1>8. CASE searched = 2
  <2>1. Head(mux_queue).in_sel = w /\ ReachesSecond(1, w)
    BY <1>3, <1>5, <1>6, <1>8 DEF CopyAt
  <2>2. mux_at[w] = 3
    <3>1. \A j \in DOMAIN mux_queue : ~(j < 1)
      BY <1>2
    <3> QED BY <2>1, <3>1 DEF ReachesSecond
  <2> QED BY <1>8, <2>1, <2>2 DEF BurstAt
<1> QED BY <1>5, <1>7, <1>8 DEF CopyAt

(***************************************************************************)
(* While one correlator wins the searches the mux copies the burst that    *)
(* was searched, for every number of correlators, although nothing brings  *)
(* the inputs of the others to the same burst.                             *)
(***************************************************************************)
THEOREM RoundCopiesTheSearched ==
    ASSUME UninitStates = {"IDLE"}, MainIsPrompt PROVE RoundSpec => []CopiedIsSearchedBySame
<1>1. RoundInv /\ CopyInv => CopiedIsSearchedBySame
  BY CopiesTheSearched
<1> QED BY <1>1, CopyStarts, CopyStep, RoundInvariant, PTL DEF RoundSpec
=============================================================================
