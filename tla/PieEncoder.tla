----------------------------- MODULE PieEncoder -----------------------------
(***************************************************************************)
(* The encoder, lib/rfidbts_pie_encoder.cc, sample by sample: each         *)
(* iteration of the loop in general_work is a step, and the MAC queues the *)
(* tasks of a query and of an ACK at any time between them.  The scheduler *)
(* chooses how much room there is in the output.                           *)
(***************************************************************************)
EXTENDS Integers, PieCode

CONSTANTS
    Carrier,        \* task.len of TURN_ON_TIMED, 500000 in the code
    QueryBits,      \* query_cmd
    RN16s,          \* the bits the ACK may have to repeat
    Room,           \* values of noutput_items
    MaxIdle         \* bound on the samples sent waiting, off and on

ASSUME EncoderAssumption ==
    /\ Carrier \in Nat \ {0} /\ MaxIdle \in Nat
    /\ Room \subseteq Nat \ {0} /\ Room # {}
    /\ QueryBits \in Seq({0, 1}) /\ \A rn16 \in RN16s : rn16 \in Seq({0, 1})
    \* The packetizer takes as many bits of every answer.
    /\ \A r, s \in RN16s : Len(r) = Len(s)

VARIABLES
    d_state, d_counter, d_outgoing_frame,
    encoder_queue,
    pending,                    \* tasks the MAC has not queued yet
    working,                    \* inside general_work
    nn, output,                 \* the items written, and the buffer
    wire,                       \* history: the samples sent
    idle                        \* how many of them were sent in each idle state

vars == <<d_state, d_counter, d_outgoing_frame, encoder_queue, pending, working,
          nn, output, wire, idle>>

TxTask(cmd, len, data) == [cmd |-> cmd, len |-> len, data |-> data]

\* setup_query_ack_rep_burst and setup_ack_burst, what they tell the encoder.
Query ==
    << TxTask("TURN_ON_TIMED", Carrier, << >>), TxTask("PREAMBLE", 0, << >>),
       TxTask("DATA_BITS", 0, QueryBits), TxTask("TURN_ON", 0, << >>) >>

AckBits(rn16) == <<0, 1>> \o rn16

Ack(rn16) ==
    << TxTask("FRAME_SYNCH", 0, << >>), TxTask("DATA_BITS", 0, AckBits(rn16)),
       TxTask("TURN_ON", 0, << >>) >>

\* An item of the buffer nobody has written in this call.
Stale == 2

Init ==
    /\ d_state = "OFF_IDLE"
    /\ d_counter = 0            \* not set by the constructor, nor read until set
    /\ d_outgoing_frame = << >>
    /\ encoder_queue = << >>
    /\ \E rn16 \in RN16s : pending = Query \o Ack(rn16)
    /\ working = FALSE
    /\ nn = 0 /\ output = << >>
    /\ wire = << >> /\ idle = [s \in {"OFF_IDLE", "ON_IDLE"} |-> 0]

-----------------------------------------------------------------------------
\* A tag answers the query once there is carrier behind it.
Answered == idle["ON_IDLE"] > 0

MacQueues ==
    /\ pending # << >>
    /\ Head(pending).cmd = "FRAME_SYNCH" => Answered
    /\ encoder_queue' = Append(encoder_queue, Head(pending))
    /\ pending' = Tail(pending)
    /\ UNCHANGED <<d_state, d_counter, d_outgoing_frame, working, nn, output, wire, idle>>

BeginWork ==
    /\ ~working
    /\ working' = TRUE
    /\ nn' = 0
    /\ \E noutput_items \in Room : output' = Fill(noutput_items, Stale)
    /\ UNCHANGED <<d_state, d_counter, d_outgoing_frame, encoder_queue, pending, wire, idle>>

\* The buffer is full, or there is no task in GET_TASK.
EndWork ==
    /\ working
    /\ nn = Len(output) \/ (d_state = "GET_TASK" /\ encoder_queue = << >>)
    /\ working' = FALSE
    /\ wire' = wire \o SubSeq(output, 1, nn)
    /\ nn' = 0 /\ output' = << >>
    /\ UNCHANGED <<d_state, d_counter, d_outgoing_frame, encoder_queue, pending, idle>>

\* Samples from a to b - 1 of the buffer, as fill and copy name them.
Put(a, b, samples) ==
    output' = [i \in DOMAIN output |-> IF a < i /\ i <= b THEN samples[i - a] ELSE output[i]]

Lesser(a, b) == IF a < b THEN a ELSE b

\* Slip: a frame goes on where the last one ended.
decode_task_KeepsCounter(task) ==
    \/ /\ task.cmd = "TURN_ON_TIMED"
       /\ d_state' = "ON_TIMED" /\ d_counter' = task.len
       /\ UNCHANGED d_outgoing_frame
    \/ /\ task.cmd = "TURN_ON"
       /\ d_state' = "ON_IDLE" /\ UNCHANGED <<d_counter, d_outgoing_frame>>
    \/ /\ task.cmd \in {"PREAMBLE", "FRAME_SYNCH", "DATA_BITS"}
       /\ d_state' = "SEND_SAMPLES" /\ UNCHANGED d_counter
       /\ d_outgoing_frame' = CASE task.cmd = "PREAMBLE" -> d_preamble
                                [] task.cmd = "FRAME_SYNCH" -> d_framesync
                                [] task.cmd = "DATA_BITS" -> bit_to_pie(task.data)

decode_task(task) ==
    \/ /\ task.cmd = "TURN_ON_TIMED"
       /\ d_state' = "ON_TIMED" /\ d_counter' = task.len
       /\ UNCHANGED d_outgoing_frame
    \/ /\ task.cmd = "TURN_ON"
       /\ d_state' = "ON_IDLE" /\ UNCHANGED <<d_counter, d_outgoing_frame>>
    \/ /\ task.cmd \in {"PREAMBLE", "FRAME_SYNCH", "DATA_BITS"}
       /\ d_state' = "SEND_SAMPLES" /\ d_counter' = 0
       /\ d_outgoing_frame' = CASE task.cmd = "PREAMBLE" -> d_preamble
                                [] task.cmd = "FRAME_SYNCH" -> d_framesync
                                [] task.cmd = "DATA_BITS" -> bit_to_pie(task.data)

\* get_task and decode_task
GetTask ==
    /\ d_state \in {"OFF_IDLE", "ON_IDLE", "GET_TASK"}
    /\ encoder_queue # << >>
    /\ decode_task(Head(encoder_queue))
    /\ encoder_queue' = Tail(encoder_queue)
    /\ UNCHANGED <<nn, output, idle>>

\* The rest of the buffer, with the carrier off or on.
Idle ==
    /\ d_state \in {"OFF_IDLE", "ON_IDLE"}
    /\ encoder_queue = << >>
    /\ idle[d_state] + Len(output) - nn <= MaxIdle
    /\ idle' = [idle EXCEPT ![d_state] = @ + Len(output) - nn]
    /\ Put(nn, Len(output), Fill(Len(output), IF d_state = "ON_IDLE" THEN 1 ELSE 0))
    /\ nn' = Len(output)
    /\ UNCHANGED <<d_state, d_counter, d_outgoing_frame, encoder_queue>>

\* The code fills from output + nn to output + m, which are m samples only as
\* long as nn is 0, and does not end when m is less than nn.
OnTimed ==
    /\ d_state = "ON_TIMED"
    /\ IF d_counter > 0
       THEN LET m == Lesser(d_counter, Len(output) - nn) IN
            /\ Put(nn, m, Fill(Len(output), 1))
            /\ nn' = nn + m
            /\ d_counter' = d_counter - m
            /\ UNCHANGED d_state
       ELSE d_state' = "GET_TASK" /\ UNCHANGED <<nn, output, d_counter>>
    /\ UNCHANGED <<d_outgoing_frame, encoder_queue, idle>>

\* Slip: a sent frame leaves the encoder where it is.
SendSamples_Stays ==
    /\ d_state = "SEND_SAMPLES"
    /\ d_counter < Len(d_outgoing_frame)
    /\ LET m == Lesser(Len(d_outgoing_frame) - d_counter, Len(output) - nn) IN
       /\ Put(nn, nn + m, SubSeq(d_outgoing_frame, d_counter + 1, d_counter + m))
       /\ nn' = nn + m
       /\ d_counter' = d_counter + m
    /\ UNCHANGED <<d_state, d_outgoing_frame, encoder_queue, idle>>

SendSamples ==
    /\ d_state = "SEND_SAMPLES"
    /\ IF d_counter < Len(d_outgoing_frame)
       THEN LET m == Lesser(Len(d_outgoing_frame) - d_counter, Len(output) - nn) IN
            /\ Put(nn, nn + m, SubSeq(d_outgoing_frame, d_counter + 1, d_counter + m))
            /\ nn' = nn + m
            /\ d_counter' = d_counter + m
            /\ UNCHANGED d_state
       ELSE d_state' = "GET_TASK" /\ UNCHANGED <<nn, output, d_counter>>
    /\ UNCHANGED <<d_outgoing_frame, encoder_queue, idle>>

Loop ==
    /\ working
    /\ nn < Len(output)
    /\ GetTask \/ Idle \/ OnTimed \/ SendSamples
    /\ UNCHANGED <<pending, working, wire>>

general_work == BeginWork \/ Loop \/ EndWork

Next == MacQueues \/ general_work

Spec == Init /\ [][Next]_vars

\* The MAC queues the tasks of its bursts; a source block is called again and
\* again.
FairSpec == Spec /\ WF_vars(MacQueues) /\ WF_vars(general_work)

-----------------------------------------------------------------------------
(***************************************************************************)
(* What is sent is: nothing, the carrier for the time asked for, the query *)
(* behind its preamble, the carrier, the ACK behind its frame sync, and    *)
(* the carrier again, whatever the room in the output and however late     *)
(* the MAC queues a task.  In particular the buffer is written wherever it *)
(* is sent, although ON_TIMED fills only the first m samples of it.        *)
(***************************************************************************)
WireIsBursts ==
    \E off \in 0 .. MaxIdle, on \in 0 .. MaxIdle, rn16 \in RN16s :
        IsPrefix(wire,
            Fill(off, 0) \o Fill(Carrier, 1) \o d_preamble \o bit_to_pie(QueryBits)
            \o Fill(on, 1) \o d_framesync \o bit_to_pie(AckBits(rn16)) \o Fill(MaxIdle, 1))

(***************************************************************************)
(* A tag understands the commands.  It measures symbols from one rising    *)
(* edge to the next; RTcal is the second one behind the delimiter, and a   *)
(* symbol longer than half of it is a one.                                 *)
(***************************************************************************)
\* The items of signal before which the carrier is off, or nothing is sent yet.
Rises(signal) ==
    LET upto[n \in 0 .. Len(signal)] ==
            IF n = 0 THEN << >>
            ELSE IF signal[n] = 1 /\ (n = 1 \/ signal[n - 1] = 0) THEN Append(upto[n - 1], n)
            ELSE upto[n - 1]
    IN upto[Len(signal)]

Heard(rises, first, rtcal, n) ==
    [k \in 1 .. n |->
        IF 2 * (rises[first + k] - rises[first + k - 1]) > rises[rtcal + 1] - rises[rtcal]
        THEN 1 ELSE 0]

TagUnderstands ==
    LET rises == Rises(wire)
        query == 5 + Len(QueryBits)     \* carrier, data 0, RTcal, TRcal, the bits
    IN
    /\ Len(rises) >= query => Heard(rises, 5, 3, Len(QueryBits)) = QueryBits
    /\ \A n \in {2 + Len(rn16) : rn16 \in RN16s} :
          Len(rises) >= query + 3 + n =>
              Heard(rises, query + 3, query + 2, n) \in {AckBits(rn16) : rn16 \in RN16s}

(***************************************************************************)
(* Every task the MAC queues is carried out in the end, and the carrier is *)
(* left on for the tag.                                                    *)
(***************************************************************************)
AllIsSent == <>[](pending = << >> /\ encoder_queue = << >> /\ d_state = "ON_IDLE")
=============================================================================
