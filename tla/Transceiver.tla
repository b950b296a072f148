---------------------------- MODULE Transceiver ----------------------------
(***************************************************************************)
(* The flowgraph of examples/bts_transceiver.py: the main thread, the PIE  *)
(* encoder, the receive gate, one peak counter per resampler, pick_peak    *)
(* and the mux, in front of the back end of ReplyFramer.  One action per   *)
(* thread and step; the threads share only rfid_mac, the three message     *)
(* queues and the sample streams between them.                             *)
(*                                                                         *)
(* Samples are abstracted to what starts or ends in them.  On the air that *)
(* is the carrier coming up, a delimiter, and the end of a command with    *)
(* the tag's answer; behind the gate it is the bursts it lets through; at  *)
(* the mux it is where each input is read next, at the first sample of a   *)
(* burst or somewhere behind it.                                           *)
(***************************************************************************)
EXTENDS ReplyFramer

CONSTANTS
    Correlators,     \* the resamplers' indices, 0 .. 8 in the flowgraph
    RN16s,           \* payloads a tag may answer to a query
    EPC,             \* the payload it answers to the ACK of its RN16
    Noise,           \* what is in a window without an answer
    MaxCommands,     \* calls of snd_query, 1 in main()
    Prompts          \* sets of threads taken to be quicker than the radio, see PickPeak

ASSUME TransceiverAssumption ==
    /\ Correlators # {} /\ IsFiniteSet(Correlators) /\ Correlators \subseteq Nat
    /\ RN16s \cup {EPC, Noise} \subseteq Packets
    /\ EPC \notin RN16s /\ Noise \notin RN16s \cup {EPC}
    /\ "delimiter" \notin Packets
    /\ MaxCommands \in Nat
    /\ Prompts \subseteq SUBSET Callers /\ Prompts # {}

VARIABLES
    commands,                \* calls of snd_query so far
    e_state, e_frame,        \* the encoder, and what it is sending
    tag_rn16,                \* the RN16 the tag last answered, or Noise
    air,                     \* marks the gate has not read yet
    g_state, g_carrier,      \* the gate, and the level of the last sample
    g_reply,                 \* the answer in the samples it reads now
    bursts,                  \* history: every window the gate opened
    counted, peaks,          \* per correlator: bursts searched, results not picked up
    searched,                \* bursts pick_peak has decided on
    winners,                 \* history: correlators it has chosen
    prompt,                  \* the member of Prompts this behaviour is about
    mux_queue, mux_at,       \* commands of the mux; where it reads each input
    copied                   \* the samples behind the tag are copied

front == <<commands, e_state, e_frame, tag_rn16, air, g_state, g_carrier, g_reply, bursts>>
search == <<counted, peaks, searched, winners, prompt, mux_queue, mux_at, copied>>

roundVars == <<vars, front, search>>

(***************************************************************************)
(* mux_at[c] = 2b - 1: input c is read next at the first sample of burst   *)
(* b, the one with the tag "rfid_burst"; 2b: behind it.                    *)
(***************************************************************************)
BurstAt(c) == (mux_at[c] + 1) \div 2

AtTag(c) == mux_at[c] % 2 = 1

Mark(kind, data, reply) == [kind |-> kind, data |-> data, reply |-> reply]

MuxCommand(cmd, c) == [cmd |-> cmd, in_sel |-> c]

RoundInit ==
    /\ Init
    /\ commands = 0
    /\ e_state = "OFF_IDLE"
    /\ e_frame = NoData
    /\ tag_rn16 = Noise
    /\ air = << >>
    /\ g_state = "TXOFF"
    /\ g_carrier = FALSE
    /\ g_reply = Noise
    /\ bursts = << >>
    /\ counted = [c \in Correlators |-> 0]
    /\ peaks = [c \in Correlators |-> << >>]
    /\ searched = 0
    /\ winners = {}
    /\ prompt \in Prompts
    /\ mux_queue = << >>
    /\ mux_at = [c \in Correlators |-> 1]
    /\ copied = FALSE

-----------------------------------------------------------------------------
\* snd_query
Command ==
    /\ commands < MaxCommands
    /\ Issue
    /\ commands' = commands + 1
    /\ UNCHANGED <<e_state, e_frame, tag_rn16, air, g_state, g_carrier, g_reply, bursts, search>>

Main == Command \/ (MacStep("main") /\ UNCHANGED <<front, search>>)

-----------------------------------------------------------------------------
(***************************************************************************)
(* The encoder.  OFF_IDLE and ON_IDLE send carrier off or on until a task  *)
(* comes, GET_TASK sends nothing.                                          *)
(***************************************************************************)
decode_task(task) ==
    CASE task.cmd = "TURN_ON_TIMED" -> e_state' = "ON_TIMED" /\ UNCHANGED e_frame
      [] task.cmd = "TURN_ON" -> e_state' = "ON_IDLE" /\ UNCHANGED e_frame
      [] task.cmd \in {"PREAMBLE", "FRAME_SYNCH"} ->
            e_state' = "SEND_SAMPLES" /\ e_frame' = "delimiter"
      [] task.cmd = "DATA_BITS" -> e_state' = "SEND_SAMPLES" /\ e_frame' = task.data

EncoderTask ==
    /\ e_state \in {"OFF_IDLE", "ON_IDLE", "GET_TASK"}
    /\ EncoderTakes
    /\ decode_task(Head(encoder_queue))
    /\ UNCHANGED <<commands, tag_rn16, air, g_state, g_carrier, g_reply, bursts, search>>

\* What the tag may answer to a command: a tag that heard a query picks an
\* RN16, one that hears its RN16 echoed sends its EPC, and any tag may miss it.
Answers(data) ==
    CASE data = "query" -> RN16s \cup {Noise}
      [] data = tag_rn16 /\ tag_rn16 # Noise -> {EPC, Noise}
      [] OTHER -> {Noise}

EncoderSends ==
    /\ Running
    /\ \/ /\ e_state = "ON_TIMED"
          /\ air' = Append(air, Mark("carrier", NoData, Noise))
          /\ UNCHANGED tag_rn16
       \/ /\ e_state = "SEND_SAMPLES"
          /\ e_frame = "delimiter"
          /\ air' = Append(air, Mark("delimiter", NoData, Noise))
          /\ UNCHANGED tag_rn16
       \/ /\ e_state = "SEND_SAMPLES"
          /\ e_frame # "delimiter"
          /\ \E reply \in Answers(e_frame) :
                /\ air' = Append(air, Mark("bits", e_frame, reply))
                /\ tag_rn16' = IF e_frame = "query" THEN reply ELSE tag_rn16
    /\ e_state' = "GET_TASK"
    /\ UNCHANGED <<vars, commands, e_frame, g_state, g_carrier, g_reply, bursts, search>>

Encoder == EncoderTask \/ EncoderSends

-----------------------------------------------------------------------------
(***************************************************************************)
(* The gate.  A low pulse of the carrier, whether the delimiter or a pulse *)
(* of the data, takes it from TXON_MUTE to COMMAND; WAIT lasts until the   *)
(* command is over; a window is open from RXB_UNGATE to the end of UNMUTE. *)
(***************************************************************************)
GateListens ==
    /\ Running
    /\ \/ /\ g_state = "TXOFF"
          /\ g_carrier
          /\ g_state' = "TXON_MUTE"
          /\ UNCHANGED <<air, g_carrier, g_reply>>
       \/ /\ g_state = "TXOFF"
          /\ ~g_carrier
          /\ air # << >>
          /\ g_carrier' = (Head(air).kind = "carrier")
          /\ air' = Tail(air)
          /\ UNCHANGED <<g_state, g_reply>>
       \/ /\ g_state \in {"TXON_MUTE", "WAIT"}
          /\ air # << >>
          /\ LET mark == Head(air) IN
             /\ g_state' = IF \/ g_state = "TXON_MUTE" /\ mark.kind # "carrier"
                              \/ g_state = "WAIT" /\ mark.kind = "bits"
                           THEN "COMMAND" ELSE g_state
             /\ g_reply' = mark.reply
          /\ air' = Tail(air)
          /\ UNCHANGED g_carrier
       \/ /\ g_state = "UNMUTE"
          /\ g_state' = "COMMAND"
          /\ g_reply' = Noise
          /\ UNCHANGED <<air, g_carrier>>
    /\ UNCHANGED <<vars, commands, e_state, e_frame, tag_rn16, bursts, search>>

GateCommand ==
    /\ g_state = "COMMAND"
    /\ GateTakes
    /\ LET task == Head(gate_queue) IN
       \/ /\ task.cmd = "RXB_GATE"
          /\ g_state' = "WAIT"
          /\ UNCHANGED bursts
       \/ /\ task.cmd = "RXB_UNGATE"
          /\ g_state' = "UNMUTE"
          /\ bursts' = Append(bursts, [len |-> task.len, reply |-> g_reply])
       \/ /\ task.cmd = "RXB_DONE"
          /\ g_state' = "TXOFF"
          /\ UNCHANGED bursts
    /\ UNCHANGED <<commands, e_state, e_frame, tag_rn16, air, g_carrier, g_reply, search>>

Gate == GateListens \/ GateCommand

-----------------------------------------------------------------------------
\* Slip: the counter does not leave SEARCH_ACTIVE after a result.
PeakCount_Twice(c) ==
    /\ Running
    /\ counted[c] < 2 * Len(bursts)
    /\ counted' = [counted EXCEPT ![c] = @ + 1]
    /\ \E found \in BOOLEAN : peaks' = [peaks EXCEPT ![c] = Append(@, found)]
    /\ UNCHANGED <<vars, front, searched, winners, prompt, mux_queue, mux_at, copied>>

(***************************************************************************)
(* Peak counter c emits one result for each burst: a peak (TRUE) or, after *)
(* preamble_thresh samples without one, -1.                                *)
(***************************************************************************)
PeakCount(c) ==
    /\ Running
    /\ counted[c] < Len(bursts)
    /\ counted' = [counted EXCEPT ![c] = @ + 1]
    /\ \E found \in BOOLEAN : peaks' = [peaks EXCEPT ![c] = Append(@, found)]
    /\ UNCHANGED <<vars, front, searched, winners, prompt, mux_queue, mux_at, copied>>

\* Slip: nothing is flushed.
FlushAll_None == << >>

FlushAll ==
    LET n == Cardinality(Correlators) IN
    [i \in 1 .. n |->
        MuxCommand("MUX_FLUSH", CHOOSE c \in Correlators :
                                    Cardinality({d \in Correlators : d < c}) = i - 1)]

\* Slip: a tag on the first sample copied as well.
CopyOut_TwoTags(c) ==
    << MuxCommand("MUX_DELETE", c), MuxCommand("MUX_TAG", c),
       MuxCommand("MUX_TAG", c), MuxCommand("MUX_COPY", c) >>

CopyOut(c) ==
    << MuxCommand("MUX_DELETE", c), MuxCommand("MUX_COPY", c),
       MuxCommand("MUX_TAG", c), MuxCommand("MUX_COPY", c) >>

(***************************************************************************)
(* pick_peak: one result of every correlator, the call back, and the       *)
(* commands, which only the mux reads and in order, so that queueing them  *)
(* is one step.  A thread in prompt always returns from the call that      *)
(* queued a command before the answer to it can be searched: for "framer", *)
(* decoded_message has printed the RN16 and stored d_state before the peak *)
(* of the EPC is found.  Nothing in the code makes a thread prompt.        *)
(***************************************************************************)
PickPeak ==
    /\ \A c \in Correlators : peaks[c] # << >>
    /\ inside \cap prompt = {}
    /\ peaks' = [c \in Correlators |-> Tail(peaks[c])]
    /\ searched' = searched + 1
    /\ LET found == {c \in Correlators : Head(peaks[c])} IN
       IF found # {}
       THEN /\ Search(TRUE)
            /\ \E best \in found :
                  /\ mux_queue' = mux_queue \o CopyOut(best) \o FlushAll
                  /\ winners' = winners \cup {best}
       ELSE /\ Search(FALSE)
            /\ mux_queue' = mux_queue \o FlushAll
            /\ UNCHANGED winners
    /\ UNCHANGED <<front, counted, prompt, mux_at, copied>>

-----------------------------------------------------------------------------
(***************************************************************************)
(* The mux, one command per step.  DELETE starts at the first sample of a  *)
(* burst and ends behind it; FLUSH reads to the next "rfid_burst" tag,     *)
(* which is none at all when the input stands on one, and waits for the    *)
(* next burst when there is none yet.                                      *)
(***************************************************************************)
MuxStep ==
    /\ Running
    /\ mux_queue # << >>
    /\ mux_queue' = Tail(mux_queue)
    /\ LET c == Head(mux_queue).in_sel
           cmd == Head(mux_queue).cmd
       IN
       /\ BurstAt(c) <= Len(bursts)
       /\ \/ /\ cmd = "MUX_DELETE"
             /\ mux_at' = [mux_at EXCEPT ![c] = 2 * BurstAt(c)]
             /\ UNCHANGED <<tag, copied>>
          \/ /\ cmd = "MUX_COPY"
             /\ copied' = TRUE
             /\ UNCHANGED <<tag, mux_at>>
          \/ /\ cmd = "MUX_TAG"
             /\ tag' = bursts[BurstAt(c)].reply
             /\ copied' = FALSE
             /\ UNCHANGED mux_at
          \/ /\ cmd = "MUX_FLUSH"
             /\ \/ AtTag(c) /\ UNCHANGED mux_at
                \/ /\ ~AtTag(c)
                   /\ BurstAt(c) < Len(bursts)
                   /\ mux_at' = [mux_at EXCEPT ![c] = @ + 1]
             /\ UNCHANGED <<tag, copied>>
    /\ UNCHANGED <<mac, queues, tracked, d_symbol_counter, sym_buf, bit_buf, framer, next_bit,
                   front, counted, peaks, searched, winners, prompt>>

-----------------------------------------------------------------------------
\* The timing loop has half symbols to emit once the frame is copied.
RoundTimingLoop ==
    /\ SymbolSynch \/ (copied /\ \E n \in 1 .. SymBufLimit : EmitSymbols(n))
    /\ UNCHANGED <<front, search>>

RoundDecoder == Decoder /\ UNCHANGED <<front, search>>

RoundFramer == Framer /\ UNCHANGED <<front, search>>

RoundNext ==
    \/ Main
    \/ Encoder
    \/ Gate
    \/ \E c \in Correlators : PeakCount(c)
    \/ PickPeak
    \/ MuxStep
    \/ RoundTimingLoop
    \/ RoundDecoder
    \/ RoundFramer

RoundSpec == RoundInit /\ [][RoundNext]_roundVars

\* Every thread runs as long as it has work; main() calls snd_query once.
RoundFairness ==
    /\ WF_roundVars(Main)
    /\ WF_roundVars(Encoder)
    /\ WF_roundVars(Gate)
    /\ \A c \in Correlators : WF_roundVars(PeakCount(c))
    /\ WF_roundVars(PickPeak)
    /\ WF_roundVars(MuxStep)
    /\ WF_roundVars(RoundTimingLoop)
    /\ WF_roundVars(RoundDecoder)
    /\ WF_roundVars(RoundFramer)

FairRoundSpec == RoundSpec /\ RoundFairness

-----------------------------------------------------------------------------
(***************************************************************************)
(* The flowgraph's back end does only what ReplyFramer allows: the mux     *)
(* tags one burst per successful search, while the MAC is in SYMBOL_DET.   *)
(***************************************************************************)
ImplementsReplyFramer == Spec

(***************************************************************************)
(* However late decoded_message stores d_state, only preamble_search can   *)
(* find the wrong state, and only while the MAC acknowledges an RN16; with *)
(* a prompt packetizer each of the four threads finds the MAC in the state *)
(* its call back asserts.                                                  *)
(***************************************************************************)
OnlyTheAckRaces ==
    aborted # "none" =>
        aborted = "preamble_search" /\ "framer" \in inside /\ "framer" \notin prompt

(***************************************************************************)
(* The reader acknowledges the RN16 its gate let through for the query,    *)
(* wherever the ACK is: being queued, in the encoder, or on the air.       *)
(***************************************************************************)
AckAnswersTheTag ==
    \A p \in Packets \cup {Garbled} :
        (\/ OnTheWay(TxTask("DATA_BITS", 0, p))
         \/ e_frame = p
         \/ \E i \in DOMAIN air : air[i].data = p)
        => /\ bursts # << >>
           /\ p = bursts[1].reply

(***************************************************************************)
(* The gate commands of a burst are carried out for the command they were  *)
(* queued with: the first window has the length for an RN16 and is open    *)
(* for what the tag answered to the query, the second the length for an    *)
(* EPC.                                                                    *)
(***************************************************************************)
WindowsMatchCommands ==
    /\ Len(bursts) <= 2
    /\ \A i \in DOMAIN bursts : bursts[i].len = <<800, 2800>>[i]
    /\ bursts # << >> => bursts[1].reply = tag_rn16

(***************************************************************************)
(* No answer of a tag goes by while the gate is not waiting for the end of *)
(* a command, although the encoder may be sending a command whose gate     *)
(* messages are not queued yet.                                            *)
(***************************************************************************)
NoAnswerMissed ==
    [][(Len(air') < Len(air) /\ Head(air).reply # Noise) => g_state = "WAIT"]_roundVars

(***************************************************************************)
(* The mux copies the burst pick_peak searched: "copy out start of frame!" *)
(* in pick_peak::work.                                                     *)
(***************************************************************************)
CopiedIsSearched ==
    (mux_queue # << >> /\ Head(mux_queue).cmd = "MUX_DELETE") =>
        BurstAt(Head(mux_queue).in_sel) = searched

\* No search was won by another correlator than the one before.
SameWinner == Cardinality(winners) <= 1

(***************************************************************************)
(* While one correlator wins all searches the mux copies the burst that    *)
(* was searched, although the other inputs fall behind.                    *)
(***************************************************************************)
CopiedIsSearchedBySame == SameWinner => CopiedIsSearched

(***************************************************************************)
(* A round ends: a search fails and the MAC is ready again, an EPC is      *)
(* decoded, or a slow packetizer has let preamble_search abort.            *)
(***************************************************************************)
RoundEnds ==
    commands > 0 ~> (\/ d_state = "READY_DOWNLINK"
                     \/ Len(decoded) = 2
                     \/ "framer" \notin prompt /\ ~Running)

(***************************************************************************)
(* After a command the MAC gets into the state issue_downlink_command      *)
(* asserts, READY_DOWNLINK with MS_IDLE: control_loop reads commands and   *)
(* calls snd_query for each of them.                                       *)
(***************************************************************************)
ReadyAgain ==
    commands > 0 ~> (d_state = "READY_DOWNLINK" /\ d_mac_state = "MS_IDLE")
=============================================================================
