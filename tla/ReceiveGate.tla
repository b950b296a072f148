---------------------------- MODULE ReceiveGate ----------------------------
(***************************************************************************)
(* The receive gate, lib/rfidbts_receive_gate.cc, sample by sample: it     *)
(* hides the reader's own commands from the receiver and lets through, and *)
(* tags, a window after each of them.  The MAC queues the messages of a    *)
(* burst one by one and at any time.                                       *)
(*                                                                         *)
(* A scene is what the antenna receives and what the MAC queues: the       *)
(* samples after which the carrier is switched (it is off at first), the   *)
(* number of samples, the messages in order, the last sample of each of    *)
(* the reader's commands, and the number of ones in the RN16 of the ACK.   *)
(***************************************************************************)
EXTENDS Integers, Sequences, FiniteSets

CONSTANTS
    Scenes,         \* a set of scenes
    BootSamples,    \* samples ignored after the start, 10000 in the code
    d_off_max,
    Chunks,         \* how many items work is given in WAIT and UNMUTE
    Turnaround      \* samples after a command in which no tag answers yet

ASSUME GateAssumption ==
    /\ BootSamples \in Nat /\ d_off_max \in Nat /\ Turnaround \in Nat
    /\ 1 \in Chunks /\ Chunks \subseteq Nat \ {0}

Tasks == [cmd : {"RXB_GATE", "RXB_UNGATE", "RXB_DONE"}, len : Nat]

ASSUME ScenesAssumption ==
    \A s \in Scenes : s.messages \in Seq(Tasks)

VARIABLES
    scene,
    nread,          \* samples consumed
    d_state, d_counter,
    gate_queue,
    pending,        \* messages the MAC has not queued yet
    windows         \* history: the windows, [from, len, out]

vars == <<scene, nread, d_state, d_counter, gate_queue, pending, windows>>

HasInput == nread < scene.length

\* abs(in[ii]) > d_threshold; no sample is at the threshold itself.
Carrier(s, n) == Cardinality({e \in s.edges : e <= n}) % 2 = 1

High == Carrier(scene, nread)

Consume(n) == nread' = nread + n

Init ==
    /\ scene \in Scenes
    /\ nread = 0
    /\ d_state = "ST_BOOTUP"
    /\ d_counter = BootSamples
    /\ gate_queue = << >>
    /\ pending = scene.messages
    /\ windows = << >>

-----------------------------------------------------------------------------
MacQueues ==
    /\ pending # << >>
    /\ gate_queue' = Append(gate_queue, Head(pending))
    /\ pending' = Tail(pending)
    /\ UNCHANGED <<scene, nread, d_state, d_counter, windows>>

Bootup ==
    /\ d_state = "ST_BOOTUP"
    /\ IF d_counter = 0
       THEN d_state' = "ST_TXOFF" /\ UNCHANGED <<nread, d_counter>>
       ELSE d_counter' = d_counter - 1 /\ Consume(1) /\ UNCHANGED d_state
    /\ UNCHANGED <<gate_queue, windows>>

TxOff ==
    /\ d_state = "ST_TXOFF"
    /\ IF High
       THEN d_state' = "ST_TXON_MUTE" /\ UNCHANGED nread
       ELSE Consume(1) /\ UNCHANGED d_state
    /\ UNCHANGED <<d_counter, gate_queue, windows>>

TxOnMute ==
    /\ d_state = "ST_TXON_MUTE"
    /\ IF ~High
       THEN d_state' = "ST_TXOFF_MUTE" /\ d_counter' = 0 /\ UNCHANGED nread
       ELSE Consume(1) /\ UNCHANGED <<d_state, d_counter>>
    /\ UNCHANGED <<gate_queue, windows>>

\* Slip: on to the commands at the first low sample.
TxOffMute_FallingEdge ==
    /\ d_state = "ST_TXOFF_MUTE"
    /\ d_state' = "ST_COMMAND"
    /\ UNCHANGED <<nread, d_counter, gate_queue, windows>>

\* Slip: the limit is meant in samples of the encoder.
TxOffMute_EncoderRate ==
    /\ d_state = "ST_TXOFF_MUTE"
    /\ IF 25 * d_counter > 16 * d_off_max
       THEN d_state' = "ST_TXOFF" /\ UNCHANGED <<nread, d_counter>>
       ELSE IF High
            THEN d_state' = "ST_COMMAND" /\ UNCHANGED <<nread, d_counter>>
            ELSE d_counter' = d_counter + 1 /\ Consume(1) /\ UNCHANGED d_state
    /\ UNCHANGED <<gate_queue, windows>>

\* A rising edge within d_off_max samples ends the delimiter; a longer pause
\* is the transmitter going off.
TxOffMute ==
    /\ d_state = "ST_TXOFF_MUTE"
    /\ IF d_counter > d_off_max
       THEN d_state' = "ST_TXOFF" /\ UNCHANGED <<nread, d_counter>>
       ELSE IF High
            THEN d_state' = "ST_COMMAND" /\ UNCHANGED <<nread, d_counter>>
            ELSE d_counter' = d_counter + 1 /\ Consume(1) /\ UNCHANGED d_state
    /\ UNCHANGED <<gate_queue, windows>>

\* Slip: the window is not counted.
decode_task_NoLength(task) ==
    \/ /\ task.cmd = "RXB_GATE"
       /\ d_state' = "ST_WAIT" /\ d_counter' = task.len
       /\ UNCHANGED windows
    \/ /\ task.cmd = "RXB_UNGATE"
       /\ d_state' = "ST_UNMUTE" /\ UNCHANGED d_counter
       /\ windows' = Append(windows, [from |-> nread + 1, len |-> task.len, out |-> 0])
    \/ /\ task.cmd = "RXB_DONE"
       /\ d_state' = "ST_TXOFF"
       /\ UNCHANGED <<d_counter, windows>>

decode_task(task) ==
    \/ /\ task.cmd = "RXB_GATE"
       /\ d_state' = "ST_WAIT" /\ d_counter' = task.len
       /\ UNCHANGED windows
    \/ /\ task.cmd = "RXB_UNGATE"
       /\ d_state' = "ST_UNMUTE" /\ d_counter' = task.len
       /\ windows' = Append(windows, [from |-> nread + 1, len |-> task.len, out |-> 0])
    \/ /\ task.cmd = "RXB_DONE"
       /\ d_state' = "ST_TXOFF"
       /\ UNCHANGED <<d_counter, windows>>

\* With an empty queue work returns and consumes nothing.
Command ==
    /\ d_state = "ST_COMMAND"
    /\ gate_queue # << >>
    /\ decode_task(Head(gate_queue))
    /\ gate_queue' = Tail(gate_queue)
    /\ UNCHANGED nread

\* min(d_counter, n) with n items left of those work was given
Passes(n) ==
    LET m == IF n < d_counter THEN n ELSE d_counter IN
    /\ nread + m <= scene.length
    /\ Consume(m)
    /\ d_counter' = d_counter - m

Wait ==
    /\ d_state = "ST_WAIT"
    /\ IF d_counter > 0
       THEN (\E n \in Chunks : Passes(n)) /\ UNCHANGED d_state
       ELSE d_state' = "ST_COMMAND" /\ UNCHANGED <<nread, d_counter>>
    /\ UNCHANGED <<gate_queue, windows>>

Unmute ==
    /\ d_state = "ST_UNMUTE"
    /\ IF d_counter > 0
       THEN /\ \E n \in Chunks : Passes(n)
            /\ windows' = [windows EXCEPT ![Len(windows)].out = @ + nread' - nread]
            /\ UNCHANGED d_state
       ELSE d_state' = "ST_COMMAND" /\ UNCHANGED <<nread, d_counter, windows>>
    /\ UNCHANGED gate_queue

general_work ==
    /\ HasInput
    /\ Bootup \/ TxOff \/ TxOnMute \/ TxOffMute \/ Command \/ Wait \/ Unmute
    /\ UNCHANGED <<scene, pending>>

Next == MacQueues \/ general_work

Spec == Init /\ [][Next]_vars

\* The MAC finishes queueing; the scheduler calls a block that has input.
FairSpec == Spec /\ WF_vars(MacQueues) /\ WF_vars(general_work)

-----------------------------------------------------------------------------
\* 25 us for a zero and 50 us for a one: from three ones on the second command,
\* the ACK, is longer than its RXB_GATE, a constant.
AckOutlastsGate(s, i) == i = 2 /\ s.ones > 2

(***************************************************************************)
(* A window opens after the reader's command is over and before a tag may  *)
(* answer it, no matter when the MAC's messages arrive.  The fixed lengths *)
(* of RXB_GATE in setup_query_ack_rep_burst and setup_ack_burst stand for  *)
(* the length of the command behind its delimiter.  The one exception is   *)
(* the ACK of an RN16 with three ones or more: its window opens while the  *)
(* reader still sends it.                                                  *)
(***************************************************************************)
WindowInTime ==
    \A i \in DOMAIN windows :
        /\ (scene.ends[i] < windows[i].from) <=> ~AckOutlastsGate(scene, i)
        /\ windows[i].from <= scene.ends[i] + Turnaround + 1

(***************************************************************************)
(* What the gate takes for granted of a scene.  There are three messages   *)
(* for each command k, and the carrier of command k is switched on at      *)
(* on[k], its delimiter begins at fall[k] and ends at rise[k].  The gate   *)
(* is done with the window before (Free) when the carrier is still as the  *)
(* command finds it, the delimiter is no longer than d_off_max, and        *)
(* RXB_GATE is as long as the rest of the command, but for AckOutlastsGate.*)
(***************************************************************************)
Opens(s, rise, k) == rise[k] + s.messages[3 * k - 2].len

Free(s, rise, k) ==
    IF k = 1 THEN BootSamples ELSE Opens(s, rise, k - 1) + s.messages[3 * k - 4].len

Level(s, from, to, high) == \A n \in from .. to - 1 : Carrier(s, n) = high

CommandTimed(s, on, fall, rise, k) ==
    /\ s.messages[3 * k - 2].cmd = "RXB_GATE"
    /\ s.messages[3 * k - 1].cmd = "RXB_UNGATE"
    /\ s.messages[3 * k].cmd = "RXB_DONE"
    /\ Free(s, rise, k) <= on[k] /\ on[k] < fall[k] /\ fall[k] < rise[k]
    /\ Level(s, Free(s, rise, k), on[k], FALSE)
    /\ Level(s, on[k], fall[k], TRUE)
    /\ Level(s, fall[k], rise[k], FALSE) /\ Carrier(s, rise[k])
    /\ rise[k] - fall[k] <= d_off_max
    /\ (s.ends[k] <= Opens(s, rise, k)) <=> ~AckOutlastsGate(s, k)
    /\ Opens(s, rise, k) <= s.ends[k] + Turnaround

Timed(s, on, fall, rise) ==
    /\ Len(s.messages) = 3 * Len(s.ends)
    /\ \A k \in 1 .. Len(s.ends) : CommandTimed(s, on, fall, rise, k)

(***************************************************************************)
(* A window lets through exactly the samples it was opened for: they are   *)
(* contiguous and, once the gate listens for a command again, as many as   *)
(* RXB_UNGATE says, however the scheduler splits them.                     *)
(***************************************************************************)
WindowsAreWhole ==
    \A i \in DOMAIN windows :
        LET w == windows[i] IN
        /\ w.out <= w.len
        /\ (i < Len(windows) \/ d_state # "ST_UNMUTE") => w.out = w.len
        /\ d_state = "ST_UNMUTE" /\ i = Len(windows) => nread = w.from - 1 + w.out

(***************************************************************************)
(* Each command of the reader gets its window, even when the gate reads    *)
(* the delimiter before the first message of the burst is queued.          *)
(***************************************************************************)
EveryCommandGetsAWindow == <>(Len(windows) = Len(scene.ends))
=============================================================================
