---------------------------- MODULE MuxSliceDice ----------------------------
(***************************************************************************)
(* rfidbts_mux_slice_dice of lib/rfidbts_pick.cc: of several input streams *)
(* it copies the frame pick_peak has found and throws the rest away.  Each *)
(* iteration of the loop in general_work is a step, so that pick_peak's    *)
(* thread can queue commands, and the resamplers' threads write items,     *)
(* between any two of them.                                                *)
(*                                                                         *)
(* Items are numbered from 1 on every input.  Bursts follow each other     *)
(* without a gap, and the first item of each has the tag "rfid_burst".     *)
(***************************************************************************)
EXTENDS Integers, Sequences, FiniteSets, FiniteSetsExt

CONSTANTS
    Inputs,         \* 0 .. n - 1
    BurstLen,       \* items of a burst on each input: the rates differ
    Bursts,         \* how many bursts the gate lets through
    Starts,         \* best_index - task.sample_offset
    Lead,           \* items copied before the tagged one, 8 in the code
    OutputLen,      \* task.output_sample_len
    OutputSpace,    \* items general_work may be asked for at most
    Arrivals        \* how many items a resampler's thread writes at once

ASSUME MuxAssumption ==
    /\ Inputs # {} /\ IsFiniteSet(Inputs) /\ Inputs = 0 .. Cardinality(Inputs) - 1
    /\ BurstLen \in [Inputs -> Nat \ {0}]
    /\ Bursts \in Nat /\ Starts \subseteq Nat /\ Starts # {}
    /\ Lead \in Nat \ {0} /\ OutputLen \in Nat \ {0} /\ OutputSpace \in Nat \ {0}
    /\ \A c \in Inputs : \A s \in Starts : s + Lead + 1 + OutputLen <= BurstLen[c]
    /\ Arrivals \in [Inputs -> SUBSET (Nat \ {0})]

VARIABLES
    written,            \* items in each input so far
    nread,              \* items of each input consumed
    decided,            \* bursts pick_peak has decided on
    pending,            \* commands pick_peak has not queued yet
    starts,             \* history: <<input, start>> of every frame
    d_queue, d_state, d_current_cmd,
    working,            \* inside general_work
    ninput_items, noutput_items, ii, oo,
    out                 \* history: the output, [in, item, tagged]

call == <<working, ninput_items, noutput_items>>
mux == <<d_state, d_current_cmd, ii, oo, out>>
peak == <<decided, pending, starts>>
vars == <<written, nread, peak, d_queue, call, mux>>

Cmd == [cmd : {"MUX_DELETE", "MUX_COPY", "MUX_TAG", "MUX_FLUSH"}, in_sel : Inputs, len : Int]

Zero == [c \in Inputs |-> 0]

Init ==
    /\ written = Zero /\ nread = Zero
    /\ decided = 0 /\ pending = << >> /\ starts = << >>
    /\ d_queue = << >>
    /\ d_state = "WAIT"
    /\ d_current_cmd = [cmd |-> "MUX_FLUSH", in_sel |-> CHOOSE c \in Inputs : TRUE, len |-> 0]
    /\ working = FALSE
    /\ ninput_items = Zero /\ noutput_items = 0 /\ ii = Zero /\ oo = 0
    /\ out = << >>

-----------------------------------------------------------------------------
\* A resampler's thread writes items.
Write(c) ==
    /\ \E n \in Arrivals[c] :
          /\ written[c] + n <= Bursts * BurstLen[c]
          /\ written' = [written EXCEPT ![c] = @ + n]
    /\ UNCHANGED <<nread, peak, d_queue, call, mux>>

FlushAll ==
    [i \in 1 .. Cardinality(Inputs) |-> [cmd |-> "MUX_FLUSH", in_sel |-> i - 1, len |-> -1]]

CopyOut(c, start) ==
    << [cmd |-> "MUX_DELETE", in_sel |-> c, len |-> start],
       [cmd |-> "MUX_COPY", in_sel |-> c, len |-> Lead],
       [cmd |-> "MUX_TAG", in_sel |-> c, len |-> 0],
       [cmd |-> "MUX_COPY", in_sel |-> c, len |-> OutputLen] >>

\* n items of the burst to be decided are on input c.
Searched(c, n) == written[c] >= decided * BurstLen[c] + n

(***************************************************************************)
(* pick_peak::work decides; a search that finds nothing only flushes.  All *)
(* inputs have begun the burst, and the one chosen has got to the peak,    *)
(* which is behind the lead.                                               *)
(***************************************************************************)
Decide ==
    /\ decided < Bursts /\ pending = << >>
    /\ \A c \in Inputs : Searched(c, 1)
    /\ decided' = decided + 1
    /\ \/ \E c \in Inputs, start \in Starts :
             /\ Searched(c, start + Lead)
             /\ pending' = CopyOut(c, start) \o FlushAll
             /\ starts' = Append(starts, <<c, start>>)
       \/ pending' = FlushAll /\ UNCHANGED starts
    /\ UNCHANGED <<written, nread, d_queue, call, mux>>

Queue ==
    /\ pending # << >>
    /\ d_queue' = Append(d_queue, Head(pending))
    /\ pending' = Tail(pending)
    /\ UNCHANGED <<written, nread, decided, starts, call, mux>>

-----------------------------------------------------------------------------
(***************************************************************************)
(* The scheduler calls general_work with all the items there are, and asks *)
(* for no more than every input has: mux_slice_dice overrides no forecast. *)
(***************************************************************************)
Available(c) == written[c] - nread[c]

BeginWork ==
    /\ ~working
    /\ \A c \in Inputs : Available(c) > 0
    /\ d_state # "WAIT" \/ d_queue # << >>    \* or the call changes nothing
    /\ working' = TRUE
    /\ ninput_items' = [c \in Inputs |-> Available(c)]
    /\ noutput_items' \in 1 .. Min({OutputSpace} \cup {Available(c) : c \in Inputs})
    /\ ii' = Zero /\ oo' = 0
    /\ UNCHANGED <<written, nread, peak, d_queue, d_state, d_current_cmd, out>>

in_sel == d_current_cmd.in_sel

InputEmpty == ii[in_sel] = ninput_items[in_sel]

OutputFull == oo = noutput_items

\* `loop = false', and consume.
EndWork ==
    /\ working
    /\ \/ d_state = "WAIT" /\ d_queue = << >>
       \/ d_state \in {"COPY", "TAG_COPY"} /\ (OutputFull \/ InputEmpty)
       \/ d_state \in {"DELETE", "DELETE_FLUSH"} /\ InputEmpty
    /\ working' = FALSE
    /\ nread' = [c \in Inputs |-> nread[c] + ii[c]]
    /\ ninput_items' = Zero /\ noutput_items' = 0 /\ ii' = Zero /\ oo' = 0
    /\ UNCHANGED <<written, peak, d_queue, d_state, d_current_cmd, out>>

set_state(cmd) ==
    d_state' = CASE cmd = "MUX_DELETE" -> "DELETE"
                 [] cmd = "MUX_COPY" -> "COPY"
                 [] cmd = "MUX_FLUSH" -> "DELETE_FLUSH"
                 [] cmd = "MUX_TAG" -> "TAG_COPY"

NextCommand ==
    /\ d_state = "WAIT" /\ d_queue # << >>
    /\ d_current_cmd' = Head(d_queue)
    /\ d_queue' = Tail(d_queue)
    /\ set_state(Head(d_queue).cmd)
    /\ UNCHANGED <<ii, oo, out>>

\* n items of the current command are dealt with, and pop_next_cmd.
Process(n) ==
    /\ ii' = [ii EXCEPT ![in_sel] = @ + n]
    /\ d_current_cmd' = [d_current_cmd EXCEPT !.len = @ - n]
    /\ d_state' = IF d_current_cmd.len = n THEN "WAIT" ELSE d_state
    /\ UNCHANGED d_queue

Items(n, tagged) ==
    [i \in 1 .. n |-> [in |-> in_sel, item |-> nread[in_sel] + ii[in_sel] + i, tagged |-> tagged]]

\* Slip: a full output buffer is not noticed within a command.
Copy_AllThereIs ==
    /\ d_state = "COPY" /\ ~OutputFull /\ ~InputEmpty
    /\ LET smallest == Min({ninput_items[in_sel], d_current_cmd.len}) IN
       /\ Process(smallest)
       /\ oo' = oo + smallest
       /\ out' = out \o Items(smallest, FALSE)

Copy ==
    /\ d_state = "COPY" /\ ~OutputFull /\ ~InputEmpty
    /\ LET smallest == Min({noutput_items - oo, ninput_items[in_sel], d_current_cmd.len}) IN
       /\ Process(smallest)
       /\ oo' = oo + smallest
       /\ out' = out \o Items(smallest, FALSE)

TagCopy ==
    /\ d_state = "TAG_COPY" /\ ~OutputFull /\ ~InputEmpty
    /\ out' = out \o Items(1, TRUE)
    /\ oo' = oo + 1
    /\ ii' = [ii EXCEPT ![in_sel] = @ + 1]
    /\ d_state' = "WAIT"
    /\ UNCHANGED <<d_queue, d_current_cmd>>

Delete ==
    /\ d_state = "DELETE" /\ ~InputEmpty
    /\ Process(Min({ninput_items[in_sel], d_current_cmd.len}))
    /\ UNCHANGED <<oo, out>>

\* The tags among the items of the call that are left.
Tags ==
    {t \in 0 .. Bursts - 1 :
        /\ t * BurstLen[in_sel] >= nread[in_sel] + ii[in_sel]
        /\ t * BurstLen[in_sel] < nread[in_sel] + ninput_items[in_sel]}

\* Slip: the distance of the tag from the first item of the call.
DeleteFlush_FromStart ==
    /\ d_state = "DELETE_FLUSH" /\ ~InputEmpty
    /\ IF Tags # {}
       THEN /\ d_state' = "WAIT"
            /\ ii' = [ii EXCEPT ![in_sel] = @ + Min(Tags) * BurstLen[in_sel] - nread[in_sel]]
       ELSE /\ ii' = [ii EXCEPT ![in_sel] = ninput_items[in_sel]]
            /\ UNCHANGED d_state
    /\ UNCHANGED <<d_queue, d_current_cmd, oo, out>>

\* Slip: the command is not finished at the tag.
DeleteFlush_Stays ==
    /\ d_state = "DELETE_FLUSH" /\ ~InputEmpty
    /\ ii' = [ii EXCEPT ![in_sel] =
                IF Tags # {} THEN Min(Tags) * BurstLen[in_sel] - nread[in_sel]
                             ELSE ninput_items[in_sel]]
    /\ UNCHANGED <<d_state, d_queue, d_current_cmd, oo, out>>

\* search_for_tag
DeleteFlush ==
    /\ d_state = "DELETE_FLUSH" /\ ~InputEmpty
    /\ IF Tags # {}
       THEN /\ d_state' = "WAIT"
            /\ ii' = [ii EXCEPT ![in_sel] = Min(Tags) * BurstLen[in_sel] - nread[in_sel]]
       ELSE /\ ii' = [ii EXCEPT ![in_sel] = ninput_items[in_sel]]
            /\ UNCHANGED d_state
    /\ UNCHANGED <<d_queue, d_current_cmd, oo, out>>

Loop ==
    /\ working
    /\ NextCommand \/ Copy \/ TagCopy \/ Delete \/ DeleteFlush
    /\ UNCHANGED <<written, nread, peak, call>>

general_work == BeginWork \/ Loop \/ EndWork

Next == (\E c \in Inputs : Write(c)) \/ Decide \/ Queue \/ general_work

Spec == Init /\ [][Next]_vars

-----------------------------------------------------------------------------
FrameLen == Lead + 1 + OutputLen

(***************************************************************************)
(* general_work uses and consumes no more items than it was given, and     *)
(* writes no more than it was asked for: "not enough output buffer or not  *)
(* enough input buffer".                                                   *)
(***************************************************************************)
BuffersRespected ==
    /\ \A c \in Inputs : ii[c] <= ninput_items[c]
    /\ oo <= noutput_items

(***************************************************************************)
(* The output is the frames of the successful searches, one after another: *)
(* each is a run of items of the chosen input, beginning as far behind a   *)
(* burst's first item as pick_peak said, with the item behind the lead     *)
(* tagged; however the commands, the items and the calls interleave.       *)
(***************************************************************************)
FramesAreWhole ==
    \A k \in DOMAIN out :
        LET f == (k - 1) \div FrameLen + 1
            pos == (k - 1) % FrameLen
            c == starts[f][1]
        IN
        /\ f <= Len(starts)
        /\ out[k].in = c
        /\ (out[k].item - 1 - pos) % BurstLen[c] = starts[f][2]
        /\ pos > 0 => out[k].item = out[k - 1].item + 1
        /\ out[k].tagged <=> pos = Lead

(***************************************************************************)
(* No frame is lost: every frame pick_peak asks for gets to the output.    *)
(***************************************************************************)
FramesComeOut ==
    \A n \in 1 .. Bursts : Len(starts) = n ~> Len(out) >= n * FrameLen
=============================================================================
