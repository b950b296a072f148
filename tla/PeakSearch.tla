----------------------------- MODULE PeakSearch -----------------------------
(***************************************************************************)
(* The preamble search of bts_transceiver.py: a peak_count_stream for each *)
(* resampler, pick_peak, and the mux of MuxSliceDice, whose decision is    *)
(* here the outcome of a comparison of peaks.  A counter reads its stream  *)
(* of correlations item by item with the mux's input of the same number;   *)
(* where the correlation has a peak, and how high, is a choice.            *)
(*                                                                         *)
(* A call of a counter touches nothing that other threads touch but its    *)
(* output, so an action stands for any run of iterations of its loop.      *)
(***************************************************************************)
EXTENDS MuxSliceDice

CONSTANTS
    SampleOffset,    \* task.sample_offset, items from frame to peak
    PreambleThresh,  \* preamble_thresh, 500 in the flowgraph
    Peaks,           \* where, and how high, a peak may be on each input
    Chunks           \* items a counter's call is given at most

\* A peak so early that the frame would begin in front of the burst is not
\* in Starts.
PeakCounts == {s + SampleOffset : s \in Starts}

ASSUME PeakAssumption ==
    /\ SampleOffset \in Nat /\ SampleOffset >= Lead
    /\ PreambleThresh \in Nat
    /\ \A c \in Inputs : PreambleThresh < BurstLen[c]
    /\ \A p \in PeakCounts : p <= PreambleThresh
    /\ Peaks \in [Inputs -> SUBSET [count : PeakCounts, peak : Nat \ {0}]]
    /\ Chunks \subseteq Nat \ {0}

VARIABLES
    cread,       \* items each counter has consumed
    c_state,     \* d_state of each counter
    d_count,
    c_burst,     \* history: the burst whose tag it found last
    results,     \* results of each counter that pick_peak has not read
    verdicts     \* history: the results of each successful search

counters == <<cread, c_state, d_count, c_burst, results, verdicts>>
searchVars == <<vars, counters>>

Result == [peak : Nat \cup {-1}, count : Nat, burst : 0 .. Bursts]

SearchInit ==
    /\ Init
    /\ cread = Zero
    /\ c_state = [c \in Inputs |-> "WAIT_NEW_FRAME"]
    /\ d_count = Zero
    /\ c_burst = Zero
    /\ results = [c \in Inputs |-> << >>]
    /\ verdicts = << >>

-----------------------------------------------------------------------------
\* min_in of a call
MinIn(c) == {Min({k, written[c] - cread[c]}) : k \in Chunks} \ {0}

Consume(c, n) == cread' = [cread EXCEPT ![c] = @ + n]

Emit(c, height, count) ==
    /\ results' = [results EXCEPT ![c] =
                      Append(@, [peak |-> height, count |-> count, burst |-> c_burst[c]])]
    /\ c_state' = [c_state EXCEPT ![c] = "WAIT_NEW_FRAME"]

\* The first item of burst b on input c, counted from 0.
FirstItem(c, b) == (b - 1) * BurstLen[c]

TagsAhead(c, n) ==
    {b \in 1 .. Bursts : cread[c] <= FirstItem(c, b) /\ FirstItem(c, b) < cread[c] + n}

\* Slip: the count goes on where the last search ended.
WaitNewFrame_KeepsCount(c) ==
    /\ c_state[c] = "WAIT_NEW_FRAME"
    /\ \E n \in MinIn(c) :
          IF TagsAhead(c, n) # {}
          THEN LET b == Min(TagsAhead(c, n)) IN
               /\ Consume(c, FirstItem(c, b) - cread[c])
               /\ c_state' = [c_state EXCEPT ![c] = "SEARCH_ACTIVE"]
               /\ c_burst' = [c_burst EXCEPT ![c] = b]
          ELSE /\ Consume(c, n)
               /\ UNCHANGED <<c_state, c_burst>>
    /\ UNCHANGED <<results, d_count>>

WaitNewFrame(c) ==
    /\ c_state[c] = "WAIT_NEW_FRAME"
    /\ \E n \in MinIn(c) :
          IF TagsAhead(c, n) # {}
          THEN LET b == Min(TagsAhead(c, n)) IN
               /\ Consume(c, FirstItem(c, b) - cread[c])
               /\ d_count' = [d_count EXCEPT ![c] = 0]
               /\ c_state' = [c_state EXCEPT ![c] = "SEARCH_ACTIVE"]
               /\ c_burst' = [c_burst EXCEPT ![c] = b]
          ELSE /\ Consume(c, n)
               /\ UNCHANGED <<d_count, c_state, c_burst>>
    /\ UNCHANGED results

FoundPeak(c) ==
    /\ c_state[c] = "SEARCH_ACTIVE"
    /\ \E n \in MinIn(c), p \in Peaks[c] :
          /\ d_count[c] <= p.count /\ p.count < d_count[c] + n
          /\ Consume(c, p.count - d_count[c] + 1)
          /\ d_count' = [d_count EXCEPT ![c] = p.count]
          /\ Emit(c, p.peak, p.count)
    /\ UNCHANGED c_burst

\* The item at the threshold is not consumed.
GiveUp(c) ==
    /\ c_state[c] = "SEARCH_ACTIVE"
    /\ \E n \in MinIn(c) : PreambleThresh < d_count[c] + n
    /\ Consume(c, PreambleThresh - d_count[c])
    /\ d_count' = [d_count EXCEPT ![c] = PreambleThresh]
    /\ Emit(c, -1, 0)
    /\ UNCHANGED c_burst

NoPeakYet(c) ==
    /\ c_state[c] = "SEARCH_ACTIVE"
    /\ \E n \in MinIn(c) :
          /\ d_count[c] + n <= PreambleThresh
          /\ Consume(c, n)
          /\ d_count' = [d_count EXCEPT ![c] = @ + n]
    /\ UNCHANGED <<c_state, results, c_burst>>

PeakCount(c) ==
    /\ WaitNewFrame(c) \/ FoundPeak(c) \/ GiveUp(c) \/ NoPeakYet(c)
    /\ UNCHANGED <<vars, verdicts>>

-----------------------------------------------------------------------------
\* Slip: the index is that of the last counter looked at.
BestIndex_Last(heads, best) == heads[Max(Inputs)].count

BestIndex(heads, best) == heads[best].count

\* The comparison is `>': of equal peaks the first.
BestCorrelator(heads) ==
    LET highest == Max({heads[c].peak : c \in Inputs}) IN
    Min({c \in Inputs : heads[c].peak = highest})

\* pick_peak::work; while it queues commands, `pending', it is not called again.
PickPeak ==
    /\ pending = << >>
    /\ \A c \in Inputs : results[c] # << >>
    /\ results' = [c \in Inputs |-> Tail(results[c])]
    /\ decided' = decided + 1
    /\ LET heads == [c \in Inputs |-> Head(results[c])]
           best == BestCorrelator(heads)
           start == BestIndex(heads, best) - SampleOffset
       IN
       IF heads[best].peak > 0
       THEN /\ pending' = CopyOut(best, start) \o FlushAll
            /\ starts' = Append(starts, <<best, start>>)
            /\ verdicts' = Append(verdicts, heads)
       ELSE /\ pending' = FlushAll
            /\ UNCHANGED <<starts, verdicts>>
    /\ UNCHANGED <<written, nread, d_queue, call, mux, cread, c_state, d_count, c_burst>>

SearchNext ==
    \/ \E c \in Inputs : Write(c) /\ UNCHANGED counters
    \/ \E c \in Inputs : PeakCount(c)
    \/ PickPeak
    \/ Queue /\ UNCHANGED counters
    \/ general_work /\ UNCHANGED counters

SearchSpec == SearchInit /\ [][SearchNext]_searchVars

\* The radio goes on and every block is called while it has input.
FairSearchSpec ==
    /\ SearchSpec
    /\ \A c \in Inputs : WF_searchVars(Write(c) /\ UNCHANGED counters)
    /\ \A c \in Inputs : WF_searchVars(PeakCount(c))
    /\ WF_searchVars(PickPeak)
    /\ WF_searchVars(Queue /\ UNCHANGED counters)
    /\ WF_searchVars(general_work /\ UNCHANGED counters)

-----------------------------------------------------------------------------
(***************************************************************************)
(* From end to end: the frame the mux copies is of an input with the       *)
(* highest peak, and the peak is sample_offset items behind its beginning. *)
(***************************************************************************)
FramesBeginAtPeak ==
    \A f \in DOMAIN verdicts :
        Len(out) > (f - 1) * FrameLen =>
            LET first == out[(f - 1) * FrameLen + 1]
                best == verdicts[f][first.in]
            IN
            /\ \A c \in Inputs : best.peak >= verdicts[f][c].peak
            /\ ((first.item - 1) % BurstLen[first.in]) + SampleOffset = best.count

(***************************************************************************)
(* Counters and pick_peak are an implementation of the choice in           *)
(* MuxSliceDice: they decide once per burst, and only on what is there.    *)
(***************************************************************************)
ImplementsMux == Spec
=============================================================================
