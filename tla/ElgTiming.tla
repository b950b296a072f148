----------------------------- MODULE ElgTiming -----------------------------
(***************************************************************************)
(* rfidbts_elg_timing_cc: the early late gate that takes the half symbols  *)
(* of a frame out of the samples the mux copied.  ReplyFramer counts its   *)
(* half symbols; here they have a place in the stream.                     *)
(*                                                                         *)
(* Samples are numbered from 0, times are in parts of a sample, Unit of    *)
(* them to one.  GNU Radio puts History - 1 zeros in front of the stream;  *)
(* nitems_read counts them, the position of a tag does not.  What the loop *)
(* filter makes of the samples is a choice among the rates its clip lets   *)
(* through.  One iteration of the loop of general_work is a step.          *)
(***************************************************************************)
EXTENDS Integers, FiniteSets, FiniteSetsExt

CONSTANTS
    OutputSymbolLen,     \* half symbols of a frame
    OutputSampleLen,     \* samples the mux copies behind the tagged one
    Lead,                \* and in front of it
    MatchFilterOffset,   \* task.match_filter_offset
    Unit,
    Rates,               \* values of d_spb between d_min_spb and d_max_spb
    SamplesPerSymbol,    \* d_spb_init, in whole samples
    NTaps,               \* d_interp->ntaps()
    History,             \* set_history
    LeadAtOnce,          \* the mux writes the lead and the tagged sample in one call
    OutputSpace,         \* half symbols general_work may be asked for at most
    Bursts               \* frames the mux copies

ASSUME ElgAssumption ==
    /\ OutputSymbolLen \in Nat \ {0} /\ OutputSampleLen \in Nat /\ Lead \in Nat
    /\ MatchFilterOffset \in Nat
    /\ Unit \in Nat \ {0} /\ Unit % 2 = 0
    /\ SamplesPerSymbol \in Nat \ {0}
    /\ Rates \subseteq {r \in Nat : r >= Unit} /\ SamplesPerSymbol * Unit \in Rates
    /\ NTaps \in Nat \ {0} /\ History \in Nat \ {0}
    /\ LeadAtOnce \in BOOLEAN
    /\ OutputSpace \in Nat \ {0} /\ Bursts \in Nat

VARIABLES
    written,             \* samples the mux has written
    nread,               \* nitems_read(0)
    d_state, d_symbol_counter, d_delay_counter, d_po, d_spb,
    working, ninput_items, noutput_items, ii, oo,
    found,               \* history: tags found
    due                  \* history: when the next half symbol is due

loop == <<d_state, d_symbol_counter, d_delay_counter, d_po, d_spb, ii, oo, found, due>>
call == <<working, ninput_items, noutput_items>>
vars == <<written, nread, loop, call>>

Init ==
    /\ written = 0 /\ nread = 0
    /\ d_state = "INIT" /\ d_symbol_counter = 0 /\ d_delay_counter = 0
    /\ d_po = 0 /\ d_spb = SamplesPerSymbol * Unit
    /\ working = FALSE /\ ninput_items = 0 /\ noutput_items = 0 /\ ii = 0 /\ oo = 0
    /\ found = 0 /\ due = 0

-----------------------------------------------------------------------------
FrameLen == Lead + 1 + OutputSampleLen

\* Where the tag "rfidbts_burst" of frame f is.
TagOf(f) == (f - 1) * FrameLen + Lead

\* Frames all of whose half symbols have come out.
Done == IF d_symbol_counter = 0 THEN found ELSE found - 1

-----------------------------------------------------------------------------
CeilSpb == (d_spb + Unit - 1) \div Unit

\* Slip: one sample more for every half symbol.
forecast_Rounded(n) == n * (CeilSpb + 1) + NTaps + 1

forecast(n) == n * CeilSpb + NTaps + 1

\* What the scheduler hands to general_work.
ItemsAvailable == written + History - 1 - nread

BeginWork ==
    /\ ~working
    /\ \E n \in 1 .. OutputSpace :
          /\ forecast(n) <= ItemsAvailable
          /\ noutput_items' = n
    /\ working' = TRUE
    /\ ninput_items' = ItemsAvailable
    /\ ii' = 0 /\ oo' = 0
    /\ UNCHANGED <<written, nread, d_state, d_symbol_counter, d_delay_counter, d_po, d_spb,
                   found, due>>

\* Slip: the interpolator is given one sample too few.
ni_Tight == ninput_items - NTaps

ni == ninput_items - NTaps - 1

Looping == working /\ ii < ni /\ oo < noutput_items

(***************************************************************************)
(* The mux copies a frame when pick_peak has found it; preamble_search     *)
(* accepts that only when the frame before is decoded.  A call looks at    *)
(* the stream again only to search for tags, otherwise writing during a    *)
(* call is the same as writing behind it.                                  *)
(***************************************************************************)
MuxWrites ==
    /\ ~working \/ (Looping /\ d_state = "INIT")
    /\ Done < Bursts
    /\ written < (Done + 1) * FrameLen
    /\ written' = IF LeadAtOnce /\ written % FrameLen = 0
                  THEN written + Lead + 1
                  ELSE written + 1
    /\ UNCHANGED <<nread, loop, call>>

EndWork ==
    /\ working /\ ~Looping
    /\ nread' = nread + ii
    /\ working' = FALSE
    /\ ninput_items' = 0 /\ noutput_items' = 0 /\ ii' = 0 /\ oo' = 0
    /\ UNCHANGED <<written, d_state, d_symbol_counter, d_delay_counter, d_po, d_spb, found, due>>

-----------------------------------------------------------------------------
TagsInRange ==
    {t \in {TagOf(f) : f \in 1 .. Bursts} :
        /\ t < written
        /\ nread + ii <= t
        /\ t < nread + ninput_items}

\* Slip: the samples before the tag are counted from ii.
search_tag_FromOffset ==
    /\ d_state = "INIT"
    /\ TagsInRange # {}
    /\ LET count == Min(TagsInRange) - nread + MatchFilterOffset IN
       IF count > ninput_items
       THEN /\ d_delay_counter' = ninput_items - count
            /\ ii' = ninput_items
            /\ d_state' = "SAMPLE_DELAY"
       ELSE /\ ii' = ii + count
            /\ d_state' = "SYMBOL_TRACK"
            /\ UNCHANGED d_delay_counter
    /\ found' = found + 1
    /\ due' = (Min(TagsInRange) + MatchFilterOffset) * Unit
    /\ d_symbol_counter' = OutputSymbolLen
    /\ d_po' = 0
    /\ d_spb' = SamplesPerSymbol * Unit
    /\ UNCHANGED oo

(***************************************************************************)
(* search_tag, when it finds one.  The delay left for the next call is     *)
(* input_items - count in the code, which is negative.                     *)
(***************************************************************************)
search_tag ==
    /\ d_state = "INIT"
    /\ TagsInRange # {}
    /\ LET count == Min(TagsInRange) - nread + MatchFilterOffset IN
       IF count > ninput_items
       THEN /\ d_delay_counter' = ninput_items - count
            /\ ii' = ninput_items
            /\ d_state' = "SAMPLE_DELAY"
       ELSE /\ ii' = count
            /\ d_state' = "SYMBOL_TRACK"
            /\ UNCHANGED d_delay_counter
    /\ found' = found + 1
    /\ due' = (Min(TagsInRange) + MatchFilterOffset) * Unit
    /\ d_symbol_counter' = OutputSymbolLen
    /\ d_po' = 0
    /\ d_spb' = SamplesPerSymbol * Unit
    /\ UNCHANGED oo

NoTagFound ==
    /\ d_state = "INIT"
    /\ TagsInRange = {}
    /\ ii' = ninput_items
    /\ UNCHANGED <<d_state, d_symbol_counter, d_delay_counter, d_po, d_spb, oo, found, due>>

-----------------------------------------------------------------------------
\* The half symbol to be taken next, in parts of a sample.
At == (nread + ii) * Unit + d_po

\* Slip: the samples of a half symbol that are still to come are forgotten.
Advance_NoDelay(samples_consumed) ==
    /\ ii' = Min({ni, ii + samples_consumed})
    /\ UNCHANGED <<d_delay_counter, d_state>>

Advance(samples_consumed) ==
    IF samples_consumed + ii > ni
    THEN /\ d_delay_counter' = samples_consumed + ii - ni
         /\ ii' = ni
         /\ d_state' = "SAMPLE_DELAY"
    ELSE /\ ii' = ii + samples_consumed
         /\ UNCHANGED <<d_delay_counter, d_state>>

\* update_loopfilter, update_dco and the output.
TakeHalfSymbol ==
    /\ d_state = "SYMBOL_TRACK" /\ d_symbol_counter > 0
    /\ d_spb' \in Rates
    /\ d_po' = (d_po + d_spb') % Unit
    /\ Advance((d_po + d_spb') \div Unit)
    /\ oo' = oo + 1
    /\ d_symbol_counter' = d_symbol_counter - 1
    /\ due' = At + d_spb'
    /\ UNCHANGED found

FrameDone ==
    /\ d_state = "SYMBOL_TRACK" /\ d_symbol_counter = 0
    /\ d_state' = "INIT"
    /\ UNCHANGED <<d_symbol_counter, d_delay_counter, d_po, d_spb, ii, oo, found, due>>

SampleDelay ==
    /\ d_state = "SAMPLE_DELAY"
    /\ IF d_delay_counter > 0
       THEN LET samples_consumed == Min({ninput_items - ii, d_delay_counter}) IN
            /\ ii' = ii + samples_consumed
            /\ d_delay_counter' = d_delay_counter - samples_consumed
            /\ UNCHANGED d_state
       ELSE /\ d_state' = "SYMBOL_TRACK"
            /\ UNCHANGED <<ii, d_delay_counter>>
    /\ UNCHANGED <<d_symbol_counter, d_po, d_spb, oo, found, due>>

Loop ==
    /\ Looping
    /\ search_tag \/ NoTagFound \/ TakeHalfSymbol \/ FrameDone \/ SampleDelay
    /\ UNCHANGED <<written, nread, call>>

general_work == BeginWork \/ Loop \/ EndWork

Next == MuxWrites \/ general_work

Spec == Init /\ [][Next]_vars

\* The mux goes on with its command, and the block is called while it can be.
FairSpec == Spec /\ WF_vars(MuxWrites) /\ WF_vars(general_work)

-----------------------------------------------------------------------------
Taking == Looping /\ d_state = "SYMBOL_TRACK" /\ d_symbol_counter > 0

(***************************************************************************)
(* Wherever a call ends, a half symbol is taken exactly d_spb behind the   *)
(* one before it: the samples counted by d_delay_counter and those consumed *)
(* add up.                                                                  *)
(***************************************************************************)
EvenlySpaced == (Taking /\ d_symbol_counter < OutputSymbolLen) => At = due

(***************************************************************************)
(* The first half symbol is taken behind the tag, at most                  *)
(* match_filter_offset later, in whatever place of the input the tag is.   *)
(***************************************************************************)
StartsBehindTag ==
    (Taking /\ d_symbol_counter = OutputSymbolLen) =>
        TagOf(found) * Unit <= At /\ At <= (TagOf(found) + MatchFilterOffset) * Unit

(***************************************************************************)
(* The three interpolations, early, on time and late, read no sample       *)
(* outside the input: "don't use more input than this", "offset by one     *)
(* sample so it is possible to go back in time".                           *)
(***************************************************************************)
ReadsInside ==
    LET early == (d_po - Unit \div 2) \div Unit
        late == (d_po + Unit \div 2) \div Unit
    IN
    Taking => /\ 0 <= 1 + ii + early
              /\ 1 + ii + late + NTaps <= ninput_items

(***************************************************************************)
(* All half symbols of every frame come out, with no sample behind the     *)
(* frame to push them: if one is left over, the bits of the frame never    *)
(* get to the packetizer and there is no next frame.                       *)
(***************************************************************************)
AllHalfSymbolsComeOut == \A f \in 1 .. Bursts : <>(Done >= f)
=============================================================================
