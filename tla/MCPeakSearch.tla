---------------------------- MODULE MCPeakSearch ----------------------------
\* PeakSearch with two resamplers, the second at a higher rate, every write
\* of a resampler being a burst.
EXTENDS PeakSearch

MCBurstLen == [c \in Inputs |-> 8 + c]

WholeBursts == [c \in Inputs |-> {MCBurstLen[c]}]

\* The peak of the second input is higher than that of the first, and at
\* another place; each may be missed.
MCPeaks ==
    [c \in Inputs |-> IF c = 0 THEN {[count |-> 3, peak |-> 1]}
                              ELSE {[count |-> 6, peak |-> 2]}]
=============================================================================
