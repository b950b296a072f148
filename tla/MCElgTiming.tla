---------------------------- MODULE MCElgTiming ----------------------------
(***************************************************************************)
(* ElgTiming with the numbers of the flowgraph but for the length of a     *)
(* frame: 5 half symbols for 50, and as in preamble_search two more        *)
(* symbols of samples, less one.                                           *)
(***************************************************************************)
EXTENDS ElgTiming

MCOutputSampleLen == (OutputSymbolLen + 2) * 8 - 1

\* d_spb_relative_limit is 0.05.
MCRates == {15, 16, 17}
=============================================================================
