------------------------------ MODULE PieCode ------------------------------
(***************************************************************************)
(* The pulse interval code of the reader, as the constructor and           *)
(* bit_to_pie of lib/rfidbts_pie_encoder.cc build it: sequences of         *)
(* samples, 1 with the carrier on and 0 with the carrier off.              *)
(***************************************************************************)
EXTENDS Naturals, Sequences, SequencesExt

CONSTANTS samples_per_delimiter, samples_per_tari, samples_per_pw,
          samples_per_trcal, samples_per_data1

samples_per_rtcal == samples_per_data1 + samples_per_tari

\* samples_per_rtcal > samples_per_pw is asserted; a shorter symbol would make
\* the constructor fill before the beginning of a vector.
ASSUME SamplesAssumption ==
    /\ samples_per_delimiter \in Nat \ {0}
    /\ samples_per_pw \in Nat \ {0}
    /\ samples_per_tari \in Nat /\ samples_per_tari > samples_per_pw
    /\ samples_per_data1 \in Nat /\ samples_per_data1 > samples_per_tari
    /\ samples_per_trcal \in Nat /\ samples_per_trcal > samples_per_rtcal

Fill(n, level) == [i \in 1 .. n |-> level]

\* A symbol of n samples ends with a low pulse.
Symbol(n) == Fill(n - samples_per_pw, 1) \o Fill(samples_per_pw, 0)

d_data0 == Symbol(samples_per_tari)

d_data1 == Symbol(samples_per_data1)

d_framesync == Fill(samples_per_delimiter, 0) \o d_data0 \o Symbol(samples_per_rtcal)

d_preamble == d_framesync \o Symbol(samples_per_trcal)

\* Slip: the shorter symbol for a one.
bit_to_pie_Inverted(bits) ==
    FlattenSeq([i \in DOMAIN bits |-> IF bits[i] = 0 THEN d_data1 ELSE d_data0])

bit_to_pie(bits) ==
    FlattenSeq([i \in DOMAIN bits |-> IF bits[i] = 0 THEN d_data0 ELSE d_data1])
=============================================================================
