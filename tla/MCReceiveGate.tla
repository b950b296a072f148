--------------------------- MODULE MCReceiveGate ---------------------------
(***************************************************************************)
(* ReceiveGate with the waveform of the encoder: a query and the ACK of an *)
(* RN16 with a number of ones, at the sample rates of the flowgraph, 640   *)
(* kS/s for the encoder and 1 MS/s at the gate (25 samples for 16).        *)
(***************************************************************************)
EXTENDS ReceiveGate, PieCode

CONSTANTS OnesInRN16    \* how many of the sixteen bits are ones

Resampled(n) == (n * 25 + 15) \div 16

Query == d_preamble \o bit_to_pie(<<1,0,0,0, 0, 1,0, 1, 0,0, 0,0, 0, 0,0,0,0, 1,1,1,1,1>>)

Ack(ones) == d_framesync \o bit_to_pie(<<0, 1>> \o Fill(ones, 1) \o Fill(16 - ones, 0))

RxTask(cmd, len) == [cmd |-> cmd, len |-> len]

\* The carrier between the two commands lasts 576 encoder samples and after
\* the ACK 1900.
Scene(ones) ==
    LET query == Fill(BootSamples + 3, 0) \o Fill(10, 1) \o Query
        ack == query \o Fill(576, 1) \o Ack(ones)
    IN
    [edges |-> {Resampled(i) : i \in {j \in 1 .. Len(ack) - 1 : ack[j] # ack[j + 1]}}
               \cup {Resampled(Len(ack))},
     length |-> Resampled(Len(ack) + 1900),
     messages |-> << RxTask("RXB_GATE", 25 + 75 + 83 + 8 * 50 + 14 * 25 + 10),
                     RxTask("RXB_UNGATE", 800),
                     RxTask("RXB_DONE", 0),
                     RxTask("RXB_GATE", 25 + 75 + 25 + 50 + 14 * 25 + 2 * 50),
                     RxTask("RXB_UNGATE", 2800),
                     RxTask("RXB_DONE", 0) >>,
     ends |-> << Resampled(Len(query)), Resampled(Len(ack)) >>,
     ones |-> ones]

MCScenes == {Scene(ones) : ones \in OnesInRN16}

-----------------------------------------------------------------------------
\* The samples of the encoder before its carrier, the two delimiters and what
\* follows them.
Before(k) == BootSamples + 3 + (IF k = 1 THEN 10 ELSE 10 + Len(Query) + 576)

\* The scenes are what ReceiveGate takes for granted.  The carrier of the ACK is
\* on when the gate is done with the window of the query.
ASSUME ScenesAreTimed ==
    \A s \in MCScenes :
        LET rise == [k \in 1 .. 2 |-> Resampled(Before(k) + samples_per_delimiter)]
            fall == [k \in 1 .. 2 |-> Resampled(Before(k))]
            on == <<Resampled(BootSamples + 3), Free(s, rise, 2)>>
        IN  Timed(s, on, fall, rise)
=============================================================================
