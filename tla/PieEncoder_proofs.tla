------------------------- MODULE PieEncoder_proofs -------------------------
(***************************************************************************)
(* Proof that the encoder sends what the MAC asks for, for every waveform, *)
(* every query and RN16, every length of the carrier and every room in the *)
(* output, however late the MAC queues a task, and that a tag which        *)
(* measures what is sent reads the commands.                               *)
(***************************************************************************)
EXTENDS PieEncoder, SequenceTheorems, WellFoundedInduction, TLAPS

Samples == 0 .. 2

Signal == Seq(Samples)

-----------------------------------------------------------------------------
(***************************************************************************)
(* Induction, for the sets of numbers a definition by recursion asks for.  *)
(***************************************************************************)
LEMMA LeastNumber ==
    ASSUME NEW T \in SUBSET Nat, T # {}
    PROVE  \E n \in T : \A m \in T : n <= m
  <1> DEFINE R == OpToRel(<, Nat)
  <1>1. IsWellFoundedOn(R, Nat)
    BY NatLessThanWellFounded
  <1>2. \A m, n : <<m, n>> \in R <=> m \in Nat /\ n \in Nat /\ m < n
    BY DEF OpToRel
  <1> HIDE DEF R
  <1>3. PICK n \in T : \A m \in T : ~ (<<m, n>> \in R)
    BY <1>1, WFMin
  <1>4. ASSUME NEW m \in T PROVE n <= m
    <2>1. m \in Nat /\ n \in Nat
      OBVIOUS
    <2>2. ~ (m < n)
      BY <1>2, <1>3, <2>1
    <2> QED
      BY <2>1, <2>2
  <1> QED
    BY <1>4

LEMMA SetInduction ==
    ASSUME NEW G, 0 \in G, \A n \in Nat : n \in G => n + 1 \in G
    PROVE  Nat \subseteq G
  <1> SUFFICES ASSUME Nat \ G # {} PROVE FALSE
    OBVIOUS
  <1> DEFINE T == Nat \ G
  <1>1. T \in SUBSET Nat /\ T # {}
    OBVIOUS
  <1> HIDE DEF T
  <1>2. PICK n \in T : \A m \in T : n <= m
    BY <1>1, LeastNumber
  <1>3. n \in Nat /\ n # 0
    BY DEF T
  <1>4. n - 1 \in Nat /\ (n - 1) + 1 = n
    BY <1>3
  <1>5. n - 1 \notin T
    BY <1>2, <1>3, <1>4
  <1> QED
    BY <1>4, <1>5 DEF T

(***************************************************************************)
(* FlattenSeq is a recursive function.  Joins says that f computes it for  *)
(* ss; there is such an f, and its values are sequences.                   *)
(***************************************************************************)
Joined(ss, f, i) == IF i = 1 THEN ss[i] ELSE f[i - 1] \o ss[i]

Joins(ss, f) == f = [i \in 1 .. Len(ss) |-> Joined(ss, f, i)]

\* f computes the first n of them.
JoinsUpTo(ss, f, n) ==
    \A i \in 1 .. Len(ss) : i <= n => f[i] = Joined(ss, f, i)

LEMMA JoinsExists ==
    ASSUME NEW S, NEW ss \in Seq(Seq(S))
    PROVE  \E f : Joins(ss, f)
  <1> DEFINE G == {n \in Nat : \E f : f = [i \in 1 .. Len(ss) |-> f[i]] /\ JoinsUpTo(ss, f, n)}
  <1>1. 0 \in G
    <2>1. [i \in 1 .. Len(ss) |-> 0] = [j \in 1 .. Len(ss) |-> [i \in 1 .. Len(ss) |-> 0][j]]
      OBVIOUS
    <2>2. JoinsUpTo(ss, [i \in 1 .. Len(ss) |-> 0], 0)
      BY DEF JoinsUpTo
    <2> QED
      BY <2>1, <2>2, Zenon
  <1>2. ASSUME NEW n \in Nat, n \in G
        PROVE  n + 1 \in G
    <2>1. PICK f : f = [i \in 1 .. Len(ss) |-> f[i]] /\ JoinsUpTo(ss, f, n)
      BY <1>2
    <2> DEFINE g == [i \in 1 .. Len(ss) |-> IF i = n + 1 THEN Joined(ss, f, i) ELSE f[i]]
    <2>2. g = [i \in 1 .. Len(ss) |-> g[i]]
      OBVIOUS
    <2>3. ASSUME NEW i \in 1 .. Len(ss), i <= n + 1
          PROVE  g[i] = Joined(ss, g, i)
      <3>1. i = 1 \/ (i - 1 \in 1 .. Len(ss) /\ i - 1 # n + 1 /\ i # 1)
        BY <2>3
      <3>2. Joined(ss, g, i) = Joined(ss, f, i)
        BY <3>1 DEF Joined
      <3>3. i = n + 1 \/ i <= n
        BY <2>3
      <3> QED
        BY <2>1, <3>2, <3>3 DEF JoinsUpTo
    <2> HIDE DEF g
    <2>4. JoinsUpTo(ss, g, n + 1)
      BY <2>3 DEF JoinsUpTo
    <2> QED
      BY <2>2, <2>4
  <1>3. Len(ss) \in G
    <2>1. Nat \subseteq G
      <3> HIDE DEF G
      <3> QED
        BY <1>1, <1>2, SetInduction
    <2> QED
      BY <2>1
  <1>4. PICK f : f = [i \in 1 .. Len(ss) |-> f[i]] /\ JoinsUpTo(ss, f, Len(ss))
    BY <1>3
  <1>5. \A i \in 1 .. Len(ss) : f[i] = Joined(ss, f, i)
    BY <1>4 DEF JoinsUpTo
  <1>6. f = [i \in 1 .. Len(ss) |-> Joined(ss, f, i)]
    BY <1>4, <1>5
  <1> QED
    BY <1>6 DEF Joins

LEMMA JoinedAreSequences ==
    ASSUME NEW S, NEW ss \in Seq(Seq(S)), NEW f, Joins(ss, f)
    PROVE  \A i \in 1 .. Len(ss) : f[i] \in Seq(S)
  <1> DEFINE G == {n \in Nat : \A i \in 1 .. Len(ss) : i <= n => f[i] \in Seq(S)}
  <1>1. 0 \in G
    OBVIOUS
  <1>2. ASSUME NEW n \in Nat, n \in G
        PROVE  n + 1 \in G
    <2>1. ASSUME NEW i \in 1 .. Len(ss), i <= n + 1
          PROVE  f[i] \in Seq(S)
      <3>1. f[i] = Joined(ss, f, i) /\ ss[i] \in Seq(S)
        <4>1. f[i] = Joined(ss, f, i)
          BY Zenon DEF Joins
        <4> QED
          BY <4>1
      <3>2. CASE i = 1
        BY <3>1, <3>2 DEF Joined
      <3>3. CASE i # 1
        <4>1. i - 1 \in 1 .. Len(ss) /\ i - 1 <= n
          BY <2>1, <3>3
        <4>2. f[i - 1] \in Seq(S)
          BY <1>2, <4>1
        <4>3. f[i - 1] \o ss[i] \in Seq(S)
          BY <3>1, <4>2, ConcatProperties
        <4> QED
          BY <3>1, <3>3, <4>3 DEF Joined
      <3> QED
        BY <3>2, <3>3
    <2> QED
      BY <2>1
  <1>3. Nat \subseteq G
    <2> HIDE DEF G
    <2> QED
      BY <1>1, <1>2, SetInduction
  <1>4. Len(ss) \in G
    <2>1. Len(ss) \in Nat
      OBVIOUS
    <2> HIDE DEF G
    <2> QED
      BY <1>3, <2>1
  <1> QED
    BY <1>4

LEMMA FlattenIsJoined ==
    ASSUME NEW S, NEW ss \in Seq(Seq(S)), Len(ss) # 0
    PROVE  \E f : Joins(ss, f) /\ FlattenSeq(ss) = f[Len(ss)]
  <1> DEFINE f == CHOOSE g : Joins(ss, g)
  <1>1. Joins(ss, f)
    BY JoinsExists, Zenon
  <1>2. FlattenSeq(ss) = f[Len(ss)]
    BY Zenon DEF FlattenSeq, Joins, Joined
  <1> QED
    BY <1>1, <1>2, Zenon

LEMMA FlattenIsSequence ==
    ASSUME NEW S, NEW ss \in Seq(Seq(S))
    PROVE  FlattenSeq(ss) \in Seq(S)
  <1>1. CASE Len(ss) = 0
    <2>1. FlattenSeq(ss) = ss /\ ss = << >>
      BY <1>1, Zenon, EmptySeq DEF FlattenSeq
    <2> QED
      BY <2>1
  <1>2. CASE Len(ss) # 0
    <2>1. PICK f : Joins(ss, f) /\ FlattenSeq(ss) = f[Len(ss)]
      BY <1>2, FlattenIsJoined
    <2>2. Len(ss) \in 1 .. Len(ss)
      BY <1>2
    <2> QED
      BY <2>1, <2>2, JoinedAreSequences
  <1> QED
    BY <1>1, <1>2

-----------------------------------------------------------------------------
\* The sequences a waveform is built of.
LEMMA FillFacts ==
    ASSUME NEW n \in Nat, NEW v \in Samples
    PROVE  /\ Fill(n, v) \in Signal /\ Len(Fill(n, v)) = n
           /\ \A i \in 1 .. n : Fill(n, v)[i] = v
  <1>1. Fill(n, v) \in [1 .. n -> Samples]
    BY DEF Fill
  <1>2. Fill(n, v) \in Signal /\ Len(Fill(n, v)) = n
    BY <1>1 DEF Signal
  <1> QED
    BY <1>2 DEF Fill

LEMMA FillGrows ==
    ASSUME NEW a \in Nat, NEW b \in Nat, NEW v \in Samples
    PROVE  Fill(a, v) \o Fill(b, v) = Fill(a + b, v)
  <1> DEFINE s == Fill(a, v) \o Fill(b, v)
             t == Fill(a + b, v)
  <1>1. /\ Fill(a, v) \in Signal /\ Len(Fill(a, v)) = a /\ \A i \in 1 .. a : Fill(a, v)[i] = v
        /\ Fill(b, v) \in Signal /\ Len(Fill(b, v)) = b /\ \A i \in 1 .. b : Fill(b, v)[i] = v
        /\ t \in Signal /\ Len(t) = a + b /\ \A i \in 1 .. a + b : t[i] = v
    <2>1. a + b \in Nat
      OBVIOUS
    <2> QED
      BY <2>1, FillFacts
  <1>2. /\ s \in Signal /\ Len(s) = a + b
        /\ \A i \in 1 .. a + b : s[i] = IF i <= a THEN Fill(a, v)[i] ELSE Fill(b, v)[i - a]
    <2> DEFINE x == Fill(a, v)
               y == Fill(b, v)
    <2>1. x \in Signal /\ y \in Signal /\ Len(x) = a /\ Len(y) = b
      BY <1>1
    <2> HIDE DEF x, y
    <2>2. /\ x \o y \in Signal /\ Len(x \o y) = a + b
          /\ \A i \in 1 .. a + b : (x \o y)[i] = IF i <= a THEN x[i] ELSE y[i - a]
      BY <2>1, ConcatProperties DEF Signal
    <2> QED
      BY <2>2 DEF x, y
  <1>3. ASSUME NEW i \in 1 .. a + b PROVE s[i] = v
    <2>1. CASE i <= a
      BY <1>1, <1>2, <2>1
    <2>2. CASE ~ (i <= a)
      <3>1. i - a \in 1 .. b
        BY <2>2
      <3> QED
        BY <1>1, <1>2, <2>2, <3>1
    <2> QED
      BY <2>1, <2>2
  <1> HIDE DEF s, t
  <1>4. \A i \in 1 .. Len(s) : s[i] = t[i]
    BY <1>1, <1>2, <1>3
  <1>5. s = t
    BY <1>1, <1>2, <1>4, SeqEqual DEF Signal
  <1> QED
    BY <1>5 DEF s, t

LEMMA SymbolIsSignal ==
    ASSUME NEW n \in Nat, n > samples_per_pw
    PROVE  Symbol(n) \in Signal
  <1>1. n - samples_per_pw \in Nat /\ samples_per_pw \in Nat
    BY SamplesAssumption
  <1>2. Fill(n - samples_per_pw, 1) \in Signal /\ Fill(samples_per_pw, 0) \in Signal
    BY <1>1, FillFacts DEF Samples
  <1> QED
    BY <1>2, ConcatProperties DEF Symbol, Signal

LEMMA CodeIsSignal ==
    /\ d_data0 \in Signal /\ d_data1 \in Signal
    /\ d_framesync \in Signal /\ d_preamble \in Signal
  <1>1. /\ d_data0 \in Signal /\ d_data1 \in Signal
        /\ Symbol(samples_per_rtcal) \in Signal /\ Symbol(samples_per_trcal) \in Signal
    <2>1. /\ samples_per_tari \in Nat /\ samples_per_data1 \in Nat
          /\ samples_per_rtcal \in Nat /\ samples_per_trcal \in Nat
          /\ samples_per_tari > samples_per_pw /\ samples_per_data1 > samples_per_pw
          /\ samples_per_rtcal > samples_per_pw /\ samples_per_trcal > samples_per_pw
      BY SamplesAssumption DEF samples_per_rtcal
    <2> QED
      BY <2>1, SymbolIsSignal DEF d_data0, d_data1
  <1>2. Fill(samples_per_delimiter, 0) \in Signal
    <2>1. samples_per_delimiter \in Nat /\ 0 \in Samples
      BY SamplesAssumption DEF Samples
    <2> QED
      BY <2>1, FillFacts
  <1>3. Fill(samples_per_delimiter, 0) \o d_data0 \in Signal
    BY <1>1, <1>2, ConcatProperties DEF Signal
  <1>4. d_framesync \in Signal
    BY <1>1, <1>3, ConcatProperties DEF Signal, d_framesync
  <1>5. d_preamble \in Signal
    BY <1>1, <1>4, ConcatProperties DEF Signal, d_preamble
  <1> QED
    BY <1>1, <1>4, <1>5

LEMMA BitsAreSignal ==
    ASSUME NEW bits \in Seq({0, 1})
    PROVE  bit_to_pie(bits) \in Signal
  <1> DEFINE ss == [i \in DOMAIN bits |-> IF bits[i] = 0 THEN d_data0 ELSE d_data1]
  <1>1. ss \in Seq(Signal)
    BY CodeIsSignal
  <1>2. FlattenSeq(ss) \in Signal
    <2> HIDE DEF ss
    <2> QED
      BY <1>1, FlattenIsSequence DEF Signal
  <1> QED
    BY <1>2, Zenon DEF bit_to_pie

LEMMA CommandsAreSignal ==
    /\ bit_to_pie(QueryBits) \in Signal
    /\ \A r \in RN16s : bit_to_pie(AckBits(r)) \in Signal
  <1>1. bit_to_pie(QueryBits) \in Signal
    BY EncoderAssumption, BitsAreSignal
  <1>2. ASSUME NEW r \in RN16s PROVE bit_to_pie(AckBits(r)) \in Signal
    <2>1. r \in Seq({0, 1}) /\ <<0, 1>> \in Seq({0, 1})
      BY EncoderAssumption
    <2>2. AckBits(r) \in Seq({0, 1})
      BY <2>1, ConcatProperties DEF AckBits
    <2> QED
      BY <2>2, BitsAreSignal
  <1> QED
    BY <1>1, <1>2

-----------------------------------------------------------------------------
(***************************************************************************)
(* Signal t begins with signal s.                                          *)
(***************************************************************************)
Begins(s, t) == \E z \in Signal : t = s \o z

LEMMA BeginsWithItself ==
    ASSUME NEW s \in Signal
    PROVE  Begins(s, s)
  <1>1. << >> \in Signal /\ s \o << >> = s
    BY ConcatEmptySeq DEF Signal
  <1> QED
    BY <1>1 DEF Begins

LEMMA BeginsWhole ==
    ASSUME NEW s \in Signal, NEW t \in Signal
    PROVE  Begins(s, s \o t) /\ s \o t \in Signal
  BY ConcatProperties DEF Begins, Signal

LEMMA Associates ==
    ASSUME NEW p \in Signal, NEW q \in Signal, NEW r \in Signal
    PROVE  (p \o q) \o r = p \o (q \o r)
  BY ConcatAssociative DEF Signal

LEMMA BeginsBegins ==
    ASSUME NEW s \in Signal, NEW t, NEW u, Begins(s, t), Begins(t, u)
    PROVE  Begins(s, u)
  <1>1. PICK y \in Signal : t = s \o y
    BY DEF Begins
  <1>2. PICK z \in Signal : u = t \o z
    BY DEF Begins
  <1>3. u = s \o (y \o z)
    BY <1>1, <1>2, ConcatAssociative DEF Signal
  <1>4. y \o z \in Signal
    BY ConcatProperties DEF Signal
  <1> QED
    BY <1>3, <1>4 DEF Begins

\* Behind the same part.
LEMMA BeginsBehind ==
    ASSUME NEW p \in Signal, NEW s \in Signal, NEW t, Begins(s, t)
    PROVE  Begins(p \o s, p \o t)
  <1>1. PICK z \in Signal : t = s \o z
    BY DEF Begins
  <1>2. p \o t = (p \o s) \o z
    BY <1>1, ConcatAssociative DEF Signal
  <1> QED
    BY <1>2 DEF Begins

LEMMA BeginsIsPrefix ==
    ASSUME NEW s \in Signal, NEW t, Begins(s, t)
    PROVE  IsPrefix(s, t)
  <1>1. PICK z \in Signal : t = s \o z
    BY DEF Begins
  <1>2. /\ t \in Signal /\ Len(t) = Len(s) + Len(z) /\ Len(s) \in Nat /\ Len(z) \in Nat
        /\ \A i \in 1 .. Len(s) : t[i] = s[i]
    <2>1. Len(s) \in Nat /\ Len(z) \in Nat
      BY DEF Signal
    <2>2. /\ t \in Signal /\ Len(t) = Len(s) + Len(z)
          /\ \A i \in 1 .. Len(s) + Len(z) : t[i] = IF i <= Len(s) THEN s[i] ELSE z[i - Len(s)]
      BY <1>1, ConcatProperties DEF Signal
    <2> QED
      BY <2>1, <2>2
  <1>3. SubSeq(s, 1, Len(s)) = s
    BY SubSeqFull DEF Signal
  <1>4. SubSeq(t, 1, Len(s)) = s
    <2>1. \A i \in 1 .. Len(s) : t[i] \in Samples
      BY <1>2 DEF Signal
    <2>2. /\ SubSeq(t, 1, Len(s)) \in Signal
          /\ Len(SubSeq(t, 1, Len(s))) = Len(s)
          /\ \A i \in 1 .. Len(s) : SubSeq(t, 1, Len(s))[i] = t[i]
      <3>1. \A i \in 1 .. (Len(s) - 1) + 1 : (1 + i) - 1 = i
        OBVIOUS
      <3> QED
        BY <1>2, <2>1 DEF Signal
    <2>3. \A i \in 1 .. Len(SubSeq(t, 1, Len(s))) : SubSeq(t, 1, Len(s))[i] = s[i]
      BY <1>2, <2>2
    <2> QED
      BY <2>2, <2>3, SeqEqual DEF Signal
  <1> QED
    BY <1>2, <1>3, <1>4 DEF IsPrefix

-----------------------------------------------------------------------------
(***************************************************************************)
(* What is sent: what earlier calls wrote and what this one has written.   *)
(***************************************************************************)
Sent == wire \o SubSeq(output, 1, nn)

States == {"OFF_IDLE", "ON_IDLE", "ON_TIMED", "SEND_SAMPLES", "GET_TASK"}

EncoderTasks ==
    [cmd : {"TURN_ON_TIMED", "TURN_ON", "PREAMBLE", "FRAME_SYNCH", "DATA_BITS"},
     len : {0, Carrier},
     data : {<< >>, QueryBits} \cup {AckBits(r) : r \in RN16s}]

EncoderTypeOK ==
    /\ d_state \in States /\ d_counter \in Nat /\ d_outgoing_frame \in Signal
    /\ encoder_queue \in Seq(EncoderTasks) /\ pending \in Seq(EncoderTasks)
    /\ working \in BOOLEAN
    /\ output \in Signal /\ nn \in 0 .. Len(output)
    /\ wire \in Signal
    /\ idle \in [{"OFF_IDLE", "ON_IDLE"} -> 0 .. MaxIdle]
    /\ ~working => output = << >>

\* ON_TIMED writes from the beginning of the buffer: only a whole buffer is sent
\* in OFF_IDLE, and the carrier that is cut fills it.
FromTheBeginning ==
    d_state = "OFF_IDLE" \/ (d_state = "ON_TIMED" /\ d_counter > 0) =>
        nn = 0 \/ nn = Len(output)

LEMMA SentIsSignal == ASSUME EncoderTypeOK PROVE Sent \in Signal /\ Begins(wire, Sent)
  <1>1. wire \in Signal /\ output \in Signal /\ nn \in 0 .. Len(output)
    BY DEF EncoderTypeOK
  <1>2. SubSeq(output, 1, nn) \in Signal
    BY <1>1 DEF Signal
  <1> QED
    BY <1>1, <1>2, BeginsWhole DEF Sent

\* The samples x that a step puts behind what is written.
LEMMA PutAppends ==
    ASSUME EncoderTypeOK, NEW m \in Nat, nn + m <= Len(output),
           NEW samples, NEW x \in Signal, Len(x) = m, \A i \in 1 .. m : samples[i] = x[i],
           Put(nn, nn + m, samples), nn' = nn + m, UNCHANGED wire
    PROVE  /\ output' \in Signal /\ Len(output') = Len(output)
           /\ nn' \in 0 .. Len(output')
           /\ Sent' = Sent \o x
  <1>1. /\ wire \in Signal /\ output \in Signal /\ nn \in Nat /\ nn <= Len(output)
        /\ Len(output) \in Nat /\ DOMAIN output = 1 .. Len(output)
    BY DEF EncoderTypeOK, Signal
  <1>2. output' = [i \in 1 .. Len(output) |->
                     IF nn < i /\ i <= nn + m THEN samples[i - nn] ELSE output[i]]
    BY <1>1 DEF Put
  <1>3. ASSUME NEW i \in 1 .. Len(output)
        PROVE  /\ i <= nn => output'[i] = output[i]
               /\ nn < i /\ i <= nn + m => i - nn \in 1 .. m /\ output'[i] = x[i - nn]
               /\ output'[i] \in Samples
    <2>1. nn < i /\ i <= nn + m => i - nn \in 1 .. m
      BY <1>1
    <2>2. \A j \in 1 .. m : x[j] \in Samples
      BY DEF Signal
    <2>3. output[i] \in Samples
      BY <1>1 DEF Signal
    <2>4. /\ i <= nn => output'[i] = output[i]
          /\ nn < i /\ i <= nn + m => output'[i] = samples[i - nn]
          /\ ~ (nn < i /\ i <= nn + m) => output'[i] = output[i]
      BY <1>1, <1>2
    <2> QED
      BY <2>1, <2>2, <2>3, <2>4
  <1>4. output' \in Signal /\ Len(output') = Len(output)
    <2>1. output' \in [1 .. Len(output) -> Samples]
      BY <1>2, <1>3
    <2> PICK l \in Nat : l = Len(output)
      BY <1>1
    <2>2. output' \in [1 .. l -> Samples]
      BY <2>1
    <2> QED
      BY <2>2 DEF Signal
  <1>5. nn' \in 0 .. Len(output')
    BY <1>1, <1>4
  <1> DEFINE a == SubSeq(output, 1, nn)
             b == SubSeq(output', 1, nn + m)
  <1>6. /\ a \in Signal /\ Len(a) = nn /\ \A i \in 1 .. nn : a[i] = output[i]
    BY <1>1 DEF Signal
  <1>7. /\ b \in Signal /\ Len(b) = nn + m /\ \A i \in 1 .. nn + m : b[i] = output'[i]
    BY <1>1, <1>4 DEF Signal
  <1> HIDE DEF a, b
  <1>8. b = a \o x
    <2>1. /\ a \o x \in Signal /\ Len(a \o x) = nn + m
          /\ \A i \in 1 .. nn + m : (a \o x)[i] = IF i <= nn THEN a[i] ELSE x[i - nn]
      BY <1>6, ConcatProperties DEF Signal
    <2>2. ASSUME NEW i \in 1 .. nn + m PROVE b[i] = (a \o x)[i]
      <3>1. i \in 1 .. Len(output)
        BY <1>1
      <3>2. CASE i <= nn
        <4>1. i \in 1 .. nn
          BY <1>1, <3>2
        <4> QED
          BY <1>3, <1>6, <1>7, <2>1, <3>1, <3>2, <4>1
      <3>3. CASE ~ (i <= nn)
        <4>1. nn < i /\ i <= nn + m
          BY <1>1, <3>3
        <4> QED
          BY <1>3, <1>7, <2>1, <3>1, <3>3, <4>1
      <3> QED
        BY <3>2, <3>3
    <2> QED
      BY <1>7, <2>1, <2>2, SeqEqual DEF Signal
  <1>9. Sent' = wire \o b /\ Sent = wire \o a
    <2>1. Sent' = wire' \o SubSeq(output', 1, nn')
      BY DEF Sent
    <2>2. wire' = wire /\ nn' = nn + m
      OBVIOUS
    <2> QED
      BY <2>1, <2>2, Zenon DEF Sent, a, b
  <1>10. wire \o (a \o x) = (wire \o a) \o x
    <2>1. wire \in Signal /\ a \in Signal /\ x \in Signal
      BY <1>1, <1>6
    <2> QED
      BY ONLY <2>1, ConcatAssociative DEF Signal
  <1> QED
    BY <1>4, <1>5, <1>8, <1>9, <1>10

-----------------------------------------------------------------------------
\* The tasks of a round, in the order of the MAC.
Round(r) == Query \o Ack(r)

LEMMA RoundTasks ==
    ASSUME NEW r \in RN16s
    PROVE  /\ Round(r) \in Seq(EncoderTasks) /\ Len(Round(r)) = 7
           /\ Round(r)[1].cmd = "TURN_ON_TIMED" /\ Round(r)[1].len = Carrier
           /\ Round(r)[2].cmd = "PREAMBLE"
           /\ Round(r)[3].cmd = "DATA_BITS" /\ Round(r)[3].data = QueryBits
           /\ Round(r)[4].cmd = "TURN_ON"
           /\ Round(r)[5].cmd = "FRAME_SYNCH"
           /\ Round(r)[6].cmd = "DATA_BITS" /\ Round(r)[6].data = AckBits(r)
           /\ Round(r)[7].cmd = "TURN_ON"
  <1> DEFINE q == Query
             a == Ack(r)
  <1>1. /\ q \in Seq(EncoderTasks) /\ Len(q) = 4
        /\ q[1].cmd = "TURN_ON_TIMED" /\ q[1].len = Carrier /\ q[2].cmd = "PREAMBLE"
        /\ q[3].cmd = "DATA_BITS" /\ q[3].data = QueryBits /\ q[4].cmd = "TURN_ON"
    BY DEF Query, TxTask, EncoderTasks
  <1>2. /\ a \in Seq(EncoderTasks) /\ Len(a) = 3
        /\ a[1].cmd = "FRAME_SYNCH" /\ a[2].cmd = "DATA_BITS" /\ a[2].data = AckBits(r)
        /\ a[3].cmd = "TURN_ON"
    BY DEF Ack, TxTask, EncoderTasks
  <1> HIDE DEF q, a
  <1>3. /\ q \o a \in Seq(EncoderTasks) /\ Len(q \o a) = 7
        /\ \A i \in 1 .. 7 : (q \o a)[i] = IF i <= 4 THEN q[i] ELSE a[i - 4]
    <2>1. q \in Seq(EncoderTasks) /\ Len(q) = 4 /\ a \in Seq(EncoderTasks) /\ Len(a) = 3
      BY <1>1, <1>2
    <2>2. /\ q \o a \in Seq(EncoderTasks) /\ Len(q \o a) = Len(q) + Len(a)
          /\ \A i \in 1 .. Len(q) + Len(a) :
                (q \o a)[i] = IF i <= Len(q) THEN q[i] ELSE a[i - Len(q)]
      BY ONLY <2>1, ConcatProperties
    <2> QED
      BY ONLY <2>1, <2>2
  <1>4. /\ (q \o a)[1] = q[1] /\ (q \o a)[2] = q[2] /\ (q \o a)[3] = q[3] /\ (q \o a)[4] = q[4]
        /\ (q \o a)[5] = a[1] /\ (q \o a)[6] = a[2] /\ (q \o a)[7] = a[3]
    BY ONLY <1>3, SMTT(40)
  <1>5. Round(r) = q \o a
    BY DEF Round, q, a
  <1> QED
    BY <1>1, <1>2, <1>3, <1>4, <1>5

\* The encoder has taken the first t tasks of the round.
QueueAt(t, r) ==
    /\ Len(encoder_queue) + Len(pending) = 7 - t
    /\ \A i \in 1 .. Len(encoder_queue) : encoder_queue[i] = Round(r)[t + i]
    /\ \A i \in 1 .. Len(pending) : pending[i] = Round(r)[t + Len(encoder_queue) + i]

LEMMA QueueingKeepsQueue ==
    ASSUME EncoderTypeOK, NEW t \in 0 .. 7, NEW r \in RN16s, QueueAt(t, r), MacQueues
    PROVE  QueueAt(t, r)'
  <1>1. /\ encoder_queue \in Seq(EncoderTasks) /\ pending \in Seq(EncoderTasks)
        /\ pending # << >>
        /\ encoder_queue' = Append(encoder_queue, Head(pending)) /\ pending' = Tail(pending)
    BY DEF EncoderTypeOK, MacQueues
  <1> PICK e \in Nat : e = Len(encoder_queue)
    BY <1>1
  <1> PICK p \in Nat : p = Len(pending) /\ p > 0
    BY <1>1
  <1>2. /\ Len(encoder_queue') = e + 1 /\ Len(pending') = p - 1
        /\ \A i \in 1 .. e : encoder_queue'[i] = encoder_queue[i]
        /\ encoder_queue'[e + 1] = pending[1]
        /\ \A i \in 1 .. p - 1 : pending'[i] = pending[i + 1]
    BY <1>1
  <1>3. (e + 1) + (p - 1) = 7 - t
    BY DEF QueueAt
  <1>4. ASSUME NEW i \in 1 .. e + 1
        PROVE  encoder_queue'[i] = Round(r)[t + i]
    <2>1. CASE i \in 1 .. e
      BY <1>2, <2>1 DEF QueueAt
    <2>2. CASE i = e + 1
      <3>1. pending[1] = Round(r)[t + e + 1]
        BY DEF QueueAt
      <3>2. t + e + 1 = t + (e + 1)
        OBVIOUS
      <3> QED
        BY <1>2, <2>2, <3>1, <3>2
    <2> QED
      BY <2>1, <2>2
  <1>5. ASSUME NEW i \in 1 .. p - 1
        PROVE  pending'[i] = Round(r)[t + (e + 1) + i]
    <2>1. i + 1 \in 1 .. p /\ t + (e + 1) + i = t + e + (i + 1)
      OBVIOUS
    <2>2. pending[i + 1] = Round(r)[t + e + (i + 1)]
      BY <2>1 DEF QueueAt
    <2> QED
      BY <1>2, <2>1, <2>2
  <1> QED
    BY <1>2, <1>3, <1>4, <1>5 DEF QueueAt

LEMMA TakingMovesQueue ==
    ASSUME EncoderTypeOK, NEW t \in 0 .. 7, NEW r \in RN16s, QueueAt(t, r),
           encoder_queue # << >>, encoder_queue' = Tail(encoder_queue), UNCHANGED pending
    PROVE  t < 7 /\ QueueAt(t + 1, r)' /\ Head(encoder_queue) = Round(r)[t + 1]
  <1>1. encoder_queue \in Seq(EncoderTasks) /\ pending \in Seq(EncoderTasks)
    BY DEF EncoderTypeOK
  <1> PICK e \in Nat : e = Len(encoder_queue) /\ e > 0
    BY <1>1
  <1> PICK p \in Nat : p = Len(pending)
    BY <1>1
  <1>2. /\ Len(encoder_queue') = e - 1 /\ Head(encoder_queue) = encoder_queue[1]
        /\ \A i \in 1 .. e - 1 : encoder_queue'[i] = encoder_queue[i + 1]
    BY <1>1
  <1>3. e + p = 7 - t
    BY DEF QueueAt
  <1>4. (e - 1) + p = 7 - (t + 1) /\ t < 7
    BY <1>3
  <1>5. ASSUME NEW i \in 1 .. e - 1
        PROVE  encoder_queue'[i] = Round(r)[(t + 1) + i]
    <2>1. i + 1 \in 1 .. e /\ t + (i + 1) = (t + 1) + i
      OBVIOUS
    <2>2. encoder_queue[i + 1] = Round(r)[t + (i + 1)]
      BY <2>1 DEF QueueAt
    <2> QED
      BY <1>2, <2>1, <2>2
  <1>6. ASSUME NEW i \in 1 .. p
        PROVE  pending[i] = Round(r)[(t + 1) + (e - 1) + i]
    <2>1. t + e + i = (t + 1) + (e - 1) + i
      OBVIOUS
    <2>2. pending[i] = Round(r)[t + e + i]
      BY DEF QueueAt
    <2> QED
      BY <2>1, <2>2
  <1>7. QueueAt(t + 1, r)'
    BY <1>2, <1>4, <1>5, <1>6 DEF QueueAt
  <1>8. Head(encoder_queue) = Round(r)[t + 1]
    <2>1. 1 \in 1 .. Len(encoder_queue)
      OBVIOUS
    <2> QED
      BY <1>2, <2>1 DEF QueueAt
  <1> QED
    BY <1>4, <1>7, <1>8

-----------------------------------------------------------------------------
(***************************************************************************)
(* The signal up to the end of each burst, of off samples before the first *)
(* and on samples of carrier between the query and the ACK.                *)
(***************************************************************************)
ToTimed(off) == Fill(off, 0)
ToPreamble(off) == ToTimed(off) \o Fill(Carrier, 1)
ToQuery(off) == ToPreamble(off) \o d_preamble
ToCarrier(off) == ToQuery(off) \o bit_to_pie(QueryBits)
ToSynch(off, on) == ToCarrier(off) \o Fill(on, 1)
ToAck(off, on) == ToSynch(off, on) \o d_framesync
ToIdle(off, on, r) == ToAck(off, on) \o bit_to_pie(AckBits(r))
Bursts(off, on, r) == ToIdle(off, on, r) \o Fill(MaxIdle, 1)

LEMMA FillBegins ==
    ASSUME NEW a \in Nat, NEW n \in Nat, a <= n, NEW v \in Samples
    PROVE  Begins(Fill(a, v), Fill(n, v))
  <1>1. n - a \in Nat /\ a + (n - a) = n
    OBVIOUS
  <1>2. Fill(a, v) \o Fill(n - a, v) = Fill(a + (n - a), v) /\ Fill(n - a, v) \in Signal
    BY <1>1, FillGrows, FillFacts
  <1> QED
    BY <1>1, <1>2 DEF Begins

LEMMA StartBegins ==
    ASSUME NEW frame \in Signal, NEW c \in 0 .. Len(frame), NEW m \in Nat, c + m <= Len(frame)
    PROVE  /\ SubSeq(frame, 1, c) \in Signal /\ Begins(SubSeq(frame, 1, c), frame)
           /\ SubSeq(frame, c + 1, c + m) \in Signal /\ Len(SubSeq(frame, c + 1, c + m)) = m
           /\ SubSeq(frame, 1, c) \o SubSeq(frame, c + 1, c + m) = SubSeq(frame, 1, c + m)
  <1> PICK l \in Nat : l = Len(frame)
    BY DEF Signal
  <1>1. /\ 1 \in 1 .. l + 1 /\ c \in 1 - 1 .. l
        /\ l \in c .. l /\ c + m \in c .. l
    OBVIOUS
  <1>2. \A i \in 1 .. l : frame[i] \in Samples
    BY DEF Signal
  <1>3. SubSeq(frame, 1, c) \in Signal
    <2>1. \A i \in 1 .. c : frame[i] \in Samples
      BY <1>2
    <2> QED
      BY <2>1, SubSeqProperties DEF Signal
  <1>4. ASSUME NEW k \in Nat, c + k <= l
        PROVE  /\ SubSeq(frame, c + 1, c + k) \in Signal /\ Len(SubSeq(frame, c + 1, c + k)) = k
    <2>1. \A i \in c + 1 .. c + k : frame[i] \in Samples
      BY <1>2, <1>4
    <2>2. c + 1 \in Int /\ c + k \in Int
      OBVIOUS
    <2>3. /\ SubSeq(frame, c + 1, c + k) \in Seq(Samples)
          /\ Len(SubSeq(frame, c + 1, c + k)) =
                IF c + 1 <= c + k THEN (c + k) - (c + 1) + 1 ELSE 0
      BY ONLY <2>1, <2>2, SubSeqProperties
    <2> QED
      BY <2>3 DEF Signal
  <1>5. ASSUME NEW n \in c .. l
        PROVE  SubSeq(frame, 1, c) \o SubSeq(frame, c + 1, n) = SubSeq(frame, 1, n)
    <2>1. frame \in Seq(Samples)
      BY DEF Signal
    <2> QED
      BY <1>1, <2>1, ConcatAdjacentSubSeq
  <1>6. Begins(SubSeq(frame, 1, c), frame)
    <2>1. SubSeq(frame, 1, l) = frame
      BY SubSeqFull DEF Signal
    <2>2. SubSeq(frame, 1, c) \o SubSeq(frame, c + 1, l) = frame
      BY <1>1, <1>5, <2>1
    <2>3. l - c \in Nat /\ c + (l - c) = l
      OBVIOUS
    <2>4. SubSeq(frame, c + 1, l) \in Signal
      <3>1. SubSeq(frame, c + 1, c + (l - c)) \in Signal
        BY <1>4, <2>3
      <3> QED
        BY <2>3, <3>1
    <2> QED
      BY <2>2, <2>4 DEF Begins
  <1> QED
    BY <1>1, <1>3, <1>4, <1>5, <1>6

LEMMA Grows == ASSUME NEW p \in Signal, NEW a \in Nat, NEW b \in Nat, NEW v \in Samples
               PROVE  (p \o Fill(a, v)) \o Fill(b, v) = p \o Fill(a + b, v)
  <1>1. Fill(a, v) \in Signal /\ Fill(b, v) \in Signal /\ p \in Signal
    BY FillFacts
  <1>2. (p \o Fill(a, v)) \o Fill(b, v) = p \o (Fill(a, v) \o Fill(b, v))
    BY ONLY <1>1, ConcatAssociative DEF Signal
  <1> QED
    BY <1>2, FillGrows

LEMMA BurstsAreSignal ==
    ASSUME NEW off \in Nat, NEW on \in Nat, NEW r \in RN16s
    PROVE  /\ ToTimed(off) \in Signal /\ ToPreamble(off) \in Signal /\ ToQuery(off) \in Signal
           /\ ToCarrier(off) \in Signal /\ ToSynch(off, on) \in Signal
           /\ ToAck(off, on) \in Signal /\ ToIdle(off, on, r) \in Signal
           /\ Begins(ToPreamble(off), ToQuery(off)) /\ Begins(ToQuery(off), ToCarrier(off))
           /\ Begins(ToCarrier(off), ToSynch(off, on)) /\ Begins(ToSynch(off, on), ToAck(off, on))
           /\ Begins(ToAck(off, on), ToIdle(off, on, r)) /\ Begins(ToIdle(off, on, r), Bursts(off, on, r))
           /\ Begins(ToTimed(off), ToPreamble(off))
  <1>1. /\ Fill(off, 0) \in Signal /\ Fill(Carrier, 1) \in Signal /\ Fill(on, 1) \in Signal
        /\ Fill(MaxIdle, 1) \in Signal
    BY EncoderAssumption, FillFacts DEF Samples
  <1>2. ToTimed(off) \in Signal
    BY <1>1 DEF ToTimed
  <1>3. ToPreamble(off) \in Signal /\ Begins(ToTimed(off), ToPreamble(off))
    BY <1>1, <1>2, BeginsWhole DEF ToPreamble
  <1>4. ToQuery(off) \in Signal /\ Begins(ToPreamble(off), ToQuery(off))
    BY <1>3, CodeIsSignal, BeginsWhole DEF ToQuery
  <1>5. ToCarrier(off) \in Signal /\ Begins(ToQuery(off), ToCarrier(off))
    BY <1>4, CommandsAreSignal, BeginsWhole DEF ToCarrier
  <1>6. ToSynch(off, on) \in Signal /\ Begins(ToCarrier(off), ToSynch(off, on))
    BY <1>1, <1>5, BeginsWhole DEF ToSynch
  <1>7. ToAck(off, on) \in Signal /\ Begins(ToSynch(off, on), ToAck(off, on))
    BY <1>6, CodeIsSignal, BeginsWhole DEF ToAck
  <1>8. ToIdle(off, on, r) \in Signal /\ Begins(ToAck(off, on), ToIdle(off, on, r))
    BY <1>7, CommandsAreSignal, BeginsWhole DEF ToIdle
  <1>9. Begins(ToIdle(off, on, r), Bursts(off, on, r))
    BY <1>1, <1>8, BeginsWhole DEF Bursts
  <1> QED
    BY <1>2, <1>3, <1>4, <1>5, <1>6, <1>7, <1>8, <1>9

-----------------------------------------------------------------------------
(***************************************************************************)
(* Where the encoder stands when it has taken k tasks.  Sends: a frame is  *)
(* being sent behind signal p, or has been.                                *)
(***************************************************************************)
Sends(p, frame) ==
    \/ /\ d_state = "SEND_SAMPLES" /\ d_outgoing_frame = frame
       /\ d_counter <= Len(frame) /\ Sent = p \o SubSeq(frame, 1, d_counter)
    \/ d_state = "GET_TASK" /\ Sent = p \o frame

IsTimed(p) ==
    \/ /\ d_state = "ON_TIMED" /\ d_counter <= Carrier
       /\ Sent = p \o Fill(Carrier - d_counter, 1)
    \/ d_state = "GET_TASK" /\ Sent = p \o Fill(Carrier, 1)

On == idle["ON_IDLE"]

Waits(p, n) == d_state = "ON_IDLE" /\ Sent = p \o Fill(n, 1)

At0(off) == d_state = "OFF_IDLE" /\ Sent = ToTimed(off) /\ On = 0
At1(off) == IsTimed(ToTimed(off)) /\ On = 0
At2(off) == Sends(ToPreamble(off), d_preamble) /\ On = 0
At3(off) == Sends(ToQuery(off), bit_to_pie(QueryBits)) /\ On = 0
At4(off, on) == Waits(ToCarrier(off), on) /\ On = on
At5(off, on) == Sends(ToSynch(off, on), d_framesync) /\ On = on /\ on > 0
At6(off, on, r) == Sends(ToAck(off, on), bit_to_pie(AckBits(r))) /\ On = on /\ on > 0
At7(off, on, r) == on > 0 /\ on <= On /\ Waits(ToIdle(off, on, r), On - on)

SignalAt(k, off, on, r) ==
    \/ k = 0 /\ At0(off)
    \/ k = 1 /\ At1(off)
    \/ k = 2 /\ At2(off)
    \/ k = 3 /\ At3(off)
    \/ k = 4 /\ At4(off, on)
    \/ k = 5 /\ At5(off, on)
    \/ k = 6 /\ At6(off, on, r)
    \/ k = 7 /\ At7(off, on, r)

RoundAt(k, off, on, r) ==
    QueueAt(k, r) /\ off = idle["OFF_IDLE"] /\ SignalAt(k, off, on, r)

\* The MAC acknowledges an answer, and the tag answers into the carrier.
AnswerFirst == Len(pending) < 3 => On > 0

EncoderInv ==
    /\ EncoderTypeOK
    /\ AnswerFirst
    /\ FromTheBeginning
    /\ \E k \in 0 .. 7, off \in 0 .. MaxIdle, on \in 0 .. MaxIdle, r \in RN16s :
          RoundAt(k, off, on, r)

-----------------------------------------------------------------------------
\* What is sent is the beginning of the bursts.
LEMMA SendsBegins ==
    ASSUME EncoderTypeOK, NEW p \in Signal, NEW frame \in Signal, Sends(p, frame)
    PROVE  Begins(Sent, p \o frame)
  <1>1. CASE d_state = "GET_TASK" /\ Sent = p \o frame
    <2>1. p \o frame \in Signal
      BY BeginsWhole
    <2> QED
      BY <1>1, <2>1, BeginsWithItself
  <1>2. CASE d_counter <= Len(frame) /\ Sent = p \o SubSeq(frame, 1, d_counter)
    <2>1. d_counter \in 0 .. Len(frame) /\ 0 \in Nat /\ d_counter + 0 <= Len(frame)
      BY <1>2 DEF EncoderTypeOK, Signal
    <2>2. SubSeq(frame, 1, d_counter) \in Signal /\ Begins(SubSeq(frame, 1, d_counter), frame)
      BY <2>1, StartBegins
    <2>3. Begins(p \o SubSeq(frame, 1, d_counter), p \o frame)
      BY ONLY <2>2, BeginsBehind, p \in Signal
    <2> QED
      BY <1>2, <2>3
  <1> QED
    BY <1>1, <1>2 DEF Sends

LEMMA TimedBegins ==
    ASSUME EncoderTypeOK, NEW p \in Signal, IsTimed(p)
    PROVE  Begins(Sent, p \o Fill(Carrier, 1))
  <1>1. Fill(Carrier, 1) \in Signal /\ Carrier \in Nat /\ 1 \in Samples
    BY EncoderAssumption, FillFacts DEF Samples
  <1>2. CASE d_state = "GET_TASK" /\ Sent = p \o Fill(Carrier, 1)
    <2>1. p \o Fill(Carrier, 1) \in Signal
      BY <1>1, BeginsWhole
    <2> QED
      BY <1>2, <2>1, BeginsWithItself
  <1>3. CASE d_counter <= Carrier /\ Sent = p \o Fill(Carrier - d_counter, 1)
    <2>1. Carrier - d_counter \in Nat /\ Carrier - d_counter <= Carrier
      BY <1>1, <1>3 DEF EncoderTypeOK
    <2>2. Fill(Carrier - d_counter, 1) \in Signal /\ Begins(Fill(Carrier - d_counter, 1), Fill(Carrier, 1))
      BY <1>1, <2>1, FillFacts, FillBegins
    <2>3. Begins(p \o Fill(Carrier - d_counter, 1), p \o Fill(Carrier, 1))
      BY ONLY <2>2, BeginsBehind, p \in Signal
    <2> QED
      BY <1>3, <2>3
  <1> QED
    BY <1>2, <1>3 DEF IsTimed

LEMMA SentToSynch ==
    ASSUME EncoderTypeOK, NEW k \in 0 .. 4, NEW on \in 0 .. MaxIdle, NEW r \in RN16s,
           NEW off \in 0 .. MaxIdle, SignalAt(k, off, on, r)
    PROVE  Begins(Sent, ToSynch(off, on))
  <1>1. off \in Nat /\ on \in Nat /\ Sent \in Signal
    BY EncoderAssumption, SentIsSignal
  <1>2. /\ ToTimed(off) \in Signal /\ ToPreamble(off) \in Signal /\ ToQuery(off) \in Signal
        /\ ToCarrier(off) \in Signal /\ ToSynch(off, on) \in Signal
    BY <1>1, BurstsAreSignal
  <1>3. Begins(ToCarrier(off), ToSynch(off, on))
    BY <1>1, BurstsAreSignal
  <1>4. Begins(ToQuery(off), ToSynch(off, on))
    BY <1>1, <1>2, <1>3, BurstsAreSignal, BeginsBegins
  <1>5. Begins(ToPreamble(off), ToSynch(off, on))
    BY <1>1, <1>2, <1>4, BurstsAreSignal, BeginsBegins
  <1>6. Begins(ToTimed(off), ToSynch(off, on))
    BY <1>1, <1>2, <1>5, BurstsAreSignal, BeginsBegins
  <1>7. CASE At0(off)
    BY <1>6, <1>7 DEF At0
  <1>8. CASE At1(off)
    <2>1. Begins(Sent, ToPreamble(off))
      BY <1>2, <1>8, TimedBegins DEF At1, ToPreamble
    <2> QED
      BY <1>1, <1>5, <2>1, BeginsBegins
  <1>9. CASE At2(off)
    <2>1. Begins(Sent, ToQuery(off))
      BY <1>2, <1>9, SendsBegins, CodeIsSignal DEF At2, ToQuery
    <2> QED
      BY <1>1, <1>4, <2>1, BeginsBegins
  <1>10. CASE At3(off)
    <2>1. Begins(Sent, ToCarrier(off))
      BY <1>2, <1>10, SendsBegins, CommandsAreSignal DEF At3, ToCarrier
    <2> QED
      BY <1>1, <1>3, <2>1, BeginsBegins
  <1>11. CASE At4(off, on)
    BY <1>2, <1>11, BeginsWithItself DEF At4, Waits, ToSynch
  <1> QED
    BY <1>7, <1>8, <1>9, <1>10, <1>11 DEF SignalAt

LEMMA SentIsBursts ==
    ASSUME EncoderTypeOK, NEW k \in 0 .. 7, NEW on \in 0 .. MaxIdle, NEW r \in RN16s,
           NEW off \in 0 .. MaxIdle, SignalAt(k, off, on, r)
    PROVE  Begins(Sent, Bursts(off, on, r))
  <1>1. MaxIdle \in Nat /\ off \in Nat /\ on \in Nat /\ Sent \in Signal
    BY EncoderAssumption, SentIsSignal
  <1>2. /\ ToTimed(off) \in Signal /\ ToPreamble(off) \in Signal /\ ToQuery(off) \in Signal
        /\ ToCarrier(off) \in Signal /\ ToSynch(off, on) \in Signal
        /\ ToAck(off, on) \in Signal /\ ToIdle(off, on, r) \in Signal
    BY <1>1, BurstsAreSignal
  <1>3. Begins(ToIdle(off, on, r), Bursts(off, on, r))
    BY <1>1, BurstsAreSignal
  <1>4. Begins(ToAck(off, on), Bursts(off, on, r))
    BY <1>1, <1>2, <1>3, BurstsAreSignal, BeginsBegins
  <1>5. Begins(ToSynch(off, on), Bursts(off, on, r))
    BY <1>1, <1>2, <1>4, BurstsAreSignal, BeginsBegins
  <1>6. CASE k \in 0 .. 4
    <2>1. Begins(Sent, ToSynch(off, on))
      BY <1>6, SentToSynch
    <2> QED
      BY <1>1, <1>5, <2>1, BeginsBegins
  <1>7. CASE At5(off, on)
    <2>1. Begins(Sent, ToAck(off, on))
      BY <1>2, <1>7, SendsBegins, CodeIsSignal DEF At5, ToAck
    <2> QED
      BY <1>1, <1>4, <2>1, BeginsBegins
  <1>8. CASE At6(off, on, r)
    <2>1. Begins(Sent, ToIdle(off, on, r))
      BY <1>2, <1>8, SendsBegins, CommandsAreSignal DEF At6, ToIdle
    <2> QED
      BY <1>1, <1>3, <2>1, BeginsBegins
  <1>9. CASE At7(off, on, r)
    <2>1. /\ On - on \in Nat /\ On - on <= MaxIdle
          /\ Sent = ToIdle(off, on, r) \o Fill(On - on, 1)
      BY <1>1, <1>9 DEF At7, Waits, On, EncoderTypeOK
    <2>2. Begins(Fill(On - on, 1), Fill(MaxIdle, 1)) /\ Fill(On - on, 1) \in Signal
      BY <1>1, <2>1, FillBegins, FillFacts DEF Samples
    <2>3. Begins(ToIdle(off, on, r) \o Fill(On - on, 1), ToIdle(off, on, r) \o Fill(MaxIdle, 1))
      BY ONLY <1>2, <2>2, BeginsBehind
    <2> QED
      BY <2>1, <2>3 DEF Bursts
  <1> QED
    BY <1>6, <1>7, <1>8, <1>9 DEF SignalAt

LEMMA InvIsBursts == EncoderInv => WireIsBursts
  <1> SUFFICES ASSUME EncoderInv PROVE WireIsBursts
    OBVIOUS
  <1> PICK k \in 0 .. 7, off \in 0 .. MaxIdle, on \in 0 .. MaxIdle, r \in RN16s :
          SignalAt(k, off, on, r)
    BY DEF EncoderInv, RoundAt
  <1>1. EncoderTypeOK /\ wire \in Signal
    BY DEF EncoderInv, EncoderTypeOK
  <1>2. Begins(Sent, Bursts(off, on, r))
    BY <1>1, SentIsBursts
  <1>3. Begins(wire, Bursts(off, on, r))
    BY <1>1, <1>2, SentIsSignal, BeginsBegins
  <1>4. IsPrefix(wire, Bursts(off, on, r))
    BY <1>1, <1>3, BeginsIsPrefix
  <1> QED
    BY <1>1, <1>4
       DEF WireIsBursts, Bursts, ToIdle, ToAck, ToSynch, ToCarrier, ToQuery, ToPreamble, ToTimed

-----------------------------------------------------------------------------
\* What each kind of step sends, and the types it leaves.
LEMMA IdleSends ==
    ASSUME EncoderTypeOK, Idle, UNCHANGED wire
    PROVE  \E m \in Nat :
              /\ idle[d_state] + m <= MaxIdle /\ idle' = [idle EXCEPT ![d_state] = @ + m]
              /\ Sent' = Sent \o Fill(m, IF d_state = "ON_IDLE" THEN 1 ELSE 0)
              /\ output' \in Signal /\ Len(output') = Len(output) /\ nn' = Len(output')
              /\ idle' \in [{"OFF_IDLE", "ON_IDLE"} -> 0 .. MaxIdle]
  <1> DEFINE level == IF d_state = "ON_IDLE" THEN 1 ELSE 0
             x == Fill(Len(output) - nn, level)
             samples == Fill(Len(output), level)
  <1>1. /\ nn \in Nat /\ Len(output) \in Nat /\ Len(output) - nn \in Nat
        /\ nn + (Len(output) - nn) = Len(output) /\ level \in Samples
    BY DEF EncoderTypeOK, Signal, Samples
  <1>2. /\ Put(nn, Len(output), samples) /\ nn' = Len(output)
        /\ d_state \in {"OFF_IDLE", "ON_IDLE"}
        /\ idle[d_state] + Len(output) - nn <= MaxIdle
        /\ idle' = [idle EXCEPT ![d_state] = @ + Len(output) - nn]
    BY DEF Idle
  <1> HIDE DEF level
  <1>3. /\ samples \in Signal /\ x \in Signal /\ Len(x) = Len(output) - nn
        /\ \A i \in 1 .. Len(output) - nn : samples[i] = x[i]
    <2>1. /\ \A i \in 1 .. Len(output) : samples[i] = level
          /\ \A i \in 1 .. Len(output) - nn : x[i] = level
          /\ samples \in Signal /\ x \in Signal /\ Len(x) = Len(output) - nn
      BY <1>1, FillFacts
    <2> HIDE DEF samples, x
    <2>2. \A i \in 1 .. Len(output) - nn : i \in 1 .. Len(output)
      BY <1>1
    <2> QED
      BY <2>1, <2>2
  <1> HIDE DEF samples, x
  <1>4. /\ output' \in Signal /\ Len(output') = Len(output)
        /\ Sent' = Sent \o x
    <2> PICK m \in Nat : m = Len(output) - nn
      BY <1>1
    <2>1. /\ nn + m <= Len(output) /\ Put(nn, nn + m, samples) /\ nn' = nn + m
          /\ Len(x) = m /\ \A i \in 1 .. m : samples[i] = x[i]
      BY <1>1, <1>2, <1>3
    <2> QED
      BY <1>3, <2>1, PutAppends
  <1>5. /\ idle[d_state] \in 0 .. MaxIdle /\ idle \in [{"OFF_IDLE", "ON_IDLE"} -> 0 .. MaxIdle]
        /\ idle[d_state] + Len(output) - nn = idle[d_state] + (Len(output) - nn)
    BY <1>1, <1>2 DEF EncoderTypeOK
  <1>6. /\ idle[d_state] + (Len(output) - nn) <= MaxIdle
        /\ idle' = [idle EXCEPT ![d_state] = @ + (Len(output) - nn)]
    BY <1>2, <1>5
  <1>7. idle' \in [{"OFF_IDLE", "ON_IDLE"} -> 0 .. MaxIdle]
    <2>1. idle[d_state] + (Len(output) - nn) \in 0 .. MaxIdle
      BY <1>1, <1>5, <1>6, EncoderAssumption
    <2> QED
      BY <1>5, <1>6, <2>1
  <1> QED
    BY <1>1, <1>2, <1>4, <1>6, <1>7 DEF x, level

LEMMA OnTimedSends ==
    ASSUME EncoderTypeOK, FromTheBeginning, OnTimed, nn < Len(output), UNCHANGED wire
    PROVE  \/ d_counter = 0 /\ d_state' = "GET_TASK" /\ UNCHANGED <<nn, output, d_counter>>
           \/ \E m \in Nat :
                 /\ m <= d_counter /\ d_counter' = d_counter - m /\ d_state' = d_state
                 /\ d_counter' = 0 \/ nn' = Len(output')
                 /\ Sent' = Sent \o Fill(m, 1)
                 /\ output' \in Signal /\ Len(output') = Len(output) /\ nn' \in 0 .. Len(output')
  <1>1. /\ d_counter \in Nat /\ nn \in Nat /\ Len(output) \in Nat /\ d_state = "ON_TIMED"
    BY DEF EncoderTypeOK, Signal, OnTimed
  <1>2. CASE ~ (d_counter > 0)
    <2>1. d_counter = 0
      BY <1>1, <1>2
    <2> QED
      BY <1>2, <2>1 DEF OnTimed
  <1>3. CASE d_counter > 0
    <2> DEFINE m == Lesser(d_counter, Len(output) - nn)
               samples == Fill(Len(output), 1)
               x == Fill(m, 1)
    <2>1. /\ Put(nn, m, samples) /\ nn' = nn + m /\ d_counter' = d_counter - m
          /\ d_state' = d_state
      BY <1>3 DEF OnTimed
    <2>2. nn = 0
      BY <1>1, <1>3 DEF FromTheBeginning
    <2>3. /\ m \in Nat /\ m <= d_counter /\ m <= Len(output) /\ nn + m = m
          /\ m = d_counter \/ m = Len(output)
      BY <1>1, <2>2 DEF Lesser
    <2> HIDE DEF m
    <2>4. /\ x \in Signal /\ Len(x) = m /\ \A i \in 1 .. m : samples[i] = x[i]
      <3>1. /\ \A i \in 1 .. Len(output) : samples[i] = 1
            /\ \A i \in 1 .. m : x[i] = 1
            /\ x \in Signal /\ Len(x) = m
        BY <1>1, <2>3, FillFacts DEF Samples
      <3> HIDE DEF samples, x
      <3>2. \A i \in 1 .. m : i \in 1 .. Len(output)
        BY <1>1, <2>3
      <3> QED
        BY <3>1, <3>2
    <2> HIDE DEF x, samples
    <2>5. /\ output' \in Signal /\ Len(output') = Len(output) /\ nn' \in 0 .. Len(output')
          /\ Sent' = Sent \o x
      <3>1. nn + m <= Len(output) /\ Put(nn, nn + m, samples)
        BY <2>1, <2>3
      <3> QED
        BY <2>1, <2>3, <2>4, <3>1, PutAppends
    <2>6. d_counter' = 0 \/ nn' = Len(output')
      BY <1>1, <2>1, <2>3, <2>5
    <2> QED
      BY <2>1, <2>3, <2>5, <2>6 DEF x
  <1> QED
    BY <1>2, <1>3

LEMMA SamplesAreSent ==
    ASSUME EncoderTypeOK, SendSamples, nn < Len(output), UNCHANGED wire
    PROVE  \/ /\ d_counter >= Len(d_outgoing_frame) /\ d_state' = "GET_TASK"
              /\ UNCHANGED <<nn, output, d_counter>>
           \/ \E m \in Nat :
                 /\ d_counter + m <= Len(d_outgoing_frame) /\ d_counter' = d_counter + m
                 /\ d_state' = d_state
                 /\ Sent' = Sent \o SubSeq(d_outgoing_frame, d_counter + 1, d_counter + m)
                 /\ output' \in Signal /\ Len(output') = Len(output) /\ nn' \in 0 .. Len(output')
  <1>1. /\ d_counter \in Nat /\ nn \in Nat /\ Len(output) \in Nat /\ d_outgoing_frame \in Signal
        /\ Len(d_outgoing_frame) \in Nat
    BY DEF EncoderTypeOK, Signal
  <1>2. CASE ~ (d_counter < Len(d_outgoing_frame))
    <2>1. d_counter >= Len(d_outgoing_frame)
      BY <1>1, <1>2
    <2> QED
      BY <1>2, <2>1 DEF SendSamples
  <1>3. CASE d_counter < Len(d_outgoing_frame)
    <2> DEFINE m == Lesser(Len(d_outgoing_frame) - d_counter, Len(output) - nn)
               x == SubSeq(d_outgoing_frame, d_counter + 1, d_counter + m)
    <2>1. /\ Put(nn, nn + m, x) /\ nn' = nn + m /\ d_counter' = d_counter + m
          /\ d_state' = d_state
      BY <1>3 DEF SendSamples
    <2>2. /\ m \in Nat /\ d_counter + m <= Len(d_outgoing_frame) /\ nn + m <= Len(output)
      BY <1>1, <1>3 DEF Lesser
    <2> HIDE DEF m
    <2>3. x \in Signal /\ Len(x) = m
      <3>1. d_counter \in 0 .. Len(d_outgoing_frame)
        BY <1>1, <1>3
      <3> QED
        BY <1>1, <2>2, <3>1, StartBegins
    <2> HIDE DEF x
    <2>4. /\ output' \in Signal /\ Len(output') = Len(output) /\ nn' \in 0 .. Len(output')
          /\ Sent' = Sent \o x
      BY <2>1, <2>2, <2>3, PutAppends
    <2> QED
      BY <2>1, <2>2, <2>4 DEF x
  <1> QED
    BY <1>2, <1>3

-----------------------------------------------------------------------------
LEMMA EncoderTypes ==
    ASSUME EncoderTypeOK, FromTheBeginning, [Next]_vars
    PROVE  EncoderTypeOK'
  <1> USE DEF EncoderTypeOK
  <1>1. CASE MacQueues
    <2>1. /\ encoder_queue \in Seq(EncoderTasks) /\ pending \in Seq(EncoderTasks)
          /\ pending # << >>
      BY <1>1 DEF MacQueues
    <2>2. encoder_queue' \in Seq(EncoderTasks) /\ pending' \in Seq(EncoderTasks)
      BY <1>1, <2>1 DEF MacQueues
    <2>3. UNCHANGED <<d_state, d_counter, d_outgoing_frame, working, nn, output, wire, idle>>
      BY <1>1 DEF MacQueues
    <2> QED
      BY <2>2, <2>3
  <1>2. CASE BeginWork
    <2>1. PICK n \in Room : output' = Fill(n, Stale)
      BY <1>2 DEF BeginWork
    <2>2. output' \in Signal /\ Len(output') \in Nat
      BY <2>1, EncoderAssumption, FillFacts DEF Stale, Samples
    <2>3. /\ nn' = 0 /\ working' = TRUE
          /\ UNCHANGED <<d_state, d_counter, d_outgoing_frame, encoder_queue, pending, wire, idle>>
      BY <1>2 DEF BeginWork
    <2> QED
      BY <2>2, <2>3
  <1>3. CASE EndWork
    <2>1. wire' = Sent /\ Sent \in Signal
      BY <1>3, SentIsSignal DEF EndWork, Sent
    <2>2. output' \in Signal /\ nn' \in 0 .. Len(output')
      <3>1. << >> \in Signal /\ 0 \in 0 .. Len(<< >>)
        BY DEF Signal
      <3> QED
        BY <1>3, <3>1, Zenon DEF EndWork
    <2>3. /\ nn' = 0 /\ output' = << >> /\ working' = FALSE
          /\ UNCHANGED <<d_state, d_counter, d_outgoing_frame, encoder_queue, pending, idle>>
      BY <1>3 DEF EndWork
    <2> QED
      BY <2>1, <2>2, <2>3
  <1>4. CASE Loop
    <2>1. working /\ nn < Len(output) /\ UNCHANGED <<pending, working, wire>>
      BY <1>4 DEF Loop
    <2>2. CASE GetTask
      <3> DEFINE task == Head(encoder_queue)
      <3>1. task \in EncoderTasks /\ encoder_queue' \in Seq(EncoderTasks)
        BY <2>2 DEF GetTask
      <3>2. decode_task(task) /\ UNCHANGED <<nn, output, idle>>
        BY <2>2 DEF GetTask
      <3> HIDE DEF task
      <3>3. bit_to_pie(task.data) \in Signal /\ task.len \in Nat
        <4>1. task.data \in {<< >>, QueryBits} \cup {AckBits(r) : r \in RN16s} /\ task.len \in {0, Carrier}
          BY <3>1 DEF EncoderTasks
        <4>2. << >> \in Seq({0, 1})
          OBVIOUS
        <4>3. bit_to_pie(<< >>) \in Signal
          BY <4>2, BitsAreSignal
        <4> QED
          BY <4>1, <4>3, CommandsAreSignal, EncoderAssumption
      <3>4. d_state' \in States /\ d_counter' \in Nat /\ d_outgoing_frame' \in Signal
        BY <3>2, <3>3, CodeIsSignal DEF decode_task, States
      <3> QED
        BY <2>1, <3>1, <3>2, <3>4
    <2>3. CASE Idle
      <3>1. UNCHANGED <<d_state, d_counter, d_outgoing_frame, encoder_queue>>
        BY <2>3 DEF Idle
      <3>2. PICK m \in Nat :
               /\ output' \in Signal /\ Len(output') = Len(output) /\ nn' = Len(output')
               /\ idle' \in [{"OFF_IDLE", "ON_IDLE"} -> 0 .. MaxIdle]
        BY <2>1, <2>3, IdleSends
      <3>3. nn' \in 0 .. Len(output')
        BY <3>2 DEF Signal
      <3> QED
        BY <2>1, <3>1, <3>2, <3>3
    <2>4. CASE OnTimed
      <3>1. UNCHANGED <<d_outgoing_frame, encoder_queue, idle>>
        BY <2>4 DEF OnTimed
      <3>2. /\ output' \in Signal /\ nn' \in 0 .. Len(output')
            /\ d_counter' \in Nat /\ d_state' \in States
        BY <2>1, <2>4, OnTimedSends DEF States
      <3> QED
        BY <2>1, <3>1, <3>2
    <2>5. CASE SendSamples
      <3>1. UNCHANGED <<d_outgoing_frame, encoder_queue, idle>>
        BY <2>5 DEF SendSamples
      <3>2. /\ output' \in Signal /\ nn' \in 0 .. Len(output')
            /\ d_counter' \in Nat /\ d_state' \in States
        BY <2>1, <2>5, SamplesAreSent DEF States
      <3> QED
        BY <2>1, <3>1, <3>2
    <2> QED
      BY <1>4, <2>2, <2>3, <2>4, <2>5 DEF Loop
  <1>5. CASE UNCHANGED vars
    BY <1>5 DEF vars
  <1> QED
    BY <1>1, <1>2, <1>3, <1>4, <1>5 DEF Next, general_work

LEMMA StartsBuffers ==
    ASSUME EncoderTypeOK, FromTheBeginning, [Next]_vars,
           NEW k \in 0 .. 7, NEW off, NEW on, NEW r \in RN16s, RoundAt(k, off, on, r)
    PROVE  FromTheBeginning'
  <1>1. CASE MacQueues
    BY <1>1 DEF MacQueues, FromTheBeginning
  <1>2. CASE BeginWork
    BY <1>2 DEF BeginWork, FromTheBeginning
  <1>3. CASE EndWork
    BY <1>3 DEF EndWork, FromTheBeginning
  <1>4. CASE Loop
    <2>1. nn < Len(output) /\ UNCHANGED wire
      BY <1>4 DEF Loop
    <2>2. CASE GetTask
      <3>1. decode_task(Head(encoder_queue)) /\ UNCHANGED <<nn, output>>
        BY <2>2 DEF GetTask
      <3>2. CASE k = 0
        <4>1. nn = 0
          BY <2>1, <3>2 DEF RoundAt, SignalAt, At0, FromTheBeginning, EncoderTypeOK
        <4> QED
          BY <3>1, <4>1 DEF FromTheBeginning
      <3>3. CASE k # 0
        <4>1. UNCHANGED pending /\ encoder_queue # << >> /\ encoder_queue' = Tail(encoder_queue)
          BY <1>4, <2>2 DEF Loop, GetTask
        <4>2. k < 7 /\ Head(encoder_queue) = Round(r)[k + 1]
          BY <4>1, TakingMovesQueue DEF RoundAt
        <4>3. Head(encoder_queue).cmd # "TURN_ON_TIMED"
          <5>1. k = 1 \/ k = 2 \/ k = 3 \/ k = 4 \/ k = 5 \/ k = 6
            BY <3>3, <4>2
          <5> QED
            BY <4>2, <5>1, RoundTasks
        <4>4. d_state' \in {"ON_IDLE", "SEND_SAMPLES"}
          BY <3>1, <4>3 DEF decode_task
        <4> QED
          BY <4>4 DEF FromTheBeginning
      <3> QED
        BY <3>2, <3>3
    <2>3. CASE Idle
      BY <2>1, <2>3, IdleSends DEF FromTheBeginning
    <2>4. CASE OnTimed
      <3>1. d_state = "ON_TIMED"
        BY <2>4 DEF OnTimed
      <3> QED
        BY <2>1, <2>4, <3>1, OnTimedSends DEF FromTheBeginning
    <2>5. CASE SendSamples
      <3>1. d_state = "SEND_SAMPLES"
        BY <2>5 DEF SendSamples
      <3> QED
        BY <2>1, <2>5, <3>1, SamplesAreSent DEF FromTheBeginning
    <2> QED
      BY <1>4, <2>2, <2>3, <2>4, <2>5 DEF Loop
  <1>5. CASE UNCHANGED vars
    BY <1>5 DEF vars, FromTheBeginning
  <1> QED
    BY <1>1, <1>2, <1>3, <1>4, <1>5 DEF Next, general_work

-----------------------------------------------------------------------------
\* A step goes on with the burst, or takes the next task.
LEMMA FrameGoesOn ==
    ASSUME EncoderTypeOK, SendSamples, nn < Len(output), UNCHANGED wire,
           NEW p \in Signal, NEW frame \in Signal, Sends(p, frame)
    PROVE  Sends(p, frame)'
  <1>1. /\ d_state = "SEND_SAMPLES" /\ d_outgoing_frame = frame /\ d_outgoing_frame' = frame
        /\ d_counter \in Nat /\ d_counter <= Len(frame) /\ Len(frame) \in Nat
        /\ Sent = p \o SubSeq(frame, 1, d_counter)
    <2>1. d_state = "SEND_SAMPLES" /\ d_outgoing_frame' = d_outgoing_frame
      BY DEF SendSamples
    <2>2. /\ d_outgoing_frame = frame /\ d_counter <= Len(frame)
          /\ Sent = p \o SubSeq(frame, 1, d_counter)
      BY <2>1 DEF Sends
    <2>3. d_counter \in Nat /\ Len(frame) \in Nat
      BY DEF EncoderTypeOK, Signal
    <2> QED
      BY <2>1, <2>2, <2>3
  <1>2. CASE /\ d_counter >= Len(frame) /\ d_state' = "GET_TASK"
             /\ UNCHANGED <<nn, output, d_counter>>
    <2>1. SubSeq(frame, 1, Len(frame)) = frame /\ d_counter = Len(frame)
      BY <1>1, <1>2, SubSeqFull DEF Signal
    <2>2. Sent' = Sent
      BY <1>2 DEF Sent
    <2> QED
      BY <1>1, <1>2, <2>1, <2>2 DEF Sends
  <1>3. CASE \E m \in Nat :
                 /\ d_counter + m <= Len(frame) /\ d_counter' = d_counter + m
                 /\ d_state' = d_state
                 /\ Sent' = Sent \o SubSeq(frame, d_counter + 1, d_counter + m)
    <2> PICK m \in Nat :
                 /\ d_counter + m <= Len(frame) /\ d_counter' = d_counter + m
                 /\ d_state' = d_state
                 /\ Sent' = Sent \o SubSeq(frame, d_counter + 1, d_counter + m)
      BY <1>3
    <2> PICK c \in 0 .. Len(frame) : c = d_counter
      BY <1>1
    <2>1. /\ SubSeq(frame, 1, c) \in Signal /\ SubSeq(frame, c + 1, c + m) \in Signal
          /\ SubSeq(frame, 1, c) \o SubSeq(frame, c + 1, c + m) = SubSeq(frame, 1, c + m)
      BY StartBegins
    <2>2. Sent' = (p \o SubSeq(frame, 1, c)) \o SubSeq(frame, c + 1, c + m)
      BY <1>1
    <2>3. (p \o SubSeq(frame, 1, c)) \o SubSeq(frame, c + 1, c + m) = p \o SubSeq(frame, 1, c + m)
      <3>1. PICK a \in Signal, b \in Signal :
                /\ a = SubSeq(frame, 1, c) /\ b = SubSeq(frame, c + 1, c + m)
        BY <2>1
      <3>2. (p \o a) \o b = p \o (a \o b)
        BY ONLY Associates, p \in Signal, a \in Signal, b \in Signal
      <3> QED
        BY <2>1, <3>1, <3>2
    <2>4. Sent' = p \o SubSeq(frame, 1, d_counter')
      BY <2>2, <2>3
    <2> QED
      BY <1>1, <2>4 DEF Sends
  <1> QED
    BY <1>1, <1>2, <1>3, SamplesAreSent

LEMMA CarrierGoesOn ==
    ASSUME EncoderTypeOK, FromTheBeginning, OnTimed, nn < Len(output), UNCHANGED wire,
           NEW p \in Signal, IsTimed(p)
    PROVE  IsTimed(p)'
  <1>1. /\ d_state = "ON_TIMED" /\ d_counter \in Nat /\ d_counter <= Carrier /\ Carrier \in Nat
        /\ Sent = p \o Fill(Carrier - d_counter, 1)
    BY EncoderAssumption DEF OnTimed, IsTimed, EncoderTypeOK
  <1>2. CASE d_counter = 0 /\ d_state' = "GET_TASK" /\ UNCHANGED <<nn, output, d_counter>>
    <2>1. Sent' = Sent
      BY <1>2 DEF Sent
    <2>2. Carrier - d_counter = Carrier
      BY <1>1, <1>2
    <2> QED
      BY <1>1, <1>2, <2>1, <2>2 DEF IsTimed
  <1>3. CASE \E m \in Nat :
                 /\ m <= d_counter /\ d_counter' = d_counter - m /\ d_state' = d_state
                 /\ Sent' = Sent \o Fill(m, 1)
    <2> PICK m \in Nat :
                 /\ m <= d_counter /\ d_counter' = d_counter - m /\ d_state' = d_state
                 /\ Sent' = Sent \o Fill(m, 1)
      BY <1>3
    <2>1. /\ Carrier - d_counter \in Nat /\ (Carrier - d_counter) + m = Carrier - d_counter'
          /\ d_counter' <= Carrier /\ 1 \in Samples
      BY <1>1 DEF Samples
    <2>2. Sent' = p \o Fill(Carrier - d_counter', 1)
      <3> PICK a \in Nat : a = Carrier - d_counter
        BY <2>1
      <3>1. (p \o Fill(a, 1)) \o Fill(m, 1) = p \o Fill(a + m, 1)
        BY <2>1, Grows
      <3> QED
        BY <1>1, <2>1, <3>1
    <2> QED
      BY <1>1, <2>1, <2>2 DEF IsTimed
  <1> QED
    BY <1>2, <1>3, OnTimedSends

LEMMA SignalStays ==
    ASSUME NEW k, NEW off, NEW on, NEW r, SignalAt(k, off, on, r),
           Sent' = Sent, UNCHANGED <<d_state, d_counter, d_outgoing_frame, idle>>
    PROVE  SignalAt(k, off, on, r)'
  <1>1. /\ At0(off) => At0(off)'
        /\ At1(off) => At1(off)'
        /\ At2(off) => At2(off)'
        /\ At3(off) => At3(off)'
    BY DEF At0, At1, At2, At3, Sends, IsTimed, On
  <1>2. /\ At4(off, on) => At4(off, on)'
        /\ At5(off, on) => At5(off, on)'
        /\ At6(off, on, r) => At6(off, on, r)'
        /\ At7(off, on, r) => At7(off, on, r)'
    BY DEF At4, At5, At6, At7, Sends, Waits, On
  <1> QED
    BY <1>1, <1>2 DEF SignalAt

\* Of the steps that send, only waiting counts the samples.
LEMMA SendingGoesOn ==
    ASSUME EncoderTypeOK, FromTheBeginning, OnTimed \/ SendSamples,
           nn < Len(output), UNCHANGED wire,
           NEW k \in 0 .. 7, NEW off \in 0 .. MaxIdle, NEW on \in 0 .. MaxIdle, NEW r \in RN16s,
           SignalAt(k, off, on, r)
    PROVE  SignalAt(k, off, on, r)'
  <1>1. MaxIdle \in Nat /\ off \in Nat /\ on \in Nat /\ idle' = idle
    BY EncoderAssumption DEF OnTimed, SendSamples
  <1>2. /\ ToTimed(off) \in Signal /\ ToPreamble(off) \in Signal /\ ToQuery(off) \in Signal
        /\ ToSynch(off, on) \in Signal /\ ToAck(off, on) \in Signal
    BY <1>1, BurstsAreSignal
  <1>3. CASE d_state = "ON_TIMED" /\ OnTimed
    <2>1. k = 1 /\ At1(off)
      BY <1>3 DEF SignalAt, At0, At1, At2, At3, At4, At5, At6, At7, Sends, IsTimed, Waits
    <2>2. At1(off)'
      BY <1>1, <1>2, <1>3, <2>1, CarrierGoesOn DEF At1, On
    <2> QED
      BY <2>1, <2>2 DEF SignalAt
  <1>4. CASE d_state = "SEND_SAMPLES" /\ SendSamples
    <2>1. \/ k = 2 /\ At2(off)
          \/ k = 3 /\ At3(off)
          \/ k = 5 /\ At5(off, on)
          \/ k = 6 /\ At6(off, on, r)
      BY <1>4 DEF SignalAt, At0, At1, At2, At3, At4, At5, At6, At7, Sends, IsTimed, Waits
    <2>2. At2(off) => At2(off)'
      BY <1>1, <1>2, <1>4, FrameGoesOn, CodeIsSignal DEF At2, On
    <2>3. At3(off) => At3(off)'
      BY <1>1, <1>2, <1>4, FrameGoesOn, CommandsAreSignal DEF At3, On
    <2>4. At5(off, on) => At5(off, on)'
      BY <1>1, <1>2, <1>4, FrameGoesOn, CodeIsSignal DEF At5, On
    <2>5. At6(off, on, r) => At6(off, on, r)'
      BY <1>1, <1>2, <1>4, FrameGoesOn, CommandsAreSignal DEF At6, On
    <2> QED
      BY <2>1, <2>2, <2>3, <2>4, <2>5 DEF SignalAt
  <1> QED
    BY <1>3, <1>4 DEF OnTimed, SendSamples

LEMMA WaitingGoesOn ==
    ASSUME EncoderTypeOK, Idle, UNCHANGED wire,
           NEW k \in 0 .. 7, NEW off \in 0 .. MaxIdle, NEW on \in 0 .. MaxIdle, NEW r \in RN16s,
           off = idle["OFF_IDLE"], SignalAt(k, off, on, r)
    PROVE  \E off1 \in 0 .. MaxIdle, on1 \in 0 .. MaxIdle :
              off1 = idle'["OFF_IDLE"] /\ SignalAt(k, off1, on1, r)'
  <1>1. /\ MaxIdle \in Nat /\ off \in Nat /\ on \in Nat /\ 0 \in Samples /\ 1 \in Samples
        /\ idle \in [{"OFF_IDLE", "ON_IDLE"} -> 0 .. MaxIdle] /\ On \in 0 .. MaxIdle
    BY EncoderAssumption DEF EncoderTypeOK, On, Samples
  <1>2. d_state \in {"OFF_IDLE", "ON_IDLE"} /\ d_state' = d_state
    BY DEF Idle
  <1> PICK m \in Nat :
        /\ idle[d_state] + m <= MaxIdle /\ idle' = [idle EXCEPT ![d_state] = @ + m]
        /\ Sent' = Sent \o Fill(m, IF d_state = "ON_IDLE" THEN 1 ELSE 0)
    BY IdleSends
  <1>3. CASE d_state = "OFF_IDLE"
    <2>1. k = 0 /\ At0(off)
      BY <1>3 DEF SignalAt, At0, At1, At2, At3, At4, At5, At6, At7, Sends, IsTimed, Waits
    <2>2. off + m \in 0 .. MaxIdle /\ off + m = idle'["OFF_IDLE"] /\ On' = On
      BY <1>1, <1>3 DEF On
    <2>3. Sent' = ToTimed(off + m)
      BY <1>1, <1>3, <2>1, FillGrows DEF At0, ToTimed
    <2>4. At0(off + m)'
      BY <1>2, <1>3, <2>1, <2>2, <2>3 DEF At0
    <2>5. SignalAt(k, off + m, on, r)'
      BY <2>1, <2>4 DEF SignalAt
    <2> QED
      BY <2>2, <2>5
  <1>4. CASE d_state = "ON_IDLE"
    <2>1. \/ k = 4 /\ At4(off, on)
          \/ k = 7 /\ At7(off, on, r)
      BY <1>4 DEF SignalAt, At0, At1, At2, At3, At4, At5, At6, At7, Sends, IsTimed, Waits
    <2>2. /\ off = idle'["OFF_IDLE"] /\ On' = On + m /\ On + m <= MaxIdle
          /\ Sent' = Sent \o Fill(m, 1)
      BY <1>1, <1>4 DEF On
    <2>3. CASE k = 4 /\ At4(off, on)
      <3>1. on + m \in 0 .. MaxIdle /\ On' = on + m
        BY <1>1, <2>2, <2>3 DEF At4
      <3>2. Sent' = ToCarrier(off) \o Fill(on + m, 1)
        <4>1. Sent' = (ToCarrier(off) \o Fill(on, 1)) \o Fill(m, 1)
          BY <2>2, <2>3 DEF At4, Waits
        <4>2. ToCarrier(off) \in Signal
          BY <1>1, BurstsAreSignal
        <4> QED
          <5>1. m \in Nat /\ on \in Nat /\ 1 \in Samples
            BY <1>1
          <5> PICK p \in Signal : p = ToCarrier(off)
            BY <4>2
          <5>2. (p \o Fill(on, 1)) \o Fill(m, 1) = p \o Fill(on + m, 1)
            BY ONLY <5>1, Grows, p \in Signal
          <5> QED
            BY <4>1, <5>2
      <3>3. At4(off, on + m)'
        BY <1>2, <1>4, <3>1, <3>2 DEF At4, Waits
      <3>4. SignalAt(k, off, on + m, r)'
        BY <2>3, <3>3 DEF SignalAt
      <3> QED
        BY <2>2, <3>1, <3>4
    <2>4. CASE k = 7 /\ At7(off, on, r)
      <3> PICK w \in Nat : w = On - on
        BY <1>1, <2>4 DEF At7
      <3>1. On' - on = w + m /\ on <= On'
        BY <1>1, <2>2, <2>4 DEF At7
      <3>2. Sent' = ToIdle(off, on, r) \o Fill(w + m, 1)
        <4>1. Sent' = (ToIdle(off, on, r) \o Fill(w, 1)) \o Fill(m, 1)
          BY <2>2, <2>4 DEF At7, Waits
        <4>2. ToIdle(off, on, r) \in Signal
          BY <1>1, BurstsAreSignal
        <4> QED
          <5>1. m \in Nat /\ w \in Nat /\ 1 \in Samples
            BY <1>1
          <5> PICK p \in Signal : p = ToIdle(off, on, r)
            BY <4>2
          <5>2. (p \o Fill(w, 1)) \o Fill(m, 1) = p \o Fill(w + m, 1)
            BY ONLY <5>1, Grows, p \in Signal
          <5> QED
            BY <4>1, <5>2
      <3>3. At7(off, on, r)'
        BY <1>2, <1>4, <2>4, <3>1, <3>2 DEF At7, Waits
      <3>4. SignalAt(k, off, on, r)'
        BY <2>4, <3>3 DEF SignalAt
      <3> QED
        BY <2>2, <3>4
    <2> QED
      BY <2>1, <2>3, <2>4
  <1> QED
    BY <1>2, <1>3, <1>4

\* A frame that begins: nothing of it is sent.
LEMMA FrameBegins ==
    ASSUME NEW p \in Signal, NEW frame \in Signal, Sent = p, Sent' = Sent,
           d_state' = "SEND_SAMPLES", d_counter' = 0, d_outgoing_frame' = frame
    PROVE  Sends(p, frame)'
  <1>1. SubSeq(frame, 1, 0) = << >>
    BY SubSeqEmpty
  <1>2. p \o << >> = p
    BY ConcatEmptySeq DEF Signal
  <1>3. 0 <= Len(frame)
    BY DEF Signal
  <1> QED
    BY <1>1, <1>2, <1>3 DEF Sends

LEMMA FillOfNone ==
    ASSUME NEW p \in Signal, NEW v \in Samples
    PROVE  p \o Fill(0, v) = p
  <1>1. Fill(0, v) \in Signal /\ Len(Fill(0, v)) = 0
    BY FillFacts
  <1>2. Fill(0, v) = << >>
    BY <1>1, EmptySeq DEF Signal
  <1> QED
    BY <1>2, ConcatEmptySeq DEF Signal

LEMMA TaskBegins ==
    ASSUME EncoderTypeOK, GetTask, UNCHANGED <<pending, wire>>,
           NEW k \in 0 .. 7, NEW off \in 0 .. MaxIdle, NEW on \in 0 .. MaxIdle, NEW r \in RN16s,
           QueueAt(k, r), SignalAt(k, off, on, r), AnswerFirst
    PROVE  /\ k < 7 /\ QueueAt(k + 1, r)'
           /\ \E on1 \in 0 .. MaxIdle : SignalAt(k + 1, off, on1, r)'
  <1>1. /\ d_state \in {"OFF_IDLE", "ON_IDLE", "GET_TASK"} /\ encoder_queue # << >>
        /\ decode_task(Head(encoder_queue)) /\ encoder_queue' = Tail(encoder_queue)
        /\ Sent' = Sent /\ On' = On
    BY DEF GetTask, Sent, On
  <1>2. k < 7 /\ QueueAt(k + 1, r)' /\ Head(encoder_queue) = Round(r)[k + 1]
    BY <1>1, TakingMovesQueue
  <1>3. decode_task(Round(r)[k + 1])
    BY <1>1, <1>2
  <1>4. /\ MaxIdle \in Nat /\ 0 \in 0 .. MaxIdle /\ off \in Nat /\ on \in Nat /\ Carrier \in Nat
        /\ 1 \in Samples
    BY EncoderAssumption DEF Samples
  <1>5. /\ ToTimed(off) \in Signal /\ ToPreamble(off) \in Signal /\ ToQuery(off) \in Signal
        /\ ToCarrier(off) \in Signal /\ ToSynch(off, on) \in Signal
        /\ ToAck(off, on) \in Signal /\ ToIdle(off, on, r) \in Signal
    BY <1>4, BurstsAreSignal
  <1> USE DEF SignalAt
  <1>6. CASE k = 0 /\ At0(off)
    <2>1. d_state' = "ON_TIMED" /\ d_counter' = Carrier
      BY <1>3, <1>6, RoundTasks DEF decode_task
    <2>2. Carrier - d_counter' = 0 /\ d_counter' <= Carrier
      BY <1>4, <2>1
    <2>3. Sent' = ToTimed(off) \o Fill(Carrier - d_counter', 1)
      BY <1>1, <1>4, <1>5, <1>6, <2>2, FillOfNone DEF At0
    <2>4. At1(off)'
      BY <1>1, <1>6, <2>1, <2>2, <2>3 DEF At0, At1, IsTimed
    <2> QED
      BY <1>2, <1>6, <2>4
  <1>7. CASE k = 1 /\ At1(off)
    <2>1. d_state' = "SEND_SAMPLES" /\ d_counter' = 0 /\ d_outgoing_frame' = d_preamble
      BY <1>3, <1>7, RoundTasks DEF decode_task
    <2>2. Sent = ToPreamble(off)
      BY <1>1, <1>7 DEF At1, IsTimed, ToPreamble
    <2>3. At2(off)'
      BY <1>1, <1>5, <1>7, <2>1, <2>2, FrameBegins, CodeIsSignal DEF At1, At2
    <2> QED
      BY <1>2, <1>7, <2>3
  <1>8. CASE k = 2 /\ At2(off)
    <2>1. /\ d_state' = "SEND_SAMPLES" /\ d_counter' = 0
          /\ d_outgoing_frame' = bit_to_pie(QueryBits)
      BY <1>3, <1>8, RoundTasks DEF decode_task
    <2>2. Sent = ToQuery(off)
      BY <1>1, <1>8 DEF At2, Sends, ToQuery
    <2>3. At3(off)'
      BY <1>1, <1>5, <1>8, <2>1, <2>2, FrameBegins, CommandsAreSignal DEF At2, At3
    <2> QED
      BY <1>2, <1>8, <2>3
  <1>9. CASE k = 3 /\ At3(off)
    <2>1. d_state' = "ON_IDLE"
      BY <1>3, <1>9, RoundTasks DEF decode_task
    <2>2. Sent = ToCarrier(off)
      BY <1>1, <1>9 DEF At3, Sends, ToCarrier
    <2>3. At4(off, 0)'
      BY <1>1, <1>4, <1>5, <1>9, <2>1, <2>2, FillOfNone DEF At3, At4, Waits
    <2>4. SignalAt(k + 1, off, 0, r)'
      BY <1>9, <2>3
    <2> QED
      BY <1>2, <1>4, <2>4
  <1>10. CASE k = 4 /\ At4(off, on)
    <2>1. d_state' = "SEND_SAMPLES" /\ d_counter' = 0 /\ d_outgoing_frame' = d_framesync
      BY <1>3, <1>10, RoundTasks DEF decode_task
    <2>2. Sent = ToSynch(off, on)
      BY <1>10 DEF At4, Waits, ToSynch
    <2>3. Len(pending) < 3
      <3>1. Len(encoder_queue) \in Nat \ {0} /\ Len(pending) \in Nat
        BY <1>1 DEF EncoderTypeOK
      <3> QED
        BY <1>10, <3>1 DEF QueueAt
    <2>4. on > 0
      BY <1>10, <2>3 DEF AnswerFirst, At4
    <2>5. At5(off, on)'
      BY <1>1, <1>5, <1>10, <2>1, <2>2, <2>4, FrameBegins, CodeIsSignal DEF At4, At5
    <2> QED
      BY <1>2, <1>10, <2>5
  <1>11. CASE k = 5 /\ At5(off, on)
    <2>1. /\ d_state' = "SEND_SAMPLES" /\ d_counter' = 0
          /\ d_outgoing_frame' = bit_to_pie(AckBits(r))
      BY <1>3, <1>11, RoundTasks DEF decode_task
    <2>2. Sent = ToAck(off, on)
      BY <1>1, <1>11 DEF At5, Sends, ToAck
    <2>3. At6(off, on, r)'
      BY <1>1, <1>5, <1>11, <2>1, <2>2, FrameBegins, CommandsAreSignal DEF At5, At6
    <2> QED
      BY <1>2, <1>11, <2>3
  <1>12. CASE k = 6 /\ At6(off, on, r)
    <2>1. d_state' = "ON_IDLE"
      BY <1>3, <1>12, RoundTasks DEF decode_task
    <2>2. Sent = ToIdle(off, on, r)
      BY <1>1, <1>12 DEF At6, Sends, ToIdle
    <2>3. On' - on = 0 /\ on <= On' /\ on > 0
      BY <1>1, <1>4, <1>12 DEF At6
    <2>4. At7(off, on, r)'
      BY <1>1, <1>4, <1>5, <2>1, <2>2, <2>3, FillOfNone DEF At7, Waits
    <2> QED
      BY <1>2, <1>12, <2>4
  <1> QED
    BY <1>2, <1>6, <1>7, <1>8, <1>9, <1>10, <1>11, <1>12

-----------------------------------------------------------------------------
LEMMA EncoderStarts == Init => EncoderInv
  <1> SUFFICES ASSUME Init PROVE EncoderInv
    OBVIOUS
  <1> PICK r \in RN16s : pending = Query \o Ack(r)
    BY DEF Init
  <1>1. pending = Round(r) /\ encoder_queue = << >> /\ Len(encoder_queue) = 0
    BY DEF Init, Round
  <1>2. pending \in Seq(EncoderTasks) /\ QueueAt(0, r)
    <2>1. Round(r) \in Seq(EncoderTasks) /\ Len(Round(r)) = 7
      BY RoundTasks
    <2>2. \A i \in 1 .. 7 : 0 + 0 + i = i
      OBVIOUS
    <2>3. Len(pending) = 7 /\ pending \in Seq(EncoderTasks)
      BY <1>1, <2>1
    <2> QED
      BY <1>1, <2>2, <2>3 DEF QueueAt
  <1>3. << >> \in Signal /\ Len(<< >>) = 0 /\ << >> \in Seq(EncoderTasks) /\ MaxIdle \in Nat
    BY EncoderAssumption DEF Signal
  <1>4. /\ d_state = "OFF_IDLE" /\ d_counter = 0 /\ d_outgoing_frame = << >>
        /\ working = FALSE /\ nn = 0 /\ output = << >> /\ wire = << >>
        /\ idle = [s \in {"OFF_IDLE", "ON_IDLE"} |-> 0]
    BY DEF Init
  <1>5. EncoderTypeOK
    <2>1. nn \in 0 .. Len(output)
      BY <1>3, <1>4
    <2>2. idle \in [{"OFF_IDLE", "ON_IDLE"} -> 0 .. MaxIdle]
      BY <1>3, <1>4
    <2> QED
      BY <1>1, <1>2, <1>3, <1>4, <2>1, <2>2 DEF EncoderTypeOK, States
  <1>6. At0(0)
    <2>1. SubSeq(output, 1, 0) = << >>
      BY SubSeqEmpty
    <2>2. Sent = << >>
      BY <1>3, <1>4, <2>1, ConcatEmptySeq DEF Sent, Signal
    <2>3. Fill(0, 0) = << >>
      <3>1. Fill(0, 0) \in Signal /\ Len(Fill(0, 0)) = 0
        BY FillFacts DEF Samples
      <3> QED
        BY <3>1, EmptySeq DEF Signal
    <2> QED
      BY <1>4, <2>2, <2>3 DEF At0, ToTimed, On
  <1>7. RoundAt(0, 0, 0, r)
    BY <1>2, <1>4, <1>6 DEF RoundAt, SignalAt
  <1>8. FromTheBeginning /\ AnswerFirst
    <2>1. Len(pending) = 7
      BY <1>1, RoundTasks
    <2> QED
      BY <1>4, <2>1 DEF FromTheBeginning, AnswerFirst
  <1>9. 0 \in 0 .. MaxIdle
    BY <1>3
  <1> QED
    BY <1>5, <1>7, <1>8, <1>9 DEF EncoderInv

LEMMA AnswerStaysFirst ==
    ASSUME EncoderTypeOK, FromTheBeginning, AnswerFirst, [Next]_vars,
           NEW k \in 0 .. 7, NEW r \in RN16s, QueueAt(k, r)
    PROVE  AnswerFirst'
  <1>1. On \in Nat /\ pending \in Seq(EncoderTasks) /\ Len(pending) \in Nat
    BY EncoderAssumption DEF EncoderTypeOK, On
  <1>2. CASE MacQueues
    <2>1. On' = On /\ Len(pending') = Len(pending) - 1
      BY <1>1, <1>2 DEF MacQueues, On
    <2>2. CASE Len(pending) = 3
      <3>1. 1 \in 1 .. Len(pending) /\ Head(pending) = pending[1]
        BY <1>1, <2>2
      <3>2. k + Len(encoder_queue) + 1 = 5
        <4>1. Len(encoder_queue) \in Nat
          BY DEF EncoderTypeOK
        <4> QED
          BY <2>2, <4>1 DEF QueueAt
      <3>3. pending[1] = Round(r)[k + Len(encoder_queue) + 1]
        BY <3>1 DEF QueueAt
      <3>4. Head(pending).cmd = "FRAME_SYNCH"
        BY <3>1, <3>2, <3>3, RoundTasks
      <3> QED
        BY <1>1, <1>2, <2>1, <3>4 DEF MacQueues, Answered, AnswerFirst, On
    <2>3. CASE Len(pending) # 3
      BY <1>1, <2>1, <2>3 DEF AnswerFirst
    <2> QED
      BY <2>2, <2>3
  <1>3. CASE UNCHANGED pending /\ On' >= On
    <2>1. On' \in Int
      <3>1. EncoderTypeOK'
        BY EncoderTypes
      <3> QED
        BY <3>1, EncoderAssumption DEF EncoderTypeOK, On
    <2> QED
      BY <1>1, <1>3, <2>1 DEF AnswerFirst
  <1>4. CASE Loop
    <2>1. CASE Idle
      <3> PICK m \in Nat : idle' = [idle EXCEPT ![d_state] = @ + m]
        BY <1>4, <2>1, IdleSends DEF Loop
      <3>1. On' >= On
        BY <1>1 DEF EncoderTypeOK, On
      <3> QED
        BY <1>3, <1>4, <3>1 DEF Loop
    <2>2. CASE GetTask \/ OnTimed \/ SendSamples
      <3>1. On' = On
        BY <2>2 DEF GetTask, OnTimed, SendSamples, On
      <3> QED
        BY <1>1, <1>3, <1>4, <3>1 DEF Loop
    <2> QED
      BY <1>4, <2>1, <2>2 DEF Loop
  <1>5. CASE BeginWork \/ EndWork \/ UNCHANGED vars
    <2>1. UNCHANGED pending /\ On' = On
      BY <1>5 DEF BeginWork, EndWork, vars, On
    <2> QED
      BY <1>1, <1>3, <2>1
  <1> QED
    BY <1>2, <1>4, <1>5 DEF Next, general_work

LEMMA EncoderSteps == EncoderInv /\ [Next]_vars => EncoderInv'
  <1> SUFFICES ASSUME EncoderInv, [Next]_vars PROVE EncoderInv'
    OBVIOUS
  <1> PICK k \in 0 .. 7, off \in 0 .. MaxIdle, on \in 0 .. MaxIdle, r \in RN16s :
          RoundAt(k, off, on, r)
    BY DEF EncoderInv
  <1>1. EncoderTypeOK /\ FromTheBeginning /\ AnswerFirst
    BY DEF EncoderInv
  <1>2. QueueAt(k, r) /\ off = idle["OFF_IDLE"] /\ SignalAt(k, off, on, r)
    BY DEF RoundAt
  <1>3. EncoderTypeOK' /\ FromTheBeginning' /\ AnswerFirst'
    BY <1>1, <1>2, EncoderTypes, StartsBuffers, AnswerStaysFirst
  <1> SUFFICES \E k1 \in 0 .. 7, off1 \in 0 .. MaxIdle, on1 \in 0 .. MaxIdle :
                  RoundAt(k1, off1, on1, r)'
    BY <1>3 DEF EncoderInv
  <1>4. ASSUME UNCHANGED <<encoder_queue, pending>> PROVE QueueAt(k, r)'
    BY <1>2, <1>4 DEF QueueAt
  <1>5. CASE MacQueues
    <2>1. /\ Sent' = Sent /\ UNCHANGED <<d_state, d_counter, d_outgoing_frame, idle>>
      BY <1>5 DEF MacQueues, Sent
    <2>2. SignalAt(k, off, on, r)' /\ QueueAt(k, r)'
      BY <1>1, <1>2, <1>5, <2>1, SignalStays, QueueingKeepsQueue
    <2>3. RoundAt(k, off, on, r)'
      BY <1>2, <2>1, <2>2 DEF RoundAt
    <2> QED
      BY <2>3
  <1>6. CASE BeginWork
    <2>1. /\ UNCHANGED <<d_state, d_counter, d_outgoing_frame, encoder_queue, pending, wire, idle>>
          /\ nn' = 0 /\ ~ working
      BY <1>6 DEF BeginWork
    <2>2. nn = 0 /\ SubSeq(output, 1, 0) = << >> /\ SubSeq(output', 1, 0) = << >>
      <3>1. nn = 0
        BY <1>1, <2>1 DEF EncoderTypeOK
      <3> QED
        BY <3>1, SubSeqEmpty
    <2>3. Sent' = Sent
      BY <2>1, <2>2 DEF Sent
    <2>4. SignalAt(k, off, on, r)'
      BY <1>2, <2>1, <2>3, SignalStays
    <2>5. RoundAt(k, off, on, r)'
      BY <1>2, <1>4, <2>1, <2>4 DEF RoundAt
    <2> QED
      BY <2>5
  <1>7. CASE EndWork
    <2>1. /\ UNCHANGED <<d_state, d_counter, d_outgoing_frame, encoder_queue, pending, idle>>
          /\ nn' = 0 /\ wire' = Sent
      BY <1>7 DEF EndWork, Sent
    <2>2. Sent' = Sent
      <3>1. SubSeq(output', 1, 0) = << >> /\ Sent \in Signal
        BY <1>1, SubSeqEmpty, SentIsSignal
      <3>2. Sent \o << >> = Sent
        BY <3>1, ConcatEmptySeq DEF Signal
      <3>3. Sent' = wire' \o SubSeq(output', 1, nn')
        BY DEF Sent
      <3> QED
        BY <2>1, <3>1, <3>2, <3>3
    <2>3. SignalAt(k, off, on, r)'
      BY <1>2, <2>1, <2>2, SignalStays
    <2>4. RoundAt(k, off, on, r)'
      BY <1>2, <1>4, <2>1, <2>3 DEF RoundAt
    <2> QED
      BY <2>4
  <1>8. CASE Loop
    <2>1. nn < Len(output) /\ UNCHANGED <<pending, wire>>
      BY <1>8 DEF Loop
    <2>2. CASE GetTask
      <3>1. idle' = idle
        BY <2>2 DEF GetTask
      <3>2. /\ k < 7 /\ QueueAt(k + 1, r)'
            /\ \E on1 \in 0 .. MaxIdle : SignalAt(k + 1, off, on1, r)'
        BY <1>1, <1>2, <2>1, <2>2, TaskBegins
      <3> PICK on1 \in 0 .. MaxIdle : SignalAt(k + 1, off, on1, r)'
        BY <3>2
      <3>3. RoundAt(k + 1, off, on1, r)'
        BY <1>2, <3>1, <3>2 DEF RoundAt
      <3>4. k + 1 \in 0 .. 7
        BY <3>2
      <3> QED
        BY <3>3, <3>4
    <2>3. CASE Idle
      <3>1. QueueAt(k, r)'
        BY <1>4, <2>1, <2>3 DEF Idle
      <3> PICK off1 \in 0 .. MaxIdle, on1 \in 0 .. MaxIdle :
              off1 = idle'["OFF_IDLE"] /\ SignalAt(k, off1, on1, r)'
        BY <1>1, <1>2, <2>1, <2>3, WaitingGoesOn
      <3>2. RoundAt(k, off1, on1, r)'
        BY <3>1 DEF RoundAt
      <3> QED
        BY <3>2
    <2>4. CASE OnTimed \/ SendSamples
      <3>1. UNCHANGED <<encoder_queue, idle>>
        BY <2>4 DEF OnTimed, SendSamples
      <3>2. SignalAt(k, off, on, r)'
        BY <1>1, <1>2, <2>1, <2>4, SendingGoesOn
      <3>3. RoundAt(k, off, on, r)'
        BY <1>2, <1>4, <2>1, <3>1, <3>2 DEF RoundAt
      <3> QED
        BY <3>3
    <2> QED
      BY <1>8, <2>2, <2>3, <2>4 DEF Loop
  <1>9. CASE UNCHANGED vars
    <2>1. /\ UNCHANGED <<d_state, d_counter, d_outgoing_frame, encoder_queue, pending, idle>>
          /\ Sent' = Sent
      BY <1>9 DEF vars, Sent
    <2>2. SignalAt(k, off, on, r)'
      BY <1>2, <2>1, SignalStays
    <2>3. RoundAt(k, off, on, r)'
      BY <1>2, <1>4, <2>1, <2>2 DEF RoundAt
    <2> QED
      BY <2>3
  <1> QED
    BY <1>5, <1>6, <1>7, <1>8, <1>9 DEF Next, general_work

(***************************************************************************)
(* Whatever the code of the symbols, the query, the RN16s, the carrier and *)
(* the room the scheduler gives, and whenever the MAC queues its tasks,    *)
(* the encoder sends the bursts of the round, each sample once and in its  *)
(* place: the buffer general_work returns is written wherever it is sent,  *)
(* and a burst that a call cuts goes on in the next one.                   *)
(***************************************************************************)
THEOREM WireCarriesBursts == Spec => []WireIsBursts
  <1>1. Init => EncoderInv
    BY EncoderStarts
  <1>2. EncoderInv /\ [Next]_vars => EncoderInv'
    BY EncoderSteps
  <1>3. EncoderInv => WireIsBursts
    BY InvIsBursts
  <1> QED
    BY <1>1, <1>2, <1>3, PTL DEF Spec

-----------------------------------------------------------------------------
(***************************************************************************)
(* The rising edges of a signal, counted sample by sample.                 *)
(***************************************************************************)
RiseAt(s, n) == s[n] = 1 /\ (n = 1 \/ s[n - 1] = 0)

RisesUpTo(s, u, n) ==
    IF n = 0 THEN << >> ELSE IF RiseAt(s, n) THEN Append(u[n - 1], n) ELSE u[n - 1]

CountsRises(s, u) == u = [n \in 0 .. Len(s) |-> RisesUpTo(s, u, n)]

LEMMA CountExists ==
    ASSUME NEW s \in Signal
    PROVE  \E u : CountsRises(s, u)
  <1> DEFINE Good(u, n) == \A i \in 0 .. Len(s) : i <= n => u[i] = RisesUpTo(s, u, i)
             G == {n \in Nat : \E u : u = [i \in 0 .. Len(s) |-> u[i]] /\ Good(u, n)}
  <1>1. 0 \in G
    <2> DEFINE u == [i \in 0 .. Len(s) |-> << >>]
    <2>1. u = [i \in 0 .. Len(s) |-> u[i]]
      OBVIOUS
    <2>2. Good(u, 0)
      BY DEF RisesUpTo
    <2> HIDE DEF u
    <2> QED
      BY <2>1, <2>2
  <1>2. ASSUME NEW n \in Nat, n \in G
        PROVE  n + 1 \in G
    <2>1. PICK u : u = [i \in 0 .. Len(s) |-> u[i]] /\ Good(u, n)
      BY <1>2
    <2> DEFINE g == [i \in 0 .. Len(s) |-> IF i = n + 1 THEN RisesUpTo(s, u, i) ELSE u[i]]
    <2>2. g = [i \in 0 .. Len(s) |-> g[i]]
      OBVIOUS
    <2>3. ASSUME NEW i \in 0 .. Len(s), i <= n + 1
          PROVE  g[i] = RisesUpTo(s, g, i)
      <3>1. i = 0 \/ (i - 1 \in 0 .. Len(s) /\ i - 1 # n + 1 /\ i # 0)
        BY <2>3
      <3>2. RisesUpTo(s, g, i) = RisesUpTo(s, u, i)
        BY <3>1 DEF RisesUpTo
      <3>3. i = n + 1 \/ i <= n
        BY <2>3
      <3> QED
        BY <2>1, <3>2, <3>3
    <2> HIDE DEF g
    <2> QED
      BY <2>2, <2>3
  <1>3. Len(s) \in G
    <2>1. Nat \subseteq G
      <3> HIDE DEF G
      <3> QED
        BY <1>1, <1>2, SetInduction
    <2> QED
      BY <2>1 DEF Signal
  <1>4. PICK u : u = [i \in 0 .. Len(s) |-> u[i]] /\ Good(u, Len(s))
    BY <1>3
  <1>5. u = [i \in 0 .. Len(s) |-> RisesUpTo(s, u, i)]
    BY <1>4
  <1> QED
    BY <1>5 DEF CountsRises

LEMMA RisesAreCounted ==
    ASSUME NEW s \in Signal
    PROVE  \E u : CountsRises(s, u) /\ Rises(s) = u[Len(s)]
  <1> DEFINE u == CHOOSE v : CountsRises(s, v)
  <1>1. CountsRises(s, u)
    BY CountExists, Zenon
  <1>2. Rises(s) = u[Len(s)]
    BY Zenon DEF Rises, CountsRises, RisesUpTo, RiseAt
  <1> QED
    BY <1>1, <1>2, Zenon

LEMMA CountIs ==
    ASSUME NEW s \in Signal, NEW u, CountsRises(s, u), NEW n \in 0 .. Len(s)
    PROVE  u[n] = RisesUpTo(s, u, n)
  BY Zenon DEF CountsRises

\* Where two signals are the same, so are the counts.
LEMMA CountsAgree ==
    ASSUME NEW s \in Signal, NEW t \in Signal, Len(s) <= Len(t),
           \A i \in 1 .. Len(s) : s[i] = t[i],
           NEW u, CountsRises(s, u), NEW v, CountsRises(t, v)
    PROVE  \A n \in 0 .. Len(s) : u[n] = v[n]
  <1> DEFINE G == {n \in Nat : n <= Len(s) => u[n] = v[n]}
  <1>0. Len(s) \in Nat /\ Len(t) \in Nat
    BY DEF Signal
  <1>1. 0 \in G
    <2>1. 0 \in 0 .. Len(s) /\ 0 \in 0 .. Len(t)
      BY <1>0
    <2> QED
      BY <2>1, CountIs DEF RisesUpTo
  <1>2. ASSUME NEW n \in Nat, n \in G
        PROVE  n + 1 \in G
    <2> SUFFICES ASSUME n + 1 <= Len(s) PROVE u[n + 1] = v[n + 1]
      OBVIOUS
    <2> PICK m \in Nat : m = n + 1
      OBVIOUS
    <2>1. m # 0 /\ m - 1 = n /\ m \in 0 .. Len(s) /\ m \in 0 .. Len(t) /\ n <= Len(s)
      BY <1>0
    <2>2. u[n] = v[n]
      BY <1>2, <2>1
    <2>3. s[m] = t[m] /\ (m = 1 \/ s[n] = t[n])
      BY <2>1
    <2>4. u[m] = RisesUpTo(s, u, m) /\ v[m] = RisesUpTo(t, v, m)
      BY <2>1, CountIs
    <2> QED
      BY <2>1, <2>2, <2>3, <2>4 DEF RisesUpTo, RiseAt
  <1>3. Nat \subseteq G
    <2> HIDE DEF G
    <2> QED
      BY <1>1, <1>2, SetInduction
  <1> QED
    BY <1>0, <1>3

Low(p) == p = << >> \/ p[Len(p)] = 0

LEMMA RisesOfNothing == Rises(<< >>) = << >>
  <1>1. << >> \in Signal /\ Len(<< >>) = 0
    BY DEF Signal
  <1>2. PICK u : CountsRises(<< >>, u) /\ Rises(<< >>) = u[0]
    BY <1>1, RisesAreCounted
  <1> QED
    BY <1>1, <1>2, CountIs DEF RisesUpTo

LEMMA RisesOfAppend ==
    ASSUME NEW s \in Signal, NEW v \in Samples
    PROVE  Rises(Append(s, v)) =
               IF v = 1 /\ Low(s) THEN Append(Rises(s), Len(s) + 1) ELSE Rises(s)
  <1> PICK l \in Nat : l = Len(s)
    BY DEF Signal
  <1> PICK t \in Signal : t = Append(s, v)
    BY AppendProperties DEF Signal
  <1>1. /\ Len(t) = l + 1 /\ t[l + 1] = v
        /\ \A i \in 1 .. l : s[i] = t[i]
    BY AppendProperties DEF Signal
  <1>2. PICK u : CountsRises(s, u) /\ Rises(s) = u[l]
    BY RisesAreCounted
  <1>3. PICK w : CountsRises(t, w) /\ Rises(t) = w[Len(t)]
    BY RisesAreCounted
  <1>4. w[l] = u[l]
    <2>1. Len(s) <= Len(t) /\ l \in 0 .. Len(s) /\ \A i \in 1 .. Len(s) : s[i] = t[i]
      BY <1>1
    <2>2. \A n \in 0 .. Len(s) : u[n] = w[n]
      BY ONLY <1>2, <1>3, <2>1, CountsAgree, s \in Signal, t \in Signal
    <2> QED
      BY <2>1, <2>2
  <1>5. w[l + 1] = RisesUpTo(t, w, l + 1)
    <2>1. l + 1 \in 0 .. Len(t)
      BY <1>1
    <2> QED
      BY <1>3, <2>1, CountIs
  <1>6. RiseAt(t, l + 1) <=> v = 1 /\ Low(s)
    <2>1. (l + 1) - 1 = l /\ (l + 1 = 1 <=> l = 0)
      OBVIOUS
    <2>2. s = << >> <=> l = 0
      BY EmptySeq DEF Signal
    <2>3. l # 0 => t[l] = s[l]
      BY <1>1
    <2> QED
      BY <1>1, <2>1, <2>2, <2>3 DEF RiseAt, Low
  <1>7. (l + 1) - 1 = l /\ l + 1 # 0
    OBVIOUS
  <1> QED
    BY <1>1, <1>2, <1>3, <1>4, <1>5, <1>6, <1>7 DEF RisesUpTo

LEMMA RisesAreNumbers ==
    ASSUME NEW s \in Signal, NEW u, CountsRises(s, u)
    PROVE  \A n \in 0 .. Len(s) : u[n] \in Seq(Nat)
  <1> DEFINE G == {n \in Nat : n <= Len(s) => u[n] \in Seq(Nat)}
  <1>0. Len(s) \in Nat
    BY DEF Signal
  <1>1. 0 \in G
    <2>1. 0 \in 0 .. Len(s)
      BY <1>0
    <2>2. u[0] = RisesUpTo(s, u, 0)
      BY <2>1, CountIs
    <2>3. u[0] = << >>
      BY ONLY <2>2 DEF RisesUpTo
    <2>4. << >> \in Seq(Nat)
      OBVIOUS
    <2> QED
      BY ONLY <2>3, <2>4
  <1>2. ASSUME NEW n \in Nat, n \in G
        PROVE  n + 1 \in G
    <2> SUFFICES ASSUME n + 1 <= Len(s) PROVE u[n + 1] \in Seq(Nat)
      OBVIOUS
    <2> PICK m \in Nat : m = n + 1
      OBVIOUS
    <2>1. m # 0 /\ m - 1 = n /\ m \in 0 .. Len(s) /\ n <= Len(s)
      BY <1>0
    <2>2. u[n] \in Seq(Nat)
      BY <1>2, <2>1
    <2>3. Append(u[n], m) \in Seq(Nat)
      BY <2>2
    <2>4. u[m] = RisesUpTo(s, u, m)
      BY <2>1, CountIs
    <2> QED
      BY <2>1, <2>2, <2>3, <2>4 DEF RisesUpTo
  <1>3. Nat \subseteq G
    <2> HIDE DEF G
    <2> QED
      BY <1>1, <1>2, SetInduction
  <1> QED
    BY <1>0, <1>3

\* q goes on as r.
Extends(q, r) == Len(q) <= Len(r) /\ \A j \in 1 .. Len(q) : r[j] = q[j]

LEMMA AppendExtends ==
    ASSUME NEW q \in Seq(Nat), NEW r \in Seq(Nat), NEW n \in Nat, Extends(q, r)
    PROVE  Extends(q, Append(r, n))
  BY AppendProperties DEF Extends

LEMMA RisesOfMore ==
    ASSUME NEW s \in Signal, NEW t, Begins(s, t)
    PROVE  /\ Rises(s) \in Seq(Nat) /\ t \in Signal /\ Rises(t) \in Seq(Nat)
           /\ Extends(Rises(s), Rises(t))
  <1>1. PICK z \in Signal : t = s \o z
    BY DEF Begins
  <1>2. /\ t \in Signal /\ Len(t) = Len(s) + Len(z) /\ Len(s) \in Nat /\ Len(z) \in Nat
        /\ \A i \in 1 .. Len(s) : s[i] = t[i]
    <2>1. /\ t \in Signal /\ Len(t) = Len(s) + Len(z)
          /\ \A i \in 1 .. Len(s) + Len(z) : t[i] = IF i <= Len(s) THEN s[i] ELSE z[i - Len(s)]
      BY <1>1, ConcatProperties DEF Signal
    <2>2. Len(s) \in Nat /\ Len(z) \in Nat
      BY DEF Signal
    <2> QED
      BY <2>1, <2>2
  <1>3. PICK u : CountsRises(s, u) /\ Rises(s) = u[Len(s)]
    BY RisesAreCounted
  <1>4. PICK w : CountsRises(t, w) /\ Rises(t) = w[Len(t)]
    BY <1>2, RisesAreCounted
  <1> PICK l \in Nat : l = Len(s)
    BY <1>2
  <1>5. w[l] = u[l]
    <2>1. Len(s) <= Len(t) /\ l \in 0 .. Len(s)
      BY <1>2
    <2>2. \A n \in 0 .. Len(s) : u[n] = w[n]
      BY <1>2, <1>3, <1>4, <2>1, CountsAgree
    <2> QED
      BY <2>1, <2>2
  <1>6. \A n \in 0 .. Len(t) : w[n] \in Seq(Nat)
    BY <1>2, <1>4, RisesAreNumbers
  <1> DEFINE G == {n \in Nat : l + n <= Len(t) => Extends(w[l], w[l + n])}
  <1>7. 0 \in G
    BY DEF Extends
  <1>8. ASSUME NEW n \in Nat, n \in G
        PROVE  n + 1 \in G
    <2> SUFFICES ASSUME l + n + 1 <= Len(t) PROVE Extends(w[l], w[l + (n + 1)])
      BY <1>2
    <2> PICK m \in Nat : m = l + (n + 1)
      OBVIOUS
    <2>1. m # 0 /\ m - 1 = l + n /\ m \in 0 .. Len(t) /\ l \in 0 .. Len(t) /\ m - 1 \in 0 .. Len(t)
      BY <1>2
    <2>2. Extends(w[l], w[m - 1])
      BY <1>2, <1>8, <2>1
    <2>3. w[m] = RisesUpTo(t, w, m)
      BY <1>2, <1>4, <2>1, CountIs
    <2>4. Extends(w[l], Append(w[m - 1], m))
      BY <1>6, <2>1, <2>2, AppendExtends
    <2> QED
      BY <2>1, <2>2, <2>3, <2>4 DEF RisesUpTo
  <1>9. Nat \subseteq G
    <2> HIDE DEF G
    <2> QED
      BY <1>7, <1>8, SetInduction
  <1>10. Len(z) \in G /\ l + Len(z) = Len(t)
    BY <1>2, <1>9
  <1>11. Extends(w[l], w[Len(t)])
    BY <1>2, <1>10
  <1>12. l \in 0 .. Len(t) /\ Len(t) \in 0 .. Len(t)
    BY <1>2
  <1> QED
    BY <1>2, <1>3, <1>4, <1>5, <1>6, <1>11, <1>12

LEMMA FillLonger ==
    ASSUME NEW p \in Signal, NEW n \in Nat, NEW v \in Samples
    PROVE  p \o Fill(n + 1, v) = Append(p \o Fill(n, v), v)
  <1>1. Fill(1, v) = <<v>>
    <2>1. 1 \in Nat
      OBVIOUS
    <2>2. /\ Fill(1, v) \in Signal /\ Len(Fill(1, v)) = 1
          /\ \A i \in 1 .. 1 : Fill(1, v)[i] = v
      BY ONLY <2>1, FillFacts, v \in Samples
    <2> QED
      BY <2>2 DEF Signal
  <1>2. Fill(n, v) \in Signal
    BY FillFacts
  <1> PICK q \in Signal : q = p \o Fill(n, v)
    BY <1>2, BeginsWhole
  <1>3. (p \o Fill(n, v)) \o Fill(1, v) = p \o Fill(n + 1, v)
    BY Grows
  <1>4. q \o <<v>> = Append(q, v)
    BY AppendIsConcat DEF Signal
  <1> QED
    BY <1>1, <1>3, <1>4

LEMMA LowAfter ==
    ASSUME NEW s \in Signal, NEW v \in Samples
    PROVE  Append(s, v) \in Signal /\ (Low(Append(s, v)) <=> v = 0)
  <1>1. /\ Append(s, v) \in Signal /\ Len(Append(s, v)) = Len(s) + 1
        /\ Append(s, v)[Len(s) + 1] = v /\ Len(s) \in Nat
    BY AppendProperties DEF Signal
  <1>2. Append(s, v) # << >>
    BY <1>1
  <1> QED
    BY <1>1, <1>2 DEF Low

LEMMA RisesOfLow ==
    ASSUME NEW p \in Signal, NEW n \in Nat
    PROVE  Rises(p \o Fill(n, 0)) = Rises(p)
  <1> DEFINE G == {m \in Nat : Rises(p \o Fill(m, 0)) = Rises(p)}
  <1>1. 0 \in G
    <2>1. 0 \in Samples
      BY DEF Samples
    <2>2. p \o Fill(0, 0) = p
      BY <2>1, FillOfNone
    <2> QED
      BY <2>2
  <1>2. ASSUME NEW m \in Nat, m \in G
        PROVE  m + 1 \in G
    <2>1. 0 \in Samples
      BY DEF Samples
    <2> PICK q \in Signal : q = p \o Fill(m, 0)
      BY <2>1, FillFacts, BeginsWhole
    <2>2. p \o Fill(m + 1, 0) = Append(q, 0)
      BY <2>1, FillLonger
    <2>3. Rises(Append(q, 0)) = Rises(q)
      BY <2>1, RisesOfAppend
    <2>4. Rises(p \o Fill(m + 1, 0)) = Rises(p)
      BY <1>2, <2>2, <2>3
    <2> QED
      BY <2>4
  <1>3. Nat \subseteq G
    <2> HIDE DEF G
    <2> QED
      BY <1>1, <1>2, SetInduction
  <1> QED
    BY <1>3

LEMMA LowStays ==
    ASSUME NEW p \in Signal, NEW n \in Nat \ {0}
    PROVE  Low(p \o Fill(n, 0)) /\ p \o Fill(n, 0) \in Signal
  <1> PICK m \in Nat : n = m + 1
    <2>1. n - 1 \in Nat /\ n = (n - 1) + 1
      OBVIOUS
    <2> QED
      BY <2>1
  <1>1. 0 \in Samples
    BY DEF Samples
  <1> PICK q \in Signal : q = p \o Fill(m, 0)
    BY <1>1, FillFacts, BeginsWhole
  <1>2. p \o Fill(n, 0) = Append(q, 0)
    BY <1>1, FillLonger
  <1> QED
    BY <1>1, <1>2, LowAfter

LEMMA RisesOfHigh ==
    ASSUME NEW p \in Signal, Low(p), NEW n \in Nat
    PROVE  Rises(p \o Fill(n + 1, 1)) = Append(Rises(p), Len(p) + 1)
  <1> DEFINE G == {m \in Nat : /\ Rises(p \o Fill(m + 1, 1)) = Append(Rises(p), Len(p) + 1)
                               /\ ~ Low(p \o Fill(m + 1, 1))}
  <1>0. 1 \in Samples
    BY DEF Samples
  <1>1. 0 \in G
    <2>1. p \o Fill(0 + 1, 1) = Append(p \o Fill(0, 1), 1)
      BY <1>0, FillLonger
    <2>2. p \o Fill(0 + 1, 1) = Append(p, 1)
      BY <1>0, <2>1, FillOfNone
    <2>3. ~ Low(Append(p, 1)) /\ Rises(Append(p, 1)) = Append(Rises(p), Len(p) + 1)
      BY <1>0, LowAfter, RisesOfAppend
    <2> QED
      BY <2>2, <2>3
  <1>2. ASSUME NEW m \in Nat, m \in G
        PROVE  m + 1 \in G
    <2> PICK k \in Nat : k = m + 1
      OBVIOUS
    <2> PICK q \in Signal : q = p \o Fill(k, 1)
      BY <1>0, FillFacts, BeginsWhole
    <2>1. p \o Fill(k + 1, 1) = Append(q, 1)
      BY <1>0, FillLonger
    <2>2. ~ Low(q) /\ Rises(q) = Append(Rises(p), Len(p) + 1)
      BY <1>2
    <2>3. Rises(Append(q, 1)) = Rises(q) /\ ~ Low(Append(q, 1))
      BY <1>0, <2>2, LowAfter, RisesOfAppend
    <2> QED
      BY <2>1, <2>2, <2>3
  <1>3. Nat \subseteq G
    <2> HIDE DEF G
    <2> QED
      BY <1>1, <1>2, SetInduction
  <1> QED
    BY <1>3

(***************************************************************************)
(* The edges of a signal that ends low: its rises, and the next item, at   *)
(* which it rises when it goes on.  Adds: behind p, signal t has symbols   *)
(* of as many samples as ls says.                                          *)
(***************************************************************************)
Edges(p) == Append(Rises(p), Len(p) + 1)

Gap(e, j) == e[j + 1] - e[j]

Adds(p, t, ls) ==
    /\ t \in Signal /\ Low(t)
    /\ Extends(Edges(p), Edges(t))
    /\ Len(Edges(t)) = Len(Edges(p)) + Len(ls)
    /\ \A k \in 1 .. Len(ls) : Gap(Edges(t), Len(Edges(p)) + k - 1) = ls[k]

LEMMA EdgesAreNumbers ==
    ASSUME NEW p \in Signal
    PROVE  /\ Rises(p) \in Seq(Nat) /\ Edges(p) \in Seq(Nat) /\ Len(p) \in Nat
           /\ Len(Edges(p)) = Len(Rises(p)) + 1 /\ Edges(p)[Len(Edges(p))] = Len(p) + 1
           /\ Extends(Rises(p), Edges(p))
  <1>1. Begins(p, p) /\ Len(p) \in Nat
    BY BeginsWithItself DEF Signal
  <1>2. Rises(p) \in Seq(Nat)
    BY <1>1, RisesOfMore
  <1>3. Len(p) + 1 \in Nat
    BY <1>1
  <1> QED
    BY <1>1, <1>2, <1>3, AppendProperties DEF Edges, Extends

LEMMA ExtendsMore ==
    ASSUME NEW q \in Seq(Nat), NEW r \in Seq(Nat), NEW s \in Seq(Nat), Extends(q, r), Extends(r, s)
    PROVE  Extends(q, s)
  BY DEF Extends

LEMMA GapStays ==
    ASSUME NEW q \in Seq(Nat), NEW r \in Seq(Nat), Extends(q, r), NEW j \in Nat \ {0}, j < Len(q)
    PROVE  Gap(r, j) = Gap(q, j)
  <1>1. j \in 1 .. Len(q) /\ j + 1 \in 1 .. Len(q)
    OBVIOUS
  <1> QED
    BY <1>1 DEF Extends, Gap

LEMMA AddsMore ==
    ASSUME NEW p \in Signal, NEW t, NEW u, NEW ls \in Seq(Nat), NEW ms \in Seq(Nat),
           Adds(p, t, ls), Adds(t, u, ms)
    PROVE  Adds(p, u, ls \o ms)
  <1>1. t \in Signal /\ u \in Signal /\ Low(u)
    BY DEF Adds
  <1> PICK e \in Seq(Nat) : e = Edges(p)
    BY EdgesAreNumbers
  <1> PICK f \in Seq(Nat) : f = Edges(t)
    BY <1>1, EdgesAreNumbers
  <1> PICK g \in Seq(Nat) : g = Edges(u)
    BY <1>1, EdgesAreNumbers
  <1> PICK x \in Seq(Nat) : x = ls \o ms
    BY ConcatProperties
  <1> PICK m \in Nat, n \in Nat : m = Len(ls) /\ n = Len(ms)
    OBVIOUS
  <1> PICK a \in Nat \ {0} : a = Len(e)
    BY EdgesAreNumbers
  <1>2. /\ Len(x) = m + n
        /\ \A k \in 1 .. m + n : x[k] = IF k <= m THEN ls[k] ELSE ms[k - m]
    BY ConcatProperties
  <1>3. /\ Extends(e, f) /\ Len(f) = a + m
        /\ \A k \in 1 .. m : Gap(f, a + k - 1) = ls[k]
    BY DEF Adds
  <1>4. /\ Extends(f, g) /\ Len(g) = a + m + n
        /\ \A k \in 1 .. n : Gap(g, (a + m) + k - 1) = ms[k]
    BY <1>3 DEF Adds
  <1>5. Extends(e, g)
    BY <1>3, <1>4, ExtendsMore
  <1>6. ASSUME NEW k \in 1 .. m + n
        PROVE  Gap(g, a + k - 1) = x[k]
    <2>1. CASE k <= m
      <3>1. k \in 1 .. m /\ a + k - 1 \in Nat \ {0} /\ a + k - 1 < a + m
        BY <2>1
      <3>2. Gap(f, a + k - 1) = ls[k]
        BY <1>3, <3>1
      <3> PICK j \in Nat \ {0} : j = a + k - 1
        BY <3>1
      <3>3. Gap(g, j) = Gap(f, j)
        <4>1. j < Len(f) /\ Extends(f, g)
          BY <1>3, <1>4, <3>1
        <4> QED
          BY ONLY <4>1, GapStays, f \in Seq(Nat), g \in Seq(Nat), j \in Nat \ {0}
      <3> QED
        BY <1>2, <2>1, <3>2, <3>3
    <2>2. CASE ~ (k <= m)
      <3>1. k - m \in 1 .. n
        BY <2>2
      <3> PICK j \in 1 .. n : j = k - m
        BY <3>1
      <3>2. (a + m) + j - 1 = a + k - 1
        OBVIOUS
      <3>3. Gap(g, (a + m) + j - 1) = ms[j]
        BY <1>4
      <3> QED
        BY <1>2, <2>2, <3>2, <3>3
    <2> QED
      BY <2>1, <2>2
  <1> QED
    <2>1. Len(e) + Len(x) = a + m + n /\ Len(x) = m + n
      BY <1>2
    <2>2. \A k \in 1 .. Len(x) : Gap(g, Len(e) + k - 1) = x[k]
      BY <1>6, <2>1
    <2> QED
      BY <1>1, <1>4, <1>5, <2>1, <2>2 DEF Adds

LEMMA BlockAdds ==
    ASSUME NEW p \in Signal, Low(p), NEW h \in Nat \ {0}, NEW l \in Nat \ {0}
    PROVE  Adds(p, (p \o Fill(h, 1)) \o Fill(l, 0), <<h + l>>)
  <1>1. 0 \in Samples /\ 1 \in Samples
    BY DEF Samples
  <1>2. Fill(h, 1) \in Signal /\ Len(Fill(h, 1)) = h /\ Fill(l, 0) \in Signal /\ Len(Fill(l, 0)) = l
    BY <1>1, FillFacts
  <1> PICK q \in Signal : q = p \o Fill(h, 1)
    BY <1>2, BeginsWhole
  <1> PICK t \in Signal : t = q \o Fill(l, 0)
    BY <1>2, BeginsWhole
  <1>3. Len(q) = Len(p) + h /\ Len(t) = Len(q) + l
    BY <1>2, ConcatProperties DEF Signal
  <1>4. Rises(q) = Edges(p)
    <2>1. h - 1 \in Nat /\ (h - 1) + 1 = h
      OBVIOUS
    <2>2. Rises(p \o Fill((h - 1) + 1, 1)) = Append(Rises(p), Len(p) + 1)
      BY <2>1, RisesOfHigh
    <2> QED
      BY <2>1, <2>2 DEF Edges
  <1>5. Rises(t) = Edges(p) /\ Low(t)
    BY <1>4, RisesOfLow, LowStays
  <1> PICK e \in Seq(Nat) : e = Edges(p)
    BY EdgesAreNumbers
  <1> PICK f \in Seq(Nat) : f = Edges(t)
    BY EdgesAreNumbers
  <1> PICK a \in Nat \ {0} : a = Len(e)
    BY EdgesAreNumbers
  <1>6. Extends(e, f) /\ Len(f) = a + 1 /\ f[a + 1] = Len(t) + 1 /\ e[a] = Len(p) + 1
    BY <1>5, EdgesAreNumbers
  <1>7. Gap(f, a) = h + l
    <2>1. Len(p) \in Nat /\ a \in 1 .. Len(e)
      BY EdgesAreNumbers
    <2>2. f[a] = e[a]
      BY <1>6, <2>1 DEF Extends
    <2>3. Gap(f, a) = (Len(t) + 1) - (Len(p) + 1)
      BY <1>6, <2>2 DEF Gap
    <2>4. Len(t) = Len(p) + h + l
      BY <1>3
    <2> QED
      BY ONLY <2>1, <2>3, <2>4, h \in Nat \ {0}, l \in Nat \ {0}
  <1>8. Len(<<h + l>>) = 1 /\ <<h + l>>[1] = h + l /\ a + 1 - 1 = a
    OBVIOUS
  <1> QED
    BY <1>5, <1>6, <1>7, <1>8 DEF Adds

LEMMA SymbolAdds ==
    ASSUME NEW p \in Signal, Low(p), NEW n \in Nat, n > samples_per_pw
    PROVE  Adds(p, p \o Symbol(n), <<n>>)
  <1>1. /\ n - samples_per_pw \in Nat \ {0} /\ samples_per_pw \in Nat \ {0}
        /\ (n - samples_per_pw) + samples_per_pw = n /\ 0 \in Samples /\ 1 \in Samples
    BY SamplesAssumption DEF Samples
  <1>2. Fill(n - samples_per_pw, 1) \in Signal /\ Fill(samples_per_pw, 0) \in Signal
    BY <1>1, FillFacts
  <1>3. p \o Symbol(n) = (p \o Fill(n - samples_per_pw, 1)) \o Fill(samples_per_pw, 0)
    <2>1. PICK a \in Signal, b \in Signal :
              a = Fill(n - samples_per_pw, 1) /\ b = Fill(samples_per_pw, 0)
      BY <1>2
    <2>2. (p \o a) \o b = p \o (a \o b)
      BY ONLY Associates, p \in Signal, a \in Signal, b \in Signal
    <2> QED
      BY <2>1, <2>2 DEF Symbol
  <1> QED
    BY <1>1, <1>3, BlockAdds

\* The symbol of a bit.
BitTime(bit) == IF bit = 0 THEN samples_per_tari ELSE samples_per_data1

\* The symbols of the first n bits.
BitTimes(bits, n) == [i \in 1 .. n |-> BitTime(bits[i])]

LEMMA TimesAre ==
    ASSUME NEW bits \in Seq({0, 1}), NEW n \in Nat, n <= Len(bits)
    PROVE  /\ BitTimes(bits, n) \in Seq(Nat) /\ Len(BitTimes(bits, n)) = n
           /\ \A i \in 1 .. n : BitTimes(bits, n)[i] = BitTime(bits[i])
  <1>1. \A i \in 1 .. Len(bits) : BitTime(bits[i]) \in Nat
    BY SamplesAssumption DEF BitTime
  <1> QED
    BY <1>1 DEF BitTimes

LEMMA TimesGrow ==
    ASSUME NEW bits \in Seq({0, 1}), NEW n \in Nat, n < Len(bits)
    PROVE  /\ BitTimes(bits, n) \in Seq(Nat) /\ <<BitTime(bits[n + 1])>> \in Seq(Nat)
           /\ BitTimes(bits, n) \o <<BitTime(bits[n + 1])>> = BitTimes(bits, n + 1)
  <1>1. \A i \in 1 .. Len(bits) : BitTime(bits[i]) \in Nat
    BY SamplesAssumption DEF BitTime
  <1>2. \A m \in Nat : m <= Len(bits) =>
            /\ BitTimes(bits, m) \in Seq(Nat) /\ Len(BitTimes(bits, m)) = m
            /\ \A i \in 1 .. m : BitTimes(bits, m)[i] = BitTime(bits[i])
    BY TimesAre
  <1> PICK t \in Nat : t = BitTime(bits[n + 1])
    BY <1>1
  <1>3. n + 1 \in Nat /\ n + 1 <= Len(bits) /\ n <= Len(bits)
    OBVIOUS
  <1> PICK a \in Seq(Nat) : a = BitTimes(bits, n)
    BY <1>2, <1>3
  <1> PICK b \in Seq(Nat) : b = BitTimes(bits, n + 1)
    BY <1>2, <1>3
  <1>4. /\ Len(a) = n /\ \A i \in 1 .. n : a[i] = BitTime(bits[i])
        /\ Len(b) = n + 1 /\ \A i \in 1 .. n + 1 : b[i] = BitTime(bits[i])
    BY <1>2, <1>3
  <1>5. /\ Append(a, t) \in Seq(Nat) /\ Len(Append(a, t)) = n + 1
        /\ \A i \in 1 .. n : Append(a, t)[i] = a[i]
        /\ Append(a, t)[n + 1] = t
    BY <1>4, AppendProperties
  <1>6. \A i \in 1 .. n + 1 : Append(a, t)[i] = b[i]
    <2>1. \A i \in 1 .. n + 1 : i \in 1 .. n \/ i = n + 1
      OBVIOUS
    <2> QED
      BY <1>4, <1>5, <2>1
  <1>7. Append(a, t) = b
    BY <1>4, <1>5, <1>6, SeqEqual
  <1>8. a \o <<t>> = Append(a, t) /\ <<t>> \in Seq(Nat)
    BY AppendIsConcat
  <1> QED
    BY <1>7, <1>8

LEMMA BitAdds ==
    ASSUME NEW p \in Signal, Low(p), NEW bit \in {0, 1}
    PROVE  Adds(p, p \o (IF bit = 0 THEN d_data0 ELSE d_data1), <<BitTime(bit)>>)
  <1>1. /\ samples_per_tari \in Nat /\ samples_per_tari > samples_per_pw
        /\ samples_per_data1 \in Nat /\ samples_per_data1 > samples_per_pw
    BY SamplesAssumption
  <1>2. CASE bit = 0
    <2>1. Adds(p, p \o Symbol(samples_per_tari), <<samples_per_tari>>)
      BY <1>1, SymbolAdds
    <2> QED
      BY <1>2, <2>1 DEF d_data0, BitTime
  <1>3. CASE bit # 0
    <2>1. Adds(p, p \o Symbol(samples_per_data1), <<samples_per_data1>>)
      BY <1>1, SymbolAdds
    <2> QED
      BY <1>3, <2>1 DEF d_data1, BitTime
  <1> QED
    BY <1>2, <1>3

LEMMA NothingAdds ==
    ASSUME NEW p \in Signal, Low(p)
    PROVE  Adds(p, p, << >>)
  <1>1. Edges(p) \in Seq(Nat)
    BY EdgesAreNumbers
  <1> QED
    BY <1>1 DEF Adds, Extends

LEMMA BitsAdd ==
    ASSUME NEW p \in Signal, Low(p), NEW bits \in Seq({0, 1})
    PROVE  Adds(p, p \o bit_to_pie(bits), BitTimes(bits, Len(bits)))
  <1> DEFINE ss == [i \in DOMAIN bits |-> IF bits[i] = 0 THEN d_data0 ELSE d_data1]
  <1>1. /\ ss \in Seq(Signal) /\ Len(ss) = Len(bits) /\ Len(bits) \in Nat
        /\ \A i \in 1 .. Len(bits) : ss[i] = IF bits[i] = 0 THEN d_data0 ELSE d_data1
    BY CodeIsSignal
  <1>2. bit_to_pie(bits) = FlattenSeq(ss)
    BY Zenon DEF bit_to_pie
  <1> HIDE DEF ss
  <1>3. CASE Len(bits) = 0
    <2>1. FlattenSeq(ss) = ss /\ ss = << >>
      BY <1>1, <1>3, Zenon, EmptySeq DEF FlattenSeq
    <2>2. p \o << >> = p
      BY ConcatEmptySeq DEF Signal
    <2>3. BitTimes(bits, Len(bits)) = << >>
      BY <1>3 DEF BitTimes
    <2> QED
      BY <1>2, <2>1, <2>2, <2>3, NothingAdds
  <1>4. CASE Len(bits) # 0
    <2>1. PICK f : Joins(ss, f) /\ FlattenSeq(ss) = f[Len(ss)]
      BY <1>1, <1>4, FlattenIsJoined DEF Signal
    <2>2. \A i \in 1 .. Len(bits) : f[i] \in Signal /\ f[i] = Joined(ss, f, i)
      <3>1. \A i \in 1 .. Len(ss) : f[i] \in Signal
        BY <1>1, <2>1, JoinedAreSequences DEF Signal
      <3>2. \A i \in 1 .. Len(ss) : f[i] = Joined(ss, f, i)
        BY <2>1, Zenon DEF Joins
      <3> QED
        BY <1>1, <3>1, <3>2
    <2> DEFINE Good(n) == Adds(p, p \o f[n], BitTimes(bits, n))
               G == {n \in Nat : n + 1 <= Len(bits) => Good(n + 1)}
    <2>3. \A n \in 1 .. Len(bits) : bits[n] \in {0, 1} /\ ss[n] \in Signal
      BY <1>1
    <2>4. Good(1)
      <3>1. f[1] = ss[1] /\ 1 \in 1 .. Len(bits)
        BY <1>1, <1>4, <2>2 DEF Joined
      <3>2. BitTimes(bits, 1) = <<BitTime(bits[1])>>
        BY DEF BitTimes
      <3> QED
        BY <1>1, <2>3, <3>1, <3>2, BitAdds
    <2>5. ASSUME NEW n \in 1 .. Len(bits), n + 1 <= Len(bits), Good(n)
          PROVE  Good(n + 1)
      <3> PICK m \in 1 .. Len(bits) : m = n + 1
        BY <2>5
      <3> PICK t \in Signal : t = p \o f[n]
        BY <2>2, BeginsWhole
      <3>1. Adds(p, t, BitTimes(bits, n)) /\ Low(t)
        BY <2>5 DEF Adds
      <3>2. Adds(t, t \o ss[m], <<BitTime(bits[m])>>)
        BY <1>1, <2>3, <3>1, BitAdds
      <3>3. t \o ss[m] = p \o f[m]
        <4>1. m # 1 /\ m - 1 = n
          BY <2>5
        <4>2. f[m] = f[n] \o ss[m]
          BY <2>2, <4>1 DEF Joined
        <4> PICK x \in Signal : x = f[n]
          BY <2>2
        <4> PICK y \in Signal : y = ss[m]
          BY <2>3
        <4>3. (p \o x) \o y = p \o (x \o y)
          BY ONLY Associates, p \in Signal, x \in Signal, y \in Signal
        <4> QED
          BY <4>2, <4>3
      <3>4. /\ BitTimes(bits, n) \in Seq(Nat) /\ <<BitTime(bits[m])>> \in Seq(Nat)
            /\ BitTimes(bits, n) \o <<BitTime(bits[m])>> = BitTimes(bits, m)
        BY <2>5, TimesGrow
      <3>5. Adds(p, t \o ss[m], BitTimes(bits, n) \o <<BitTime(bits[m])>>)
        BY <3>1, <3>2, <3>4, AddsMore
      <3> QED
        BY <3>3, <3>4, <3>5
    <2> HIDE DEF Good
    <2>6. 0 \in G
      BY <2>4
    <2>7. ASSUME NEW n \in Nat, n \in G
          PROVE  n + 1 \in G
      <3> SUFFICES ASSUME (n + 1) + 1 <= Len(bits) PROVE Good((n + 1) + 1)
        OBVIOUS
      <3>1. n + 1 \in 1 .. Len(bits) /\ Good(n + 1)
        BY <1>1, <2>7
      <3> QED
        BY <2>5, <3>1
    <2>8. Nat \subseteq G
      <3> HIDE DEF G
      <3> QED
        BY <2>6, <2>7, SetInduction
    <2>9. Good(Len(bits))
      <3>1. Len(bits) - 1 \in Nat /\ (Len(bits) - 1) + 1 = Len(bits)
        BY <1>1, <1>4
      <3> QED
        BY <2>8, <3>1
    <2> QED
      BY <1>1, <1>2, <2>1, <2>9 DEF Good
  <1> QED
    BY <1>3, <1>4

LEMMA OneIs == ASSUME NEW n \in Nat PROVE <<n>> \in Seq(Nat) /\ Len(<<n>>) = 1 /\ <<n>>[1] = n
  OBVIOUS

LEMMA SynchIs ==
    ASSUME NEW q \in Signal, Fill(samples_per_delimiter, 0) \in Signal,
           d_data0 \in Signal, Symbol(samples_per_rtcal) \in Signal
    PROVE  q \o d_framesync =
               ((q \o Fill(samples_per_delimiter, 0)) \o d_data0) \o Symbol(samples_per_rtcal)
  <1>1. PICK z \in Signal, d \in Signal, c \in Signal :
            /\ z = Fill(samples_per_delimiter, 0) /\ d = d_data0
            /\ c = Symbol(samples_per_rtcal)
    OBVIOUS
  <1>2. PICK x \in Signal : x = z \o d
    BY BeginsWhole
  <1>3. (q \o x) \o c = q \o (x \o c)
    BY ONLY Associates, q \in Signal, x \in Signal, c \in Signal
  <1>4. (q \o z) \o d = q \o (z \o d)
    BY ONLY Associates, q \in Signal, z \in Signal, d \in Signal
  <1> QED
    BY <1>1, <1>2, <1>3, <1>4 DEF d_framesync

\* RTcal is the third symbol behind the carrier.
LEMMA SynchAdds ==
    ASSUME NEW p \in Signal, Low(p), NEW h \in Nat \ {0}
    PROVE  LET t == (p \o Fill(h, 1)) \o d_framesync
           IN  /\ t \in Signal /\ Low(t) /\ Extends(Edges(p), Edges(t))
               /\ Len(Edges(t)) = Len(Edges(p)) + 3
               /\ Gap(Edges(t), Len(Edges(p)) + 2) = samples_per_rtcal
  <1>1. /\ samples_per_delimiter \in Nat \ {0} /\ samples_per_tari \in Nat
        /\ samples_per_tari > samples_per_pw /\ samples_per_rtcal \in Nat
        /\ samples_per_rtcal > samples_per_pw /\ 0 \in Samples /\ 1 \in Samples
    BY SamplesAssumption DEF samples_per_rtcal, Samples
  <1>2. /\ Fill(h, 1) \in Signal /\ Fill(samples_per_delimiter, 0) \in Signal
        /\ d_data0 \in Signal /\ Symbol(samples_per_rtcal) \in Signal
    BY <1>1, CodeIsSignal, FillFacts, SymbolIsSignal
  <1>3. PICK q \in Signal : q = p \o Fill(h, 1)
    BY <1>2, BeginsWhole
  <1>4. PICK z \in Signal, d \in Signal, c \in Signal :
          /\ z = Fill(samples_per_delimiter, 0) /\ d = d_data0
          /\ c = Symbol(samples_per_rtcal)
    BY <1>2
  <1>5. PICK a \in Signal : a = q \o z
    BY BeginsWhole
  <1>6. PICK b \in Signal : b = a \o d
    BY BeginsWhole
  <1>7. PICK t \in Signal : t = b \o c
    BY BeginsWhole
  <1>8. (p \o Fill(h, 1)) \o d_framesync = t
    <2>1. q \o d_framesync =
              ((q \o Fill(samples_per_delimiter, 0)) \o d_data0) \o Symbol(samples_per_rtcal)
      BY <1>2, SynchIs
    <2> QED
      BY <1>3, <1>4, <1>5, <1>6, <1>7, <2>1
  <1>9. PICK ls \in Seq(Nat) : ls = <<h + samples_per_delimiter>> /\ Len(ls) = 1
    <2>1. h + samples_per_delimiter \in Nat
      BY <1>1
    <2> QED
      BY <2>1, OneIs
  <1>10. PICK ms \in Seq(Nat) : ms = <<samples_per_tari>> /\ Len(ms) = 1
    BY <1>1, OneIs
  <1>11. PICK ns \in Seq(Nat) :
             ns = <<samples_per_rtcal>> /\ Len(ns) = 1 /\ ns[1] = samples_per_rtcal
    BY <1>1, OneIs
  <1>12. Adds(p, a, ls)
    BY <1>1, <1>3, <1>4, <1>5, <1>9, BlockAdds
  <1>13. Low(a)
    BY <1>12 DEF Adds
  <1>14. Adds(a, b, ms)
    BY <1>1, <1>4, <1>6, <1>10, <1>13, SymbolAdds DEF d_data0
  <1>15. Low(b)
    BY <1>14 DEF Adds
  <1>16. Adds(b, t, ns)
    BY <1>1, <1>4, <1>7, <1>11, <1>15, SymbolAdds
  <1>17. PICK xs \in Seq(Nat) : xs = ls \o ms
    BY ConcatProperties
  <1>18. PICK ys \in Seq(Nat) : ys = xs \o ns
    BY ConcatProperties
  <1>19. Adds(p, b, xs)
    BY <1>12, <1>14, <1>17, AddsMore
  <1>20. Adds(p, t, ys)
    BY <1>16, <1>18, <1>19, AddsMore
  <1>21. Len(ys) = 3 /\ ys[3] = samples_per_rtcal
    <2>1. Len(xs) = 2
      BY <1>9, <1>10, <1>17, ConcatProperties
    <2>2. /\ Len(ys) = Len(xs) + Len(ns)
          /\ \A i \in 1 .. Len(xs) + Len(ns) :
                ys[i] = IF i <= Len(xs) THEN xs[i] ELSE ns[i - Len(xs)]
      BY <1>18, ConcatProperties
    <2>3. Len(ys) = 3 /\ 3 \in 1 .. Len(xs) + Len(ns) /\ ~ (3 <= Len(xs)) /\ 3 - Len(xs) = 1
      BY <1>11, <2>1, <2>2
    <2>4. ys[3] = ns[3 - Len(xs)]
      BY <2>2, <2>3
    <2> QED
      BY <1>11, <2>3, <2>4
  <1>22. Len(Edges(p)) \in Nat /\ 3 \in 1 .. Len(ys)
    BY <1>21, EdgesAreNumbers
  <1>23. Gap(Edges(t), Len(Edges(p)) + 3 - 1) = ys[3] /\ Len(Edges(p)) + 3 - 1 = Len(Edges(p)) + 2
    BY <1>20, <1>22 DEF Adds
  <1> QED
    BY <1>8, <1>20, <1>21, <1>23 DEF Adds

\* What the tag measures of a query.
LEMMA QueryGaps ==
    ASSUME NEW off \in Nat
    PROVE  LET x == ToCarrier(off)
           IN  /\ x \in Signal /\ Low(x)
               /\ Len(Edges(x)) = 5 + Len(QueryBits)
               /\ Gap(Edges(x), 3) = samples_per_rtcal
               /\ \A k \in 1 .. Len(QueryBits) : Gap(Edges(x), 4 + k) = BitTime(QueryBits[k])
  <1>1. /\ samples_per_trcal \in Nat /\ samples_per_trcal > samples_per_pw
        /\ Carrier \in Nat \ {0} /\ QueryBits \in Seq({0, 1}) /\ Len(QueryBits) \in Nat
        /\ 0 \in Samples /\ 1 \in Samples
    BY SamplesAssumption, EncoderAssumption DEF samples_per_rtcal, Samples
  <1>2. PICK n \in Nat : n = Len(QueryBits)
    BY <1>1
  <1>3. PICK p \in Signal : p = Fill(off, 0)
    BY <1>1, FillFacts
  <1>4. Low(p) /\ Len(Edges(p)) = 1
    <2>1. << >> \in Signal /\ << >> \o Fill(off, 0) = p
      BY <1>3, ConcatEmptySeq DEF Signal
    <2>2. Rises(p) = << >>
      BY <2>1, RisesOfLow, RisesOfNothing
    <2>3. Low(p)
      <3>1. Len(p) = off /\ \A i \in 1 .. off : p[i] = 0
        BY <1>1, <1>3, FillFacts
      <3>2. off = 0 => p = << >>
        BY <3>1, EmptySeq DEF Signal
      <3> QED
        BY <3>1, <3>2 DEF Low
    <2>4. Len(Edges(p)) = Len(Rises(p)) + 1
      BY EdgesAreNumbers
    <2>5. Len(Rises(p)) = 0
      BY <2>2
    <2> QED
      BY <2>3, <2>4, <2>5
  <1>5. PICK q \in Signal : q = (p \o Fill(Carrier, 1)) \o d_framesync
    BY <1>1, <1>4, SynchAdds
  <1>6. Low(q) /\ Len(Edges(q)) = 4 /\ Gap(Edges(q), 3) = samples_per_rtcal
    <2>1. /\ Low(q) /\ Len(Edges(q)) = Len(Edges(p)) + 3
          /\ Gap(Edges(q), Len(Edges(p)) + 2) = samples_per_rtcal
      BY <1>1, <1>4, <1>5, SynchAdds
    <2>2. Len(Edges(p)) + 3 = 4 /\ Len(Edges(p)) + 2 = 3
      BY <1>4
    <2> QED
      BY <2>1, <2>2
  <1>7. PICK t \in Signal : t = q \o Symbol(samples_per_trcal)
    BY <1>1, SymbolIsSignal, BeginsWhole
  <1>8. t = ToQuery(off)
    <2>1. PICK a \in Signal : a = p \o Fill(Carrier, 1)
      BY <1>1, FillFacts, BeginsWhole
    <2>2. PICK b \in Signal, c \in Signal : b = d_framesync /\ c = Symbol(samples_per_trcal)
      BY <1>1, CodeIsSignal, SymbolIsSignal
    <2>3. (a \o b) \o c = a \o (b \o c)
      BY ONLY Associates, a \in Signal, b \in Signal, c \in Signal
    <2> QED
      BY <1>3, <1>5, <1>7, <2>1, <2>2, <2>3 DEF ToQuery, ToPreamble, ToTimed, d_preamble
  <1>9. Adds(q, t, <<samples_per_trcal>>)
    BY <1>1, <1>6, <1>7, SymbolAdds
  <1>10. /\ Low(t) /\ Extends(Edges(q), Edges(t))
         /\ Len(Edges(t)) = 5
    <2>1. Len(<<samples_per_trcal>>) = 1
      OBVIOUS
    <2> QED
      BY <1>6, <1>9, <2>1 DEF Adds
  <1>11. PICK x \in Signal : x = t \o bit_to_pie(QueryBits)
    BY CommandsAreSignal, BeginsWhole
  <1>12. x = ToCarrier(off)
    BY <1>8, <1>11 DEF ToCarrier
  <1>13. Adds(t, x, BitTimes(QueryBits, n))
    BY <1>1, <1>2, <1>10, <1>11, BitsAdd
  <1>14. /\ Len(BitTimes(QueryBits, n)) = n
         /\ \A k \in 1 .. n : BitTimes(QueryBits, n)[k] = BitTime(QueryBits[k])
    BY <1>1, <1>2, TimesAre
  <1>15. Low(x) /\ Extends(Edges(t), Edges(x)) /\ Len(Edges(x)) = 5 + n
    BY <1>10, <1>13, <1>14 DEF Adds
  <1>16. \A k \in 1 .. n : Gap(Edges(x), 4 + k) = BitTime(QueryBits[k])
    <2>1. \A k \in 1 .. n : Gap(Edges(x), 5 + k - 1) = BitTime(QueryBits[k])
      BY <1>10, <1>13, <1>14 DEF Adds
    <2>2. \A k \in 1 .. n : 5 + k - 1 = 4 + k
      OBVIOUS
    <2> QED
      BY <2>1, <2>2
  <1>17. Gap(Edges(x), 3) = samples_per_rtcal
    <2>1. Edges(q) \in Seq(Nat) /\ Edges(t) \in Seq(Nat) /\ Edges(x) \in Seq(Nat)
      BY EdgesAreNumbers
    <2>2. Extends(Edges(q), Edges(x))
      BY <1>10, <1>15, <2>1, ExtendsMore
    <2>3. 3 \in Nat \ {0} /\ 3 < Len(Edges(q))
      BY <1>6
    <2> QED
      BY <1>6, <2>1, <2>2, <2>3, GapStays
  <1> QED
    BY <1>2, <1>12, <1>15, <1>16, <1>17

\* What it measures of the ACK behind it.
LEMMA AckGaps ==
    ASSUME NEW off \in Nat, NEW on \in Nat \ {0}, NEW r \in RN16s
    PROVE  LET x == ToCarrier(off)
               y == ToIdle(off, on, r)
               n == Len(QueryBits)
               m == Len(AckBits(r))
           IN  /\ y \in Signal /\ Low(y) /\ Extends(Edges(x), Edges(y))
               /\ Len(Edges(y)) = 8 + n + m
               /\ Gap(Edges(y), 7 + n) = samples_per_rtcal
               /\ \A k \in 1 .. m : Gap(Edges(y), 7 + n + k) = BitTime(AckBits(r)[k])
  <1>1. AckBits(r) \in Seq({0, 1})
    <2>1. r \in Seq({0, 1}) /\ <<0, 1>> \in Seq({0, 1})
      BY EncoderAssumption
    <2> QED
      BY <2>1, ConcatProperties DEF AckBits
  <1>2. PICK n \in Nat : n = Len(QueryBits)
    BY EncoderAssumption
  <1>3. PICK bits \in Seq({0, 1}) : bits = AckBits(r)
    BY <1>1
  <1>4. PICK m \in Nat : m = Len(bits)
    OBVIOUS
  <1>5. PICK x \in Signal : x = ToCarrier(off)
    BY QueryGaps
  <1>6. Low(x) /\ Len(Edges(x)) = 5 + n
    BY <1>2, <1>5, QueryGaps
  <1>7. PICK t \in Signal : t = (x \o Fill(on, 1)) \o d_framesync
    BY <1>6, SynchAdds
  <1>8. t = ToAck(off, on)
    BY <1>5, <1>7 DEF ToAck, ToSynch
  <1>9. /\ Low(t) /\ Extends(Edges(x), Edges(t))
        /\ Len(Edges(t)) = 8 + n /\ Gap(Edges(t), 7 + n) = samples_per_rtcal
    <2>1. /\ Low(t) /\ Extends(Edges(x), Edges(t)) /\ Len(Edges(t)) = Len(Edges(x)) + 3
          /\ Gap(Edges(t), Len(Edges(x)) + 2) = samples_per_rtcal
      BY <1>6, <1>7, SynchAdds
    <2>2. Len(Edges(x)) + 3 = 8 + n /\ Len(Edges(x)) + 2 = 7 + n
      BY <1>6
    <2> QED
      BY <2>1, <2>2
  <1>10. PICK y \in Signal : y = t \o bit_to_pie(bits)
    BY BitsAreSignal, BeginsWhole
  <1>11. y = ToIdle(off, on, r)
    BY <1>3, <1>8, <1>10 DEF ToIdle
  <1>12. Adds(t, y, BitTimes(bits, m))
    BY <1>4, <1>9, <1>10, BitsAdd
  <1>13. /\ Len(BitTimes(bits, m)) = m
         /\ \A k \in 1 .. m : BitTimes(bits, m)[k] = BitTime(bits[k])
    BY <1>4, TimesAre
  <1>14. Low(y) /\ Extends(Edges(t), Edges(y)) /\ Len(Edges(y)) = 8 + n + m
    BY <1>9, <1>12, <1>13 DEF Adds
  <1>15. \A k \in 1 .. m : Gap(Edges(y), 7 + n + k) = BitTime(bits[k])
    <2>1. \A k \in 1 .. m : Gap(Edges(y), (8 + n) + k - 1) = BitTime(bits[k])
      BY <1>9, <1>12, <1>13 DEF Adds
    <2>2. \A k \in 1 .. m : (8 + n) + k - 1 = 7 + n + k
      OBVIOUS
    <2> QED
      BY <2>1, <2>2
  <1>16. Edges(x) \in Seq(Nat) /\ Edges(t) \in Seq(Nat) /\ Edges(y) \in Seq(Nat)
    BY EdgesAreNumbers
  <1>17. Extends(Edges(x), Edges(y))
    BY <1>9, <1>14, <1>16, ExtendsMore
  <1>18. Gap(Edges(y), 7 + n) = samples_per_rtcal
    <2>1. PICK j \in Nat \ {0} : j = 7 + n
      <3>1. 7 + n \in Nat \ {0}
        OBVIOUS
      <3> QED
        BY <3>1
    <2>2. j < Len(Edges(t))
      BY <1>9, <2>1
    <2>3. Gap(Edges(y), j) = Gap(Edges(t), j)
      BY <1>14, <1>16, <2>2, GapStays
    <2> QED
      BY <1>9, <2>1, <2>3
  <1> QED
    BY <1>2, <1>3, <1>4, <1>5, <1>11, <1>14, <1>15, <1>17, <1>18

\* The tag tells the symbols apart.
LEMMA BitsAreTold ==
    ASSUME NEW b \in {0, 1}
    PROVE  b = IF 2 * BitTime(b) > samples_per_rtcal THEN 1 ELSE 0
  BY SamplesAssumption DEF BitTime, samples_per_rtcal

LEMMA HeardBits ==
    ASSUME NEW rises \in Seq(Nat), NEW e \in Seq(Nat), Extends(rises, e),
           NEW first \in Nat \ {0}, NEW rtcal \in Nat \ {0}, rtcal < first,
           NEW bits \in Seq({0, 1}), Len(rises) >= first + Len(bits), first <= Len(rises),
           Gap(e, rtcal) = samples_per_rtcal,
           \A k \in 1 .. Len(bits) : Gap(e, first + k - 1) = BitTime(bits[k])
    PROVE  Heard(rises, first, rtcal, Len(bits)) = bits
  <1>1. rises[rtcal + 1] - rises[rtcal] = samples_per_rtcal
    <2>1. rtcal \in 1 .. Len(rises) /\ rtcal + 1 \in 1 .. Len(rises)
      OBVIOUS
    <2> QED
      BY <2>1 DEF Extends, Gap
  <1>2. ASSUME NEW k \in 1 .. Len(bits)
        PROVE  Heard(rises, first, rtcal, Len(bits))[k] = bits[k]
    <2>1. /\ first + k - 1 \in 1 .. Len(rises) /\ first + k \in 1 .. Len(rises)
          /\ (first + k - 1) + 1 = first + k
      OBVIOUS
    <2>2. rises[first + k] - rises[first + k - 1] = BitTime(bits[k])
      BY <2>1 DEF Extends, Gap
    <2>3. Heard(rises, first, rtcal, Len(bits))[k] =
              IF 2 * BitTime(bits[k]) > samples_per_rtcal THEN 1 ELSE 0
      BY <1>1, <2>2 DEF Heard
    <2>4. PICK b \in {0, 1} : b = bits[k]
      OBVIOUS
    <2>5. b = IF 2 * BitTime(b) > samples_per_rtcal THEN 1 ELSE 0
      BY BitsAreTold
    <2> QED
      BY ONLY <2>3, <2>4, <2>5
  <1>3. bits = [k \in 1 .. Len(bits) |-> bits[k]]
    OBVIOUS
  <1>4. Heard(rises, first, rtcal, Len(bits)) =
            [k \in 1 .. Len(bits) |-> Heard(rises, first, rtcal, Len(bits))[k]]
    BY DEF Heard
  <1> HIDE DEF Heard
  <1> QED
    BY <1>2, <1>3, <1>4

\* The rises of a wire that has not got further than the carrier.
LEMMA RisesOfQuery ==
    ASSUME EncoderTypeOK, NEW k \in 0 .. 7, NEW on \in 0 .. MaxIdle, NEW r \in RN16s,
           NEW off \in 0 .. MaxIdle, SignalAt(k, off, on, r), on = 0 \/ k < 5
    PROVE  Extends(Rises(wire), Edges(ToCarrier(off)))
  <1>1. off \in Nat /\ on \in Nat /\ 1 \in Samples /\ wire \in Signal
    BY EncoderAssumption DEF Samples, EncoderTypeOK
  <1>2. k \in 0 .. 4
    BY <1>1 DEF SignalAt, At5, At6, At7
  <1>3. Begins(Sent, ToSynch(off, on)) /\ Begins(wire, Sent) /\ Sent \in Signal
    BY <1>2, SentToSynch, SentIsSignal
  <1>4. PICK x \in Signal : x = ToCarrier(off)
    BY <1>1, QueryGaps
  <1>5. PICK y \in Signal : y = x \o Fill(on + 1, 1)
    <2>1. on + 1 \in Nat
      BY <1>1
    <2> QED
      BY <1>1, <2>1, FillFacts, BeginsWhole
  <1>6. Begins(ToSynch(off, on), y) /\ ToSynch(off, on) \in Signal
    <2>1. on + 1 \in Nat /\ on <= on + 1
      BY <1>1
    <2>2. Begins(Fill(on, 1), Fill(on + 1, 1)) /\ Fill(on, 1) \in Signal
      BY <1>1, <2>1, FillBegins, FillFacts
    <2>3. Begins(x \o Fill(on, 1), x \o Fill(on + 1, 1))
      BY ONLY <2>2, BeginsBehind, x \in Signal
    <2>4. ToSynch(off, on) \in Signal
      BY <1>1, BurstsAreSignal
    <2> QED
      BY <1>4, <1>5, <2>3, <2>4 DEF ToSynch
  <1>7. Begins(wire, y)
    <2>1. Begins(Sent, y)
      BY ONLY <1>3, <1>6, BeginsBegins
    <2> QED
      BY ONLY <1>1, <1>3, <2>1, BeginsBegins
  <1>8. Rises(y) = Edges(ToCarrier(off))
    <2>1. Low(x)
      BY <1>1, <1>4, QueryGaps
    <2> QED
      BY <1>1, <1>4, <1>5, <2>1, RisesOfHigh DEF Edges
  <1> QED
    BY <1>1, <1>7, <1>8, RisesOfMore

\* The rises of one that has.
LEMMA RisesOfAck ==
    ASSUME EncoderTypeOK, NEW k \in 0 .. 7, NEW on \in 0 .. MaxIdle, NEW r \in RN16s,
           NEW off \in 0 .. MaxIdle, SignalAt(k, off, on, r), on # 0
    PROVE  Extends(Rises(wire), Edges(ToIdle(off, on, r)))
  <1>1. /\ off \in Nat /\ on \in Nat \ {0} /\ MaxIdle \in Nat \ {0}
        /\ wire \in Signal /\ MaxIdle - 1 \in Nat /\ (MaxIdle - 1) + 1 = MaxIdle
    BY EncoderAssumption DEF EncoderTypeOK
  <1>2. Begins(Sent, Bursts(off, on, r)) /\ Begins(wire, Sent) /\ Sent \in Signal
    BY SentIsBursts, SentIsSignal
  <1>3. Begins(wire, Bursts(off, on, r))
    BY ONLY <1>1, <1>2, BeginsBegins
  <1>4. PICK y \in Signal : y = ToIdle(off, on, r)
    BY <1>1, AckGaps
  <1>5. Low(y)
    BY <1>1, <1>4, AckGaps
  <1>6. Rises(y \o Fill((MaxIdle - 1) + 1, 1)) = Edges(y)
    BY <1>1, <1>5, RisesOfHigh DEF Edges
  <1>7. Rises(Bursts(off, on, r)) = Edges(y)
    BY <1>1, <1>4, <1>6 DEF Bursts
  <1> QED
    BY <1>1, <1>3, <1>4, <1>7, RisesOfMore

LEMMA QueryIsHeard ==
    ASSUME NEW rises \in Seq(Nat), NEW e \in Seq(Nat), Extends(rises, e),
           NEW bits \in Seq({0, 1}), 5 <= Len(rises), Len(rises) >= 5 + Len(bits),
           Gap(e, 3) = samples_per_rtcal,
           \A k \in 1 .. Len(bits) : Gap(e, 5 + k - 1) = BitTime(bits[k])
    PROVE  Heard(rises, 5, 3, Len(bits)) = bits
  <1>1. PICK first \in Nat \ {0}, rtcal \in Nat \ {0} : first = 5 /\ rtcal = 3
    OBVIOUS
  <1>2. /\ rtcal < first /\ first <= Len(rises) /\ Len(rises) >= first + Len(bits)
        /\ Gap(e, rtcal) = samples_per_rtcal
        /\ \A k \in 1 .. Len(bits) : Gap(e, first + k - 1) = BitTime(bits[k])
    BY <1>1
  <1>3. Heard(rises, first, rtcal, Len(bits)) = bits
    BY <1>2, HeardBits
  <1> QED
    BY <1>1, <1>3

LEMMA InvIsUnderstood == EncoderInv => TagUnderstands
  <1> SUFFICES ASSUME EncoderInv PROVE TagUnderstands
    OBVIOUS
  <1>1. PICK k \in 0 .. 7, off \in 0 .. MaxIdle, on \in 0 .. MaxIdle, r \in RN16s :
            SignalAt(k, off, on, r)
    BY DEF EncoderInv, RoundAt
  <1>2. EncoderTypeOK /\ wire \in Signal /\ off \in Nat /\ on \in Nat
    BY EncoderAssumption DEF EncoderInv, EncoderTypeOK
  <1>3. PICK rises \in Seq(Nat) : rises = Rises(wire)
    BY <1>2, EdgesAreNumbers
  <1>4. PICK q \in Nat : q = Len(QueryBits)
    BY EncoderAssumption
  <1>5. /\ QueryBits \in Seq({0, 1}) /\ AckBits(r) \in Seq({0, 1})
        /\ \A s \in RN16s : Len(s) \in Nat /\ Len(AckBits(r)) = 2 + Len(s)
    <2>1. QueryBits \in Seq({0, 1}) /\ \A s \in RN16s : s \in Seq({0, 1}) /\ Len(s) = Len(r)
      BY EncoderAssumption
    <2>2. <<0, 1>> \in Seq({0, 1}) /\ Len(<<0, 1>>) = 2
      OBVIOUS
    <2>3. AckBits(r) \in Seq({0, 1}) /\ Len(AckBits(r)) = 2 + Len(r)
      BY <2>1, <2>2, ConcatProperties DEF AckBits
    <2>4. ASSUME NEW s \in RN16s PROVE Len(s) \in Nat /\ Len(AckBits(r)) = 2 + Len(s)
      <3>1. s \in Seq({0, 1}) /\ Len(s) = Len(r)
        BY <2>1
      <3>2. Len(s) \in Nat
        BY <3>1
      <3> QED
        BY <2>3, <3>1, <3>2
    <2> QED
      BY <2>1, <2>3, <2>4
  <1>6. PICK e \in Seq(Nat) : e = Edges(ToCarrier(off))
    BY <1>2, QueryGaps, EdgesAreNumbers
  <1>7. /\ Len(e) = 5 + q /\ Gap(e, 3) = samples_per_rtcal
        /\ \A i \in 1 .. q : Gap(e, 4 + i) = BitTime(QueryBits[i])
    BY <1>2, <1>4, <1>6, QueryGaps
  <1> DEFINE Query1 == Len(rises) >= 5 + q => Heard(rises, 5, 3, q) = QueryBits
             Ack1 == \A n \in {2 + Len(rn16) : rn16 \in RN16s} :
                        Len(rises) >= 5 + q + 3 + n =>
                            Heard(rises, 5 + q + 3, 5 + q + 2, n) \in {AckBits(rn16) : rn16 \in RN16s}
  <1>8. SUFFICES Query1 /\ Ack1
    BY <1>3, <1>4 DEF TagUnderstands
  <1>9. CASE on = 0 \/ k < 5
    <2>1. Extends(rises, e)
      BY <1>1, <1>2, <1>3, <1>6, <1>9, RisesOfQuery
    <2>2. Len(rises) \in Nat /\ Len(rises) <= 5 + q
      BY <1>7, <2>1 DEF Extends
    <2>3. Query1
      <3> SUFFICES ASSUME Len(rises) >= 5 + q PROVE Heard(rises, 5, 3, q) = QueryBits
        OBVIOUS
      <3>1. \A i \in 1 .. Len(QueryBits) : Gap(e, 5 + i - 1) = BitTime(QueryBits[i])
        <4>1. \A i \in 1 .. q : 5 + i - 1 = 4 + i
          OBVIOUS
        <4> QED
          BY <1>4, <1>7, <4>1
      <3>2. 5 <= Len(rises) /\ Len(rises) >= 5 + Len(QueryBits)
        BY <1>4, <2>2
      <3>3. Heard(rises, 5, 3, Len(QueryBits)) = QueryBits
        BY <1>5, <1>7, <2>1, <3>1, <3>2, QueryIsHeard
      <3> QED
        BY <1>4, <3>3
    <2>4. Ack1
      <3>1. \A n \in {2 + Len(rn16) : rn16 \in RN16s} : n \in Nat
        BY <1>5
      <3> QED
        BY <2>2, <3>1
    <2> QED
      BY <2>3, <2>4
  <1>10. CASE ~ (on = 0 \/ k < 5)
    <2>1. on \in Nat \ {0}
      BY <1>2, <1>10
    <2>2. PICK m \in Nat : m = Len(AckBits(r))
      BY <1>5
    <2>3. PICK f \in Seq(Nat) : f = Edges(ToIdle(off, on, r))
      BY <1>2, <2>1, AckGaps, EdgesAreNumbers
    <2>4. /\ Extends(e, f) /\ Len(f) = 8 + q + m /\ Gap(f, 7 + q) = samples_per_rtcal
          /\ \A i \in 1 .. m : Gap(f, 7 + q + i) = BitTime(AckBits(r)[i])
      BY <1>2, <1>4, <1>6, <2>1, <2>2, <2>3, AckGaps
    <2>5. Extends(rises, f)
      BY <1>1, <1>2, <1>3, <1>10, <2>3, RisesOfAck
    <2>6. Query1
      <3> SUFFICES ASSUME Len(rises) >= 5 + q PROVE Heard(rises, 5, 3, q) = QueryBits
        OBVIOUS
      <3>1. ASSUME NEW j \in Nat \ {0}, j < 5 + q
            PROVE  Gap(f, j) = Gap(e, j)
        BY <1>7, <2>4, <3>1, GapStays
      <3>2. Gap(f, 3) = samples_per_rtcal
        BY <1>7, <3>1
      <3>3. \A i \in 1 .. Len(QueryBits) : Gap(f, 5 + i - 1) = BitTime(QueryBits[i])
        <4>1. \A i \in 1 .. q : 5 + i - 1 = 4 + i /\ 4 + i \in Nat \ {0} /\ 4 + i < 5 + q
          OBVIOUS
        <4> QED
          BY <1>4, <1>7, <3>1, <4>1
      <3>4. 5 <= Len(rises) /\ Len(rises) >= 5 + Len(QueryBits)
        BY <1>4
      <3>5. Heard(rises, 5, 3, Len(QueryBits)) = QueryBits
        BY <1>5, <2>5, <3>2, <3>3, <3>4, QueryIsHeard
      <3> QED
        BY <1>4, <3>5
    <2>7. Ack1
      <3> SUFFICES ASSUME Len(rises) >= 5 + q + 3 + m
                   PROVE  Heard(rises, 5 + q + 3, 5 + q + 2, m) = AckBits(r)
        BY <1>5, <2>2
      <3>1. PICK first \in Nat \ {0}, rtcal \in Nat \ {0} : first = 5 + q + 3 /\ rtcal = 5 + q + 2
        <4>1. 5 + q + 3 \in Nat \ {0} /\ 5 + q + 2 \in Nat \ {0}
          OBVIOUS
        <4> QED
          BY <4>1
      <3>2. rtcal < first /\ first <= Len(rises) /\ Len(rises) >= first + Len(AckBits(r))
        BY <2>2, <3>1
      <3>3. Gap(f, rtcal) = samples_per_rtcal
        <4>1. rtcal = 7 + q
          BY <3>1
        <4> QED
          BY <2>4, <4>1
      <3>4. \A i \in 1 .. Len(AckBits(r)) : Gap(f, first + i - 1) = BitTime(AckBits(r)[i])
        <4>1. \A i \in 1 .. m : first + i - 1 = 7 + q + i
          BY <3>1
        <4> QED
          BY <2>2, <2>4, <4>1
      <3> QED
        BY <1>5, <2>2, <2>5, <3>1, <3>2, <3>3, <3>4, HeardBits
    <2> QED
      BY <2>6, <2>7
  <1> QED
    BY <1>9, <1>10

(***************************************************************************)
(* Whatever the waveform with a data 1 longer than a data 0, the query and *)
(* the RN16s, and whenever the MAC queues its tasks and the scheduler asks *)
(* for samples, a tag that measures the commands from one rising edge to   *)
(* the next, as TagUnderstands does, reads the bits of the query and of an *)
(* ACK as soon as the edges behind them are sent.                          *)
(***************************************************************************)
THEOREM TagHearsItsCommands == Spec => []TagUnderstands
  <1>1. Init => EncoderInv
    BY EncoderStarts
  <1>2. EncoderInv /\ [Next]_vars => EncoderInv'
    BY EncoderSteps
  <1>3. EncoderInv => TagUnderstands
    BY InvIsUnderstood
  <1> QED
    BY <1>1, <1>2, <1>3, PTL DEF Spec
=============================================================================
