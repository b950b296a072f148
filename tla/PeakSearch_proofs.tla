------------------------- MODULE PeakSearch_proofs -------------------------
(***************************************************************************)
(* Proofs for every number of inputs, rates, lengths, starts, thresholds,  *)
(* peaks, bursts and calls, and every way in which the threads interleave: *)
(* first that the mux keeps to its buffers and that its output is whole    *)
(* frames, provided that the resamplers write whole bursts; then that the  *)
(* counters and pick_peak decide as the mux's model lets them, and that    *)
(* every frame of the output begins sample_offset items in front of its    *)
(* peak.                                                                   *)
(***************************************************************************)
EXTENDS PeakSearch, FiniteSetTheorems, WellFoundedInduction, TLAPS

-----------------------------------------------------------------------------
(***************************************************************************)
(* The mux.                                                                *)
(***************************************************************************)
\* With a part of a burst the first command of a call may leave less on the
\* input than the next one takes.
WholeWrites == \A c \in Inputs : \A n \in Arrivals[c] : n % BurstLen[c] = 0

MuxTypeOK ==
    /\ written \in [Inputs -> Nat] /\ nread \in [Inputs -> Nat]
    /\ starts \in Seq(Inputs \X Starts)
    /\ d_queue \in Seq(Cmd) /\ pending \in Seq(Cmd) /\ d_current_cmd \in Cmd
    /\ working \in BOOLEAN
    /\ ninput_items \in [Inputs -> Nat] /\ ii \in [Inputs -> Nat]
    /\ noutput_items \in Nat /\ oo \in Nat
    /\ out \in Seq([in : Inputs, item : Nat, tagged : BOOLEAN])

Whole(c, n) == \E e \in Nat : n = e * BurstLen[c]

\* The input of a call ends where a burst does.
CallsAreWhole ==
    /\ \A c \in Inputs : Whole(c, written[c])
    /\ working => \A c \in Inputs : Whole(c, nread[c] + ninput_items[c])
    /\ ~working => ii = Zero /\ ninput_items = Zero /\ oo = 0 /\ noutput_items = 0

-----------------------------------------------------------------------------
(***************************************************************************)
(* What is queued.  A mark says where the mux is in pick_peak's commands:  *)
(* in which frame, at which of its commands or in the flushes behind it,   *)
(* and which inputs have been flushed since.                               *)
(***************************************************************************)
Marks == [frame : Nat, phase : {"DELETE", "LEAD", "TAG", "BODY", "FLUSH"},
          flushed : SUBSET Inputs]

CommandOf(ss, m) ==
    [cmd |-> IF m.phase = "DELETE" THEN "MUX_DELETE"
             ELSE IF m.phase = "TAG" THEN "MUX_TAG" ELSE "MUX_COPY",
     in_sel |-> ss[m.frame][1],
     len |-> IF m.phase = "DELETE" THEN ss[m.frame][2]
             ELSE IF m.phase = "LEAD" THEN Lead
             ELSE IF m.phase = "TAG" THEN 0 ELSE OutputLen]

\* A command of a frame of ss leads from mark a to mark b, or a flush does.
CopiesTo(ss, a, b) ==
    /\ b.phase # "FLUSH" /\ b.flushed = {}
    /\ b.frame > 0 /\ b.frame <= Len(ss)
    /\ \/ /\ b.phase = "DELETE"
          /\ a.phase = "FLUSH" /\ a.flushed = Inputs /\ b.frame = a.frame + 1
       \/ /\ b.frame = a.frame
          /\ \/ a.phase = "DELETE" /\ b.phase = "LEAD"
             \/ a.phase = "LEAD" /\ b.phase = "TAG"
             \/ a.phase = "TAG" /\ b.phase = "BODY"

FlushesTo(a, c, b) ==
    /\ b.phase = "FLUSH" /\ a.phase \in {"BODY", "FLUSH"}
    /\ b.frame = a.frame /\ b.flushed = a.flushed \cup {c}

LeadsTo(ss, a, q, b) ==
    \/ q.cmd = "MUX_FLUSH" /\ FlushesTo(a, q.in_sel, b)
    \/ CopiesTo(ss, a, b) /\ q = CommandOf(ss, b)

Finished(ss) == [frame |-> Len(ss), phase |-> "FLUSH", flushed |-> Inputs]

\* The commands of q take the mux from the first of these marks through the
\* others to the end of the last frame of ss.
Course(q, ss, g) ==
    /\ g \in [0 .. Len(q) -> Marks]
    /\ \A i \in 1 .. Len(q) : LeadsTo(ss, g[i - 1], q[i], g[i])
    /\ g[Len(q)] = Finished(ss)

Leads(m, q, ss) == \E g : Course(q, ss, g) /\ g[0] = m

-----------------------------------------------------------------------------
(***************************************************************************)
(* Where the mux is.                                                       *)
(***************************************************************************)
\* At place p, x items of a burst of input c are read.
StandsAt(p, c, x) == \E b \in Nat : p = b * BurstLen[c] + x

Chosen(m) == starts[m.frame][1]

Offset(m) == starts[m.frame][2]

Copied(m) ==
    IF m.phase = "DELETE" THEN 0
    ELSE IF m.phase = "LEAD" THEN Lead - d_current_cmd.len
    ELSE IF m.phase = "TAG" THEN IF d_state = "WAIT" THEN Lead + 1 ELSE Lead
    ELSE FrameLen - d_current_cmd.len

InBurst(m) ==
    IF m.phase = "DELETE" THEN Offset(m) - d_current_cmd.len ELSE Offset(m) + Copied(m)

StateOf(m) ==
    IF m.phase = "DELETE" THEN "DELETE" ELSE IF m.phase = "TAG" THEN "TAG_COPY" ELSE "COPY"

InFrame(m) ==
    /\ m.frame > 0 /\ m.flushed = {}
    /\ d_state \in {"WAIT", StateOf(m)}
    /\ d_state # "WAIT" => in_sel = Chosen(m)
    /\ m.phase # "TAG" => /\ d_current_cmd.len \in 0 .. CommandOf(starts, m).len
                          /\ d_state = "WAIT" => d_current_cmd.len = 0
    /\ StandsAt(nread[Chosen(m)] + ii[Chosen(m)], Chosen(m), InBurst(m))
    /\ Len(out) = (m.frame - 1) * FrameLen + Copied(m)
    /\ Copied(m) > 0 => out[Len(out)].item = nread[Chosen(m)] + ii[Chosen(m)]

\* Behind the frame its input is read up to the frame's end, or flushed.
Flushing(m) ==
    /\ d_state \in {"WAIT", "DELETE_FLUSH"}
    /\ Len(out) = m.frame * FrameLen
    /\ m.frame > 0 =>
          \E x \in {0, Offset(m) + FrameLen} :
              StandsAt(nread[Chosen(m)] + ii[Chosen(m)], Chosen(m), x)
    /\ \A c \in m.flushed :
          (d_state = "DELETE_FLUSH" /\ c = in_sel) \/ StandsAt(nread[c] + ii[c], c, 0)

Here(m) ==
    /\ m.frame <= Len(starts)
    /\ \A c \in Inputs : (m.frame > 0 => c # Chosen(m)) => StandsAt(nread[c] + ii[c], c, 0)
    /\ IF m.phase = "FLUSH" THEN Flushing(m) ELSE InFrame(m)

MuxInv ==
    /\ MuxTypeOK /\ CallsAreWhole /\ BuffersRespected /\ FramesAreWhole
    /\ \E m \in Marks : Leads(m, d_queue \o pending, starts) /\ Here(m)

-----------------------------------------------------------------------------
\* The least of a set of numbers is in it.
LEMMA MinIsLeast ==
    ASSUME NEW S, S \subseteq Nat, S # {}
    PROVE  Min(S) \in S /\ \A y \in S : Min(S) <= y
  <1>1. PICK x \in S : \A y \in S : ~(<<y, x>> \in OpToRel(<, Nat))
    BY NatLessThanWellFounded, WFMin
  <1>2. ASSUME NEW y \in S
        PROVE  x <= y
    <2>1. x \in Nat /\ y \in Nat
      OBVIOUS
    <2>2. y < x => <<y, x>> \in OpToRel(<, Nat)
      BY <2>1 DEF OpToRel
    <2>3. ~(<<y, x>> \in OpToRel(<, Nat))
      BY <1>1
    <2>4. ~(y < x)
      BY <2>2, <2>3
    <2> QED
      BY <2>1, <2>4
  <1> QED
    BY <1>2 DEF Min

\* What general_work can process of a command.
LEMMA SmallestOfThree ==
    ASSUME NEW a \in Nat, NEW b \in Nat, NEW c \in Nat
    PROVE  /\ Min({a, b, c}) \in Nat
           /\ Min({a, b, c}) <= a /\ Min({a, b, c}) <= b /\ Min({a, b, c}) <= c
  <1> DEFINE S == {a, b, c}
  <1>1. S \subseteq Nat /\ S # {} /\ a \in S /\ b \in S /\ c \in S
    OBVIOUS
  <1> HIDE DEF S
  <1>2. Min(S) \in S /\ \A y \in S : Min(S) <= y
    BY <1>1, MinIsLeast
  <1> QED
    BY <1>1, <1>2 DEF S

LEMMA SmallestOfTwo ==
    ASSUME NEW a \in Nat, NEW b \in Nat
    PROVE  Min({a, b}) \in Nat /\ Min({a, b}) <= a /\ Min({a, b}) <= b
  <1> DEFINE S == {a, b}
  <1>1. S \subseteq Nat /\ S # {} /\ a \in S /\ b \in S
    OBVIOUS
  <1> HIDE DEF S
  <1>2. Min(S) \in S /\ \A y \in S : Min(S) <= y
    BY <1>1, MinIsLeast
  <1> QED
    BY <1>1, <1>2 DEF S

-----------------------------------------------------------------------------
\* Products.
LEMMA ProductInNat ==
    ASSUME NEW a \in Nat, NEW b \in Nat
    PROVE  a * b \in Nat
  OBVIOUS

LEMMA TimesMonotone ==
    ASSUME NEW a \in Nat, NEW b \in Nat, NEW n \in Nat, a <= b
    PROVE  a * n <= b * n /\ a * n \in Nat /\ b * n \in Nat
  OBVIOUS

LEMMA NextMultiple ==
    ASSUME NEW a \in Int, NEW n \in Nat
    PROVE  (a + 1) * n = a * n + n /\ a * n \in Int
  OBVIOUS

LEMMA SumOfMultiples ==
    ASSUME NEW a \in Nat, NEW b \in Nat, NEW n \in Nat
    PROVE  a * n + b * n = (a + b) * n /\ a + b \in Nat
  OBVIOUS

LEMMA WholeAndRest ==
    ASSUME NEW a \in Nat, NEW n \in Nat \ {0}
    PROVE  /\ a \div n \in Nat /\ a % n \in Nat /\ a % n < n
           /\ a = (a \div n) * n + (a % n)
  OBVIOUS

\* Which frame an item belongs to, and where it is in it.
LEMMA FrameAndPlace ==
    ASSUME NEW q \in Nat, NEW r \in Nat, NEW n \in Nat \ {0}, r < n
    PROVE  (q * n + r) \div n = q /\ (q * n + r) % n = r
  OBVIOUS

\* No more items than there are are left of a burst of which some are: the
\* input ends where a burst does.
LEMMA RestOfBurst ==
    ASSUME NEW b \in Nat, NEW e \in Nat, NEW n \in Nat, NEW x \in Nat,
           b * n + x < e * n
    PROVE  b * n + n <= e * n
  <1>1. b * n \in Nat /\ e * n \in Nat
    BY ProductInNat
  <1>2. b < e
    <2>1. CASE e <= b
      BY <1>1, <2>1, TimesMonotone
    <2> QED
      BY <2>1
  <1>3. (b + 1) * n <= e * n
    BY <1>2, TimesMonotone
  <1> QED
    BY <1>3, NextMultiple

\* The inputs and the lengths.
LEMMA LengthFacts ==
    /\ Lead \in Nat \ {0} /\ OutputLen \in Nat \ {0} /\ FrameLen \in Nat \ {0}
    /\ FrameLen = Lead + 1 + OutputLen
    /\ \A c \in Inputs : BurstLen[c] \in Nat \ {0}
    /\ \A s \in Starts : s \in Nat
    /\ \A c \in Inputs : \A s \in Starts : s + FrameLen <= BurstLen[c]
  BY MuxAssumption DEF FrameLen

LEMMA InputFacts ==
    \E n \in Nat \ {0} : n = Cardinality(Inputs) /\ Inputs = 0 .. n - 1
  <1>1. Cardinality(Inputs) \in Nat
    BY MuxAssumption, FS_CardinalityType
  <1>2. Cardinality(Inputs) # 0
    BY MuxAssumption, FS_EmptySet
  <1> QED
    BY <1>1, <1>2, MuxAssumption

-----------------------------------------------------------------------------
\* Two sequences, one behind the other.
LEMMA ConcatFacts ==
    ASSUME NEW S, NEW s \in Seq(S), NEW t \in Seq(S)
    PROVE  /\ s \o t \in Seq(S) /\ Len(s \o t) = Len(s) + Len(t)
           /\ DOMAIN (s \o t) = 1 .. Len(s) + Len(t)
           /\ \A i \in 1 .. Len(s) : (s \o t)[i] = s[i]
           /\ \A i \in 1 .. Len(t) : (s \o t)[Len(s) + i] = t[i]
  OBVIOUS

\* A frame's commands and the flushes behind the commands queued.
LEMMA BatchFacts ==
    ASSUME NEW q \in Seq(Cmd), NEW p \in Seq(Cmd), NEW f \in Seq(Cmd)
    PROVE  /\ Len(q \o (p \o f)) = Len(q) + Len(p) + Len(f)
           /\ \A i \in 1 .. Len(q) : (q \o (p \o f))[i] = q[i]
           /\ \A i \in 1 .. Len(p) : (q \o (p \o f))[Len(q) + i] = p[i]
           /\ \A i \in 1 .. Len(f) : (q \o (p \o f))[Len(q) + Len(p) + i] = f[i]
  <1> PICK n \in Nat : n = Len(q)
    OBVIOUS
  <1> PICK m \in Nat : m = Len(p)
    OBVIOUS
  <1> PICK k \in Nat : k = Len(f)
    OBVIOUS
  <1> DEFINE b == p \o f
             r == q \o b
  <1>1. /\ b \in Seq(Cmd) /\ Len(b) = Len(p) + Len(f)
        /\ \A i \in 1 .. Len(p) : b[i] = p[i]
        /\ \A i \in 1 .. Len(f) : b[Len(p) + i] = f[i]
    BY ConcatFacts
  <1> HIDE DEF b
  <1>2. /\ Len(r) = Len(q) + Len(b)
        /\ \A i \in 1 .. Len(q) : r[i] = q[i]
        /\ \A i \in 1 .. Len(b) : r[Len(q) + i] = b[i]
    <2>1. b \in Seq(Cmd)
      BY <1>1
    <2> QED
      BY <2>1, ConcatFacts
  <1> HIDE DEF r
  <1>3. /\ Len(r) = n + (m + k)
        /\ \A i \in 1 .. m + k : r[n + i] = b[i]
        /\ \A i \in 1 .. m : b[i] = p[i]
        /\ \A i \in 1 .. k : b[m + i] = f[i]
    BY <1>1, <1>2
  <1>4. ASSUME NEW i \in 1 .. k
        PROVE  r[n + m + i] = f[i]
    <2>1. m + i \in 1 .. m + k /\ n + (m + i) = n + m + i
      OBVIOUS
    <2>2. r[n + (m + i)] = b[m + i]
      BY <1>3, <2>1
    <2> QED
      BY <1>3, <2>1, <2>2
  <1>5. ASSUME NEW i \in 1 .. m
        PROVE  r[n + i] = p[i]
    <2>1. i \in 1 .. m + k
      OBVIOUS
    <2> QED
      BY <1>3, <2>1
  <1> QED
    BY <1>2, <1>3, <1>4, <1>5 DEF r, b

\* The first of one sequence moved to the end of the one in front of it.
LEMMA QueueMoves ==
    ASSUME NEW S, NEW s \in Seq(S), NEW t \in Seq(S), t # << >>
    PROVE  /\ Head(t) \in S /\ Tail(t) \in Seq(S) /\ Append(s, Head(t)) \in Seq(S)
           /\ Append(s, Head(t)) \o Tail(t) = s \o t
  OBVIOUS

\* The commands of a frame, and those of the flushes.
LEMMA CommandsAreCommands ==
    ASSUME NEW c \in Inputs, NEW s \in Starts
    PROVE  CopyOut(c, s) \in Seq(Cmd) /\ Len(CopyOut(c, s)) = 4
  <1>1. s \in Int /\ Lead \in Int /\ OutputLen \in Int
    BY LengthFacts
  <1> QED
    BY <1>1 DEF CopyOut, Cmd

LEMMA FlushesAreCommands ==
    ASSUME NEW n \in Nat, n = Cardinality(Inputs), Inputs = 0 .. n - 1
    PROVE  /\ FlushAll \in Seq(Cmd) /\ Len(FlushAll) = n
           /\ \A i \in 1 .. n : FlushAll[i].cmd = "MUX_FLUSH" /\ FlushAll[i].in_sel = i - 1
  <1> DEFINE F(i) == [cmd |-> "MUX_FLUSH", in_sel |-> i - 1, len |-> -1]
  <1>1. FlushAll = [i \in 1 .. n |-> F(i)]
    BY DEF FlushAll
  <1>2. ASSUME NEW i \in 1 .. n
        PROVE  F(i) \in Cmd /\ F(i).cmd = "MUX_FLUSH" /\ F(i).in_sel = i - 1
    <2> HIDE DEF F
    <2>1. i - 1 \in 0 .. n - 1
      OBVIOUS
    <2>2. i - 1 \in Inputs
      BY <2>1
    <2>3. -1 \in Int
      OBVIOUS
    <2> QED
      BY <2>2, <2>3 DEF F, Cmd
  <1> HIDE DEF F
  <1>3. FlushAll \in [1 .. n -> Cmd]
    BY <1>1, <1>2
  <1>4. FlushAll \in Seq(Cmd) /\ Len(FlushAll) = n
    BY <1>3
  <1> QED
    BY <1>1, <1>2, <1>4

\* Popping a command goes one mark on.
LEMMA CoursePops ==
    ASSUME NEW q \in Seq(Cmd), NEW ss, NEW m, Leads(m, q, ss), Len(q) > 0
    PROVE  \E b \in Marks : LeadsTo(ss, m, Head(q), b) /\ Leads(b, Tail(q), ss)
  <1> PICK g : Course(q, ss, g) /\ g[0] = m
    BY DEF Leads
  <1> PICK n \in Nat : n = Len(q)
    OBVIOUS
  <1> DEFINE h == [i \in 0 .. n - 1 |-> g[i + 1]]
             t == Tail(q)
  <1>1. /\ g \in [0 .. n -> Marks]
        /\ \A i \in 1 .. n : LeadsTo(ss, g[i - 1], q[i], g[i])
        /\ g[n] = Finished(ss)
    BY DEF Course
  <1>2. n > 0 /\ Head(q) = q[1] /\ Len(t) = n - 1 /\ \A i \in 1 .. n - 1 : t[i] = q[i + 1]
    OBVIOUS
  <1> HIDE DEF t
  <1>3. g[0] \in Marks /\ g[1] \in Marks
    BY <1>1, <1>2
  <1>4. LeadsTo(ss, g[0], Head(q), g[1])
    <2>1. LeadsTo(ss, g[1 - 1], q[1], g[1])
      BY <1>1, <1>2
    <2> QED
      BY <1>2, <2>1
  <1>5. h \in [0 .. n - 1 -> Marks] /\ h[0] = g[1] /\ h[n - 1] = Finished(ss)
    BY <1>1, <1>2
  <1>6. ASSUME NEW i \in 1 .. n - 1
        PROVE  LeadsTo(ss, h[i - 1], t[i], h[i])
    <2>1. i + 1 \in 1 .. n /\ i - 1 \in 0 .. n - 1 /\ i \in 0 .. n - 1
      OBVIOUS
    <2>2. LeadsTo(ss, g[(i + 1) - 1], q[i + 1], g[i + 1])
      BY <1>1, <2>1
    <2>3. h[i - 1] = g[(i + 1) - 1] /\ h[i] = g[i + 1] /\ t[i] = q[i + 1]
      <3>1. h[i - 1] = g[(i - 1) + 1] /\ (i - 1) + 1 = (i + 1) - 1
        BY <2>1
      <3> QED
        BY <1>2, <2>1, <3>1
    <2> QED
      BY <2>2, <2>3
  <1> HIDE DEF h
  <1>7. Course(t, ss, h)
    BY <1>2, <1>5, <1>6 DEF Course
  <1> QED
    BY <1>3, <1>4, <1>5, <1>7 DEF t, Leads

\* Flushes alone stay at the end of the last frame.
LEMMA FlushesExtend ==
    ASSUME NEW q \in Seq(Cmd), NEW ss, Len(ss) \in Nat, NEW m, Leads(m, q, ss)
    PROVE  Leads(m, q \o FlushAll, ss)
  <1> PICK g : Course(q, ss, g) /\ g[0] = m
    BY DEF Leads
  <1> PICK k \in Nat \ {0} : k = Cardinality(Inputs) /\ Inputs = 0 .. k - 1
    BY InputFacts
  <1> PICK n \in Nat : n = Len(q)
    OBVIOUS
  <1> DEFINE f == FlushAll
             r == q \o f
             z == Finished(ss)
             h == [i \in 0 .. n + k |-> IF i <= n THEN g[i] ELSE z]
  <1>1. f \in Seq(Cmd) /\ Len(f) = k
        /\ \A i \in 1 .. k : f[i].cmd = "MUX_FLUSH" /\ f[i].in_sel = i - 1
    BY FlushesAreCommands
  <1> HIDE DEF f
  <1>2. /\ Len(r) = n + k
        /\ \A i \in 1 .. n : r[i] = q[i]
        /\ \A i \in 1 .. k : r[n + i] = f[i]
    <2> HIDE DEF h, z
    <2>1. /\ Len(r) = Len(q) + Len(f)
          /\ \A i \in 1 .. Len(q) : r[i] = q[i]
          /\ \A i \in 1 .. Len(f) : r[Len(q) + i] = f[i]
      <3>1. f \in Seq(Cmd)
        BY <1>1
      <3> QED
        BY <3>1, ConcatFacts
    <2> HIDE DEF r
    <2> QED
      BY <1>1, <2>1
  <1> HIDE DEF r
  <1>3. /\ g \in [0 .. n -> Marks]
        /\ \A i \in 1 .. n : LeadsTo(ss, g[i - 1], q[i], g[i])
        /\ g[n] = z
    BY DEF Course
  <1>4. z \in Marks /\ z.phase = "FLUSH" /\ z.flushed = Inputs
    BY DEF Finished, Marks
  <1> HIDE DEF z
  <1>5. h \in [0 .. n + k -> Marks] /\ h[0] = g[0] /\ h[n + k] = z
    BY <1>3, <1>4
  <1>6. ASSUME NEW i \in 1 .. n + k
        PROVE  LeadsTo(ss, h[i - 1], r[i], h[i])
    <2>1. CASE i \in 1 .. n
      <3>1. h[i - 1] = g[i - 1] /\ h[i] = g[i] /\ r[i] = q[i]
        BY <1>2, <2>1
      <3> QED
        BY <1>3, <2>1, <3>1
    <2>2. CASE i \notin 1 .. n
      <3>1. PICK j \in 1 .. k : i = n + j
        <4>1. i - n \in 1 .. k /\ i = n + (i - n)
          BY <2>2
        <4> QED
          BY <4>1
      <3>2. h[i - 1] = z /\ h[i] = z
        BY <1>3, <3>1
      <3>3. r[i].cmd = "MUX_FLUSH" /\ r[i].in_sel \in Inputs
        <4>1. r[i] = f[j] /\ j - 1 \in 0 .. k - 1
          BY <1>2, <3>1
        <4>2. f[j].cmd = "MUX_FLUSH" /\ f[j].in_sel = j - 1
          BY <1>1, <3>1
        <4> QED
          BY <4>1, <4>2
      <3>4. FlushesTo(z, r[i].in_sel, z)
        BY <1>4, <3>3 DEF FlushesTo
      <3> QED
        BY <3>2, <3>3, <3>4 DEF LeadsTo
    <2> QED
      BY <2>1, <2>2
  <1> HIDE DEF h
  <1>7. Course(r, ss, h)
    BY <1>2, <1>5, <1>6 DEF Course, z
  <1> QED
    BY <1>5, <1>7 DEF r, f, Leads

\* A new frame leaves the commands of the others as they are.
LEMMA LeadsOn ==
    ASSUME NEW ss \in Seq(Inputs \X Starts), NEW w \in Inputs \X Starts,
           NEW a, NEW q, NEW b \in Marks, LeadsTo(ss, a, q, b)
    PROVE  LeadsTo(Append(ss, w), a, q, b)
  <1> DEFINE tt == Append(ss, w)
  <1>1. /\ Len(tt) = Len(ss) + 1 /\ Len(ss) \in Nat
        /\ \A i \in 1 .. Len(ss) : tt[i] = ss[i]
    OBVIOUS
  <1> HIDE DEF tt
  <1>2. CASE q.cmd = "MUX_FLUSH" /\ FlushesTo(a, q.in_sel, b)
    BY <1>2 DEF LeadsTo
  <1>3. CASE CopiesTo(ss, a, b) /\ q = CommandOf(ss, b)
    <2>1. b.frame \in 1 .. Len(ss) /\ b.frame <= Len(tt)
      BY <1>1, <1>3 DEF CopiesTo, Marks
    <2>2. CopiesTo(tt, a, b)
      BY <1>3, <2>1 DEF CopiesTo
    <2>3. CommandOf(tt, b) = CommandOf(ss, b)
      BY <1>1, <2>1 DEF CommandOf
    <2> QED
      BY <1>3, <2>2, <2>3 DEF LeadsTo, tt
  <1> QED
    BY <1>2, <1>3 DEF LeadsTo

\* The commands of a frame take the mux through it.
LEMMA FrameExtends ==
    ASSUME NEW q \in Seq(Cmd), NEW ss \in Seq(Inputs \X Starts), NEW m, Leads(m, q, ss),
           NEW c \in Inputs, NEW s \in Starts
    PROVE  Leads(m, q \o (CopyOut(c, s) \o FlushAll), Append(ss, <<c, s>>))
  <1> PICK g : Course(q, ss, g) /\ g[0] = m
    BY DEF Leads
  <1> PICK k \in Nat \ {0} : k = Cardinality(Inputs) /\ Inputs = 0 .. k - 1
    BY InputFacts
  <1> PICK n \in Nat : n = Len(q)
    OBVIOUS
  <1> PICK l \in Nat : l = Len(ss)
    OBVIOUS
  <1> DEFINE f == FlushAll
             p == CopyOut(c, s)
             r == q \o (p \o f)
             tt == Append(ss, <<c, s>>)
             U(j) == 0 .. j - 1
             M(phase, flushed) == [frame |-> l + 1, phase |-> phase, flushed |-> flushed]
             h == [i \in 0 .. n + 4 + k |->
                     IF i <= n THEN g[i]
                     ELSE IF i = n + 1 THEN M("DELETE", {})
                     ELSE IF i = n + 2 THEN M("LEAD", {})
                     ELSE IF i = n + 3 THEN M("TAG", {})
                     ELSE IF i = n + 4 THEN M("BODY", {})
                     ELSE M("FLUSH", U(i - (n + 4)))]
  <1>1. f \in Seq(Cmd) /\ Len(f) = k
        /\ \A i \in 1 .. k : f[i].cmd = "MUX_FLUSH" /\ f[i].in_sel = i - 1
    BY FlushesAreCommands
  <1>2. p \in Seq(Cmd) /\ Len(p) = 4
    BY CommandsAreCommands
  <1>3. <<c, s>> \in Inputs \X Starts /\ tt[l + 1] = <<c, s>> /\ Len(tt) = l + 1
    OBVIOUS
  <1>4. /\ p[1] = CommandOf(tt, M("DELETE", {})) /\ p[2] = CommandOf(tt, M("LEAD", {}))
        /\ p[3] = CommandOf(tt, M("TAG", {})) /\ p[4] = CommandOf(tt, M("BODY", {}))
    BY <1>3 DEF CopyOut, CommandOf
  <1> HIDE DEF f, p
  <1>5. /\ Len(r) = n + 4 + k
        /\ \A i \in 1 .. n : r[i] = q[i]
        /\ \A i \in 1 .. 4 : r[n + i] = p[i]
        /\ \A i \in 1 .. k : r[n + 4 + i] = f[i]
    <2> HIDE DEF h, M, U, tt
    <2>1. /\ Len(r) = Len(q) + Len(p) + Len(f)
          /\ \A i \in 1 .. Len(q) : r[i] = q[i]
          /\ \A i \in 1 .. Len(p) : r[Len(q) + i] = p[i]
          /\ \A i \in 1 .. Len(f) : r[Len(q) + Len(p) + i] = f[i]
      BY <1>1, <1>2, BatchFacts
    <2> HIDE DEF r
    <2> QED
      BY <1>1, <1>2, <2>1
  <1> HIDE DEF r
  <1>6. /\ g \in [0 .. n -> Marks]
        /\ \A i \in 1 .. n : LeadsTo(ss, g[i - 1], q[i], g[i])
        /\ g[n] = Finished(ss)
    BY DEF Course
  <1>7. \A i \in 1 .. n : LeadsTo(tt, g[i - 1], q[i], g[i])
    <2> HIDE DEF h, M
    <2>1. ASSUME NEW i \in 1 .. n
          PROVE  LeadsTo(tt, g[i - 1], q[i], g[i])
      <3>1. i \in 0 .. n
        OBVIOUS
      <3>2. g[i] \in Marks
        BY <1>6, <3>1
      <3>3. LeadsTo(ss, g[i - 1], q[i], g[i])
        BY <1>6
      <3> QED
        BY <1>3, <3>2, <3>3, LeadsOn
    <2> QED
      BY <2>1
  <1> HIDE DEF tt
  <1>8. /\ DOMAIN h = 0 .. n + 4 + k
        /\ \A i \in 0 .. n : h[i] = g[i]
        /\ h[n + 1] = M("DELETE", {}) /\ h[n + 2] = M("LEAD", {})
        /\ h[n + 3] = M("TAG", {}) /\ h[n + 4] = M("BODY", {})
        /\ \A j \in 1 .. k : h[n + 4 + j] = M("FLUSH", U(j))
    <2> HIDE DEF M, U
    <2>1. /\ h[n + 1] = M("DELETE", {}) /\ h[n + 2] = M("LEAD", {})
          /\ h[n + 3] = M("TAG", {}) /\ h[n + 4] = M("BODY", {})
      OBVIOUS
    <2>2. \A i \in 0 .. n : h[i] = g[i]
      OBVIOUS
    <2>3. ASSUME NEW j \in 1 .. k
          PROVE  h[n + 4 + j] = M("FLUSH", U(j))
      <3>1. (n + 4 + j) - (n + 4) = j /\ n + 4 + j \in 0 .. n + 4 + k
            /\ n + 4 + j > n + 4
        OBVIOUS
      <3>2. h[n + 4 + j] = M("FLUSH", U((n + 4 + j) - (n + 4)))
        BY <3>1
      <3> QED
        BY <3>1, <3>2
    <2> QED
      BY <2>1, <2>2, <2>3
  <1>9. h = [i \in 0 .. n + 4 + k |-> h[i]]
    OBVIOUS
  <1> HIDE DEF h
  <1>10. /\ \A j \in 1 .. k : U(j) \subseteq Inputs /\ U(j) = U(j - 1) \cup {j - 1}
         /\ U(0) = {} /\ U(k) = Inputs
    <2>1. ASSUME NEW j \in 1 .. k
          PROVE  0 .. j - 1 \subseteq Inputs /\ 0 .. j - 1 = (0 .. (j - 1) - 1) \cup {j - 1}
      <3>1. j - 1 \in 0 .. k - 1
        OBVIOUS
      <3>2. 0 .. j - 1 = (0 .. (j - 1) - 1) \cup {j - 1}
        OBVIOUS
      <3>3. 0 .. j - 1 \subseteq 0 .. k - 1
        OBVIOUS
      <3> QED
        BY <3>2, <3>3
    <2>2. 0 .. 0 - 1 = {} /\ 0 .. k - 1 = Inputs
      OBVIOUS
    <2> QED
      BY <2>1, <2>2
  <1> HIDE DEF U
  <1>11. /\ h \in [0 .. n + 4 + k -> Marks]
         /\ h[0] = g[0] /\ h[n + 4 + k] = Finished(tt)
    <2>1. ASSUME NEW i \in 0 .. n + 4 + k
          PROVE  h[i] \in Marks
      <3>1. CASE i \in 0 .. n
        BY <1>6, <1>8, <3>1
      <3>2. CASE i \in {n + 1, n + 2, n + 3, n + 4}
        BY <1>8, <3>2 DEF Marks
      <3>3. CASE i > n + 4
        <4>1. PICK j \in 1 .. k : i = n + 4 + j
          <5>1. i - (n + 4) \in 1 .. k /\ i = n + 4 + (i - (n + 4))
            BY <3>3
          <5> QED
            BY <5>1
        <4>2. U(j) \subseteq Inputs /\ h[i] = M("FLUSH", U(j))
          BY <1>8, <1>10, <4>1
        <4> QED
          BY <4>2 DEF Marks
      <3> QED
        BY <3>1, <3>2, <3>3, SMTT(60)
    <2>2. h \in [0 .. n + 4 + k -> Marks]
      BY <1>9, <2>1
    <2>3. h[n + 4 + k] = M("FLUSH", U(k))
      <3>1. k \in 1 .. k
        OBVIOUS
      <3> QED
        BY <1>8, <3>1
    <2>4. h[0] = g[0]
      BY <1>8
    <2> QED
      BY <1>3, <1>10, <2>2, <2>3, <2>4 DEF Finished
  <1>12. ASSUME NEW i \in 1 .. n + 4 + k
         PROVE  LeadsTo(tt, h[i - 1], r[i], h[i])
    <2>1. CASE i \in 1 .. n
      <3>1. h[i - 1] = g[i - 1] /\ h[i] = g[i] /\ r[i] = q[i]
        <4>1. i \in 0 .. n /\ i - 1 \in 0 .. n
          BY <2>1
        <4> QED
          BY <1>5, <1>8, <2>1, <4>1
      <3> QED
        BY <1>7, <2>1, <3>1
    <2>2. CASE i = n + 1
      <3>1. h[i - 1] = Finished(ss) /\ h[i] = M("DELETE", {}) /\ r[i] = p[1]
        BY <1>5, <1>6, <1>8, <2>2, SMTT(60)
      <3>2. CopiesTo(tt, h[i - 1], h[i])
        BY <1>3, <3>1 DEF CopiesTo, Finished
      <3> QED
        BY <1>4, <3>1, <3>2 DEF LeadsTo
    <2>3. CASE i = n + 2
      <3>1. h[i - 1] = M("DELETE", {}) /\ h[i] = M("LEAD", {}) /\ r[i] = p[2]
        BY <1>5, <1>8, <2>3
      <3>2. CopiesTo(tt, h[i - 1], h[i])
        BY <1>3, <3>1 DEF CopiesTo
      <3> QED
        BY <1>4, <3>1, <3>2 DEF LeadsTo
    <2>4. CASE i = n + 3
      <3>1. h[i - 1] = M("LEAD", {}) /\ h[i] = M("TAG", {}) /\ r[i] = p[3]
        BY <1>5, <1>8, <2>4
      <3>2. CopiesTo(tt, h[i - 1], h[i])
        BY <1>3, <3>1 DEF CopiesTo
      <3> QED
        BY <1>4, <3>1, <3>2 DEF LeadsTo
    <2>5. CASE i = n + 4
      <3>1. h[i - 1] = M("TAG", {}) /\ h[i] = M("BODY", {}) /\ r[i] = p[4]
        BY <1>5, <1>8, <2>5
      <3>2. CopiesTo(tt, h[i - 1], h[i])
        BY <1>3, <3>1 DEF CopiesTo
      <3> QED
        BY <1>4, <3>1, <3>2 DEF LeadsTo
    <2>6. CASE i > n + 4
      <3>1. PICK j \in 1 .. k : i = n + 4 + j
        <4>1. i - (n + 4) \in 1 .. k /\ i = n + 4 + (i - (n + 4))
          BY <2>6
        <4> QED
          BY <4>1
      <3>2. r[i].cmd = "MUX_FLUSH" /\ r[i].in_sel = j - 1
        BY <1>1, <1>5, <3>1
      <3>3. h[i] = M("FLUSH", U(j))
        BY <1>8, <3>1
      <3>4. \/ h[i - 1] = M("BODY", {}) /\ j = 1
            \/ h[i - 1] = M("FLUSH", U(j - 1))
        <4>1. CASE j = 1
          BY <1>8, <3>1, <4>1
        <4>2. CASE j > 1
          <5>1. j - 1 \in 1 .. k /\ i - 1 = n + 4 + (j - 1)
            BY <3>1, <4>2
          <5> QED
            BY <1>8, <5>1
        <4> QED
          BY <4>1, <4>2
      <3>5. U(j) = U(j - 1) \cup {j - 1} /\ (j = 1 => U(j - 1) = {})
        BY <1>10
      <3>7. FlushesTo(h[i - 1], r[i].in_sel, h[i])
        BY <3>2, <3>3, <3>4, <3>5 DEF FlushesTo
      <3> QED
        BY <3>2, <3>7 DEF LeadsTo
    <2>7. i \in 1 .. n \/ i \in {n + 1, n + 2, n + 3, n + 4} \/ i > n + 4
      BY SMTT(60)
    <2> QED
      BY <2>1, <2>2, <2>3, <2>4, <2>5, <2>6, <2>7
  <1>13. Course(r, tt, h)
    BY <1>5, <1>11, <1>12 DEF Course
  <1> QED
    BY <1>11, <1>13 DEF r, p, f, tt, Leads

-----------------------------------------------------------------------------
\* The frame a mark is in.
LEMMA FrameFacts ==
    ASSUME MuxTypeOK, NEW m \in Marks, m.frame > 0, m.frame <= Len(starts)
    PROVE  /\ m.frame \in Nat
           /\ Chosen(m) \in Inputs /\ Offset(m) \in Starts /\ Offset(m) \in Nat
           /\ BurstLen[Chosen(m)] \in Nat \ {0}
           /\ Offset(m) + FrameLen <= BurstLen[Chosen(m)]
  <1>1. m.frame \in 1 .. Len(starts)
    BY DEF Marks, MuxTypeOK
  <1>2. starts[m.frame] \in Inputs \X Starts
    BY <1>1 DEF MuxTypeOK
  <1>3. Chosen(m) \in Inputs /\ Offset(m) \in Starts
    BY <1>2 DEF Chosen, Offset
  <1> QED
    BY <1>1, <1>3, LengthFacts

\* What leaves the places read alone leaves the mux where it is.
LEMMA HereKept ==
    ASSUME MuxTypeOK, NEW m \in Marks, Here(m),
           UNCHANGED <<d_state, d_current_cmd, out>>,
           \A c \in Inputs : nread'[c] + ii'[c] = nread[c] + ii[c],
           m.frame <= Len(starts'), m.frame > 0 => starts'[m.frame] = starts[m.frame]
    PROVE  Here(m)'
  <1>1. m.frame > 0 => Chosen(m) \in Inputs /\ Chosen(m)' = Chosen(m) /\ Offset(m)' = Offset(m)
    BY FrameFacts DEF Here, Chosen, Offset
  <1>2. ASSUME NEW c \in Inputs, m.frame > 0 => c # Chosen(m)'
        PROVE  StandsAt(nread'[c] + ii'[c], c, 0)
    <2>1. m.frame > 0 => c # Chosen(m)
      BY <1>1, <1>2
    <2> QED
      BY <2>1 DEF Here
  <1>3. CASE m.phase = "FLUSH"
    <2>1. Flushing(m)
      BY <1>3 DEF Here
    <2>2. m.flushed \subseteq Inputs
      BY DEF Marks
    <2>3. \A c \in m.flushed :
             (d_state' = "DELETE_FLUSH" /\ c = in_sel') \/ StandsAt(nread'[c] + ii'[c], c, 0)
      BY <2>1, <2>2 DEF Flushing, in_sel
    <2>4. m.frame > 0 =>
             \E x \in {0, Offset(m)' + FrameLen} :
                 StandsAt(nread'[Chosen(m)'] + ii'[Chosen(m)'], Chosen(m)', x)
      BY <1>1, <2>1 DEF Flushing
    <2>5. Flushing(m)'
      BY <2>1, <2>3, <2>4 DEF Flushing
    <2> QED
      BY <1>2, <1>3, <2>5 DEF Here
  <1>4. CASE m.phase # "FLUSH"
    <2>1. InFrame(m) /\ m.frame > 0
      BY <1>4 DEF Here, InFrame
    <2>2. Copied(m)' = Copied(m) /\ InBurst(m)' = InBurst(m)
      BY <1>1, <2>1 DEF Copied, InBurst
    <2>3. CommandOf(starts', m).len = CommandOf(starts, m).len
      BY <2>1 DEF CommandOf
    <2>4. nread'[Chosen(m)'] + ii'[Chosen(m)'] = nread[Chosen(m)] + ii[Chosen(m)]
      BY <1>1, <2>1
    <2>5. StandsAt(nread'[Chosen(m)'] + ii'[Chosen(m)'], Chosen(m)', InBurst(m)')
      BY <1>1, <2>1, <2>2, <2>4 DEF InFrame
    <2>6. InFrame(m)'
      BY <1>1, <2>1, <2>2, <2>3, <2>4, <2>5 DEF InFrame, StateOf, in_sel
    <2> QED
      BY <1>2, <1>4, <2>6 DEF Here
  <1> QED
    BY <1>3, <1>4

\* The frames copied stay whole while neither they nor what was asked changes.
LEMMA FramesStayWhole ==
    ASSUME MuxTypeOK, FramesAreWhole, UNCHANGED out,
           Len(starts') >= Len(starts), Len(starts') \in Nat,
           \A f \in 1 .. Len(starts) : starts'[f] = starts[f]
    PROVE  FramesAreWhole'
  <1> SUFFICES ASSUME NEW k \in DOMAIN out
               PROVE  LET f == (k - 1) \div FrameLen + 1
                          pos == (k - 1) % FrameLen
                          c == starts'[f][1]
                      IN
                      /\ f <= Len(starts')
                      /\ out[k].in = c
                      /\ (out[k].item - 1 - pos) % BurstLen[c] = starts'[f][2]
                      /\ pos > 0 => out[k].item = out[k - 1].item + 1
                      /\ out[k].tagged <=> pos = Lead
    BY DEF FramesAreWhole
  <1> DEFINE f == (k - 1) \div FrameLen + 1
             pos == (k - 1) % FrameLen
  <1>1. /\ f <= Len(starts)
        /\ out[k].in = starts[f][1]
        /\ (out[k].item - 1 - pos) % BurstLen[starts[f][1]] = starts[f][2]
        /\ pos > 0 => out[k].item = out[k - 1].item + 1
        /\ out[k].tagged <=> pos = Lead
    BY DEF FramesAreWhole
  <1>2. f \in 1 .. Len(starts)
    <2>1. k \in Nat \ {0} /\ FrameLen \in Nat \ {0} /\ Len(starts) \in Nat
      BY LengthFacts, SMTT(60) DEF MuxTypeOK
    <2>2. (k - 1) \div FrameLen \in Nat
      <3>1. k - 1 \in Nat
        BY <2>1
      <3> QED
        BY <2>1, <3>1, WholeAndRest
    <2> QED
      BY <1>1, <2>1, <2>2
  <1>3. starts'[f] = starts[f] /\ f <= Len(starts')
    BY <1>1, <1>2
  <1> HIDE DEF f, pos
  <1> QED
    BY <1>1, <1>3 DEF f, pos

-----------------------------------------------------------------------------
(***************************************************************************)
(* The steps of the other threads, and the bounds of a call.               *)
(***************************************************************************)
\* A resampler writes whole bursts.
LEMMA WriteKeeps ==
    ASSUME WholeWrites, MuxInv, NEW c \in Inputs, Write(c)
    PROVE  MuxInv'
  <1>1. MuxTypeOK /\ CallsAreWhole /\ BuffersRespected /\ FramesAreWhole
    BY DEF MuxInv
  <1>2. PICK n \in Arrivals[c] : written' = [written EXCEPT ![c] = @ + n]
    BY DEF Write
  <1>3. UNCHANGED <<nread, peak, d_queue, call, mux>>
    BY DEF Write
  <1>4. n \in Nat /\ n % BurstLen[c] = 0 /\ BurstLen[c] \in Nat \ {0}
    <2>1. Arrivals[c] \subseteq Nat
      BY MuxAssumption
    <2> QED
      BY <2>1, LengthFacts DEF WholeWrites
  <1>5. written' \in [Inputs -> Nat]
    BY <1>1, <1>2, <1>4 DEF MuxTypeOK
  <1>6. Whole(c, written[c] + n)
    <2>1. PICK e \in Nat : written[c] = e * BurstLen[c]
      BY <1>1 DEF CallsAreWhole, Whole
    <2> DEFINE d == n \div BurstLen[c]
    <2>2. d \in Nat /\ n = d * BurstLen[c] + (n % BurstLen[c])
      BY <1>4, WholeAndRest
    <2> HIDE DEF d
    <2>3. d * BurstLen[c] \in Nat
      BY <1>4, <2>2, ProductInNat
    <2>4. n = d * BurstLen[c]
      BY <1>4, <2>2, <2>3
    <2>5. written[c] + n = (e + d) * BurstLen[c] /\ e + d \in Nat
      BY <1>4, <2>1, <2>2, <2>4, SumOfMultiples
    <2> QED
      BY <2>5 DEF Whole
  <1>7. \A x \in Inputs : Whole(x, written'[x])
    BY <1>1, <1>2, <1>6 DEF CallsAreWhole, MuxTypeOK
  <1>8. CallsAreWhole'
    BY <1>1, <1>3, <1>7 DEF CallsAreWhole, call, mux
  <1>9. MuxTypeOK' /\ BuffersRespected' /\ FramesAreWhole'
    BY <1>1, <1>3, <1>5 DEF MuxTypeOK, BuffersRespected, FramesAreWhole, peak, call, mux
  <1>10. PICK m \in Marks : Leads(m, d_queue \o pending, starts) /\ Here(m)
    BY DEF MuxInv
  <1>11. Leads(m, d_queue' \o pending', starts')
    BY <1>3, <1>10 DEF peak
  <1>12. Here(m)'
    BY <1>1, <1>3, <1>10, HereKept DEF peak, mux, Here
  <1> QED
    BY <1>8, <1>9, <1>11, <1>12 DEF MuxInv

\* Queueing a command changes nothing in what is ahead.
LEMMA QueueKeeps ==
    ASSUME MuxInv, Queue
    PROVE  MuxInv'
  <1>1. MuxTypeOK /\ CallsAreWhole /\ BuffersRespected /\ FramesAreWhole
    BY DEF MuxInv
  <1>2. /\ d_queue' = Append(d_queue, Head(pending)) /\ pending' = Tail(pending)
        /\ pending # << >>
        /\ UNCHANGED <<written, nread, decided, starts, call, mux>>
    BY DEF Queue
  <1>3. PICK q \in Seq(Cmd) : q = d_queue
    BY <1>1 DEF MuxTypeOK
  <1>4. PICK p \in Seq(Cmd) : p = pending
    BY <1>1 DEF MuxTypeOK
  <1>5. Head(p) \in Cmd /\ Tail(p) \in Seq(Cmd) /\ Append(q, Head(p)) \in Seq(Cmd)
        /\ Append(q, Head(p)) \o Tail(p) = q \o p
    BY <1>2, <1>4, QueueMoves
  <1>6. d_queue' \in Seq(Cmd) /\ pending' \in Seq(Cmd)
        /\ d_queue' \o pending' = d_queue \o pending
    BY <1>2, <1>3, <1>4, <1>5
  <1>7. CallsAreWhole'
    BY <1>1, <1>2 DEF CallsAreWhole, call, mux
  <1>8. MuxTypeOK' /\ BuffersRespected' /\ FramesAreWhole'
    BY <1>1, <1>2, <1>6 DEF MuxTypeOK, BuffersRespected, FramesAreWhole, call, mux
  <1>9. PICK m \in Marks : Leads(m, d_queue \o pending, starts) /\ Here(m)
    BY DEF MuxInv
  <1>10. Leads(m, d_queue' \o pending', starts')
    BY <1>2, <1>6, <1>9
  <1>11. Here(m)'
    BY <1>1, <1>2, <1>9, HereKept DEF mux, Here
  <1> QED
    BY <1>7, <1>8, <1>10, <1>11 DEF MuxInv

\* A decision adds a frame and its commands behind all others, or flushes.
LEMMA DecideKeeps ==
    ASSUME MuxInv, Decide
    PROVE  MuxInv'
  <1>1. MuxTypeOK /\ CallsAreWhole /\ BuffersRespected /\ FramesAreWhole
    BY DEF MuxInv
  <1>2. pending = << >> /\ UNCHANGED <<written, nread, d_queue, call, mux>>
    BY DEF Decide
  <1>3. PICK m \in Marks : Leads(m, d_queue \o pending, starts) /\ Here(m)
    BY DEF MuxInv
  <1>4. PICK q \in Seq(Cmd) : q = d_queue
    BY <1>1 DEF MuxTypeOK
  <1>5. PICK ss \in Seq(Inputs \X Starts) : ss = starts
    BY <1>1 DEF MuxTypeOK
  <1>6. Leads(m, q, ss)
    <2>1. q \o << >> = q
      OBVIOUS
    <2> QED
      BY <1>2, <1>3, <1>4, <1>5, <2>1
  <1>7. FlushAll \in Seq(Cmd)
    BY InputFacts, FlushesAreCommands
  <1>8. m.frame <= Len(ss) /\ Len(ss) \in Nat /\ m.frame \in Nat
    BY <1>3, <1>5 DEF Here, Marks
  <1>9. CallsAreWhole' /\ BuffersRespected'
    BY <1>1, <1>2 DEF CallsAreWhole, BuffersRespected, call, mux
  <1>10. CASE pending' = FlushAll /\ UNCHANGED starts
    <2>1. Leads(m, q \o FlushAll, ss)
      BY <1>6, <1>8, FlushesExtend
    <2>2. Leads(m, d_queue' \o pending', starts')
      BY <1>2, <1>4, <1>5, <1>10, <2>1
    <2>3. Here(m)'
      BY <1>1, <1>2, <1>3, <1>10, HereKept DEF mux, Here
    <2>4. MuxTypeOK' /\ FramesAreWhole'
      BY <1>1, <1>2, <1>7, <1>10 DEF MuxTypeOK, FramesAreWhole, call, mux
    <2> QED
      BY <1>9, <2>2, <2>3, <2>4 DEF MuxInv
  <1>11. ASSUME NEW c \in Inputs, NEW s \in Starts,
                pending' = CopyOut(c, s) \o FlushAll, starts' = Append(starts, <<c, s>>)
         PROVE  MuxInv'
    <2> DEFINE tt == Append(ss, <<c, s>>)
               p == CopyOut(c, s)
    <2>1. Leads(m, q \o (p \o FlushAll), tt)
      BY <1>6, FrameExtends
    <2>2. Leads(m, d_queue' \o pending', starts')
      BY <1>2, <1>4, <1>5, <1>11, <2>1
    <2>3. /\ tt \in Seq(Inputs \X Starts) /\ Len(tt) = Len(ss) + 1
          /\ \A f \in 1 .. Len(ss) : tt[f] = ss[f]
      <3>1. <<c, s>> \in Inputs \X Starts
        OBVIOUS
      <3> QED
        BY <3>1
    <2> HIDE DEF tt
    <2>4. starts' = tt
      BY <1>5, <1>11 DEF tt
    <2>5. m.frame <= Len(starts') /\ (m.frame > 0 => starts'[m.frame] = starts[m.frame])
      <3>1. m.frame > 0 => m.frame \in 1 .. Len(ss)
        BY <1>8
      <3>2. m.frame <= Len(tt)
        BY <1>8, <2>3
      <3> QED
        BY <1>5, <2>3, <2>4, <3>1, <3>2
    <2>6. Here(m)'
      BY <1>1, <1>2, <1>3, <2>5, HereKept DEF mux
    <2>7. FramesAreWhole'
      <3>1. Len(starts') >= Len(starts) /\ Len(starts') \in Nat
        BY <1>5, <1>8, <2>3, <2>4
      <3>2. \A f \in 1 .. Len(starts) : starts'[f] = starts[f]
        BY <1>5, <2>3, <2>4
      <3> QED
        BY <1>1, <1>2, <3>1, <3>2, FramesStayWhole DEF mux
    <2>8. pending' \in Seq(Cmd)
      <3>1. p \in Seq(Cmd)
        BY CommandsAreCommands
      <3> HIDE DEF p
      <3>2. p \o FlushAll \in Seq(Cmd)
        BY <1>7, <3>1
      <3> QED
        BY <1>11, <3>2 DEF p
    <2>9. MuxTypeOK'
      BY <1>1, <1>2, <2>3, <2>4, <2>8 DEF MuxTypeOK, call, mux
    <2> QED
      BY <1>9, <2>2, <2>6, <2>7, <2>9 DEF MuxInv
  <1> QED
    BY <1>10, <1>11 DEF Decide

\* A call begins with whole bursts and ends by consuming what it used.
LEMMA CallsKeep ==
    ASSUME MuxInv, BeginWork \/ EndWork
    PROVE  MuxInv'
  <1>1. MuxTypeOK /\ CallsAreWhole /\ BuffersRespected /\ FramesAreWhole
    BY DEF MuxInv
  <1>2. UNCHANGED <<written, peak, d_queue, d_state, d_current_cmd, out>>
    BY DEF BeginWork, EndWork
  <1>3. /\ nread' \in [Inputs -> Nat] /\ ii' = Zero /\ oo' = 0
        /\ \A c \in Inputs : nread'[c] + ii'[c] = nread[c] + ii[c]
    <2>1. CASE BeginWork
      <3>1. ii = Zero /\ ii' = Zero /\ nread' = nread /\ oo' = 0
        BY <1>1, <2>1 DEF BeginWork, CallsAreWhole
      <3> QED
        BY <1>1, <3>1 DEF MuxTypeOK
    <2>2. CASE EndWork
      <3>1. nread' = [c \in Inputs |-> nread[c] + ii[c]] /\ ii' = Zero /\ oo' = 0
        BY <2>2 DEF EndWork
      <3>2. \A c \in Inputs : nread[c] + ii[c] \in Nat
        BY <1>1 DEF MuxTypeOK
      <3>3. \A c \in Inputs : ii'[c] = 0
        BY <3>1 DEF Zero
      <3> QED
        BY <3>1, <3>2, <3>3
    <2> QED
      BY <2>1, <2>2
  <1>4. /\ working' \in BOOLEAN /\ noutput_items' \in Nat
        /\ ninput_items' \in [Inputs -> Nat]
        /\ working' => \A c \in Inputs : Whole(c, nread'[c] + ninput_items'[c])
        /\ ~working' => ninput_items' = Zero /\ noutput_items' = 0
    <2>1. CASE BeginWork
      <3>1. /\ ninput_items' = [c \in Inputs |-> Available(c)] /\ working' = TRUE
            /\ nread' = nread /\ \A c \in Inputs : Available(c) > 0
            /\ noutput_items' \in
                   1 .. Min({OutputSpace} \cup {Available(c) : c \in Inputs})
        BY <2>1 DEF BeginWork
      <3>2. \A c \in Inputs : Available(c) \in Nat /\ nread[c] + Available(c) = written[c]
        BY <1>1, <3>1 DEF Available, MuxTypeOK
      <3> DEFINE S == {OutputSpace} \cup {Available(c) : c \in Inputs}
      <3>3. S \subseteq Nat /\ S # {}
        BY <3>2, MuxAssumption
      <3> HIDE DEF S
      <3>4. Min(S) \in Nat
        BY <3>3, MinIsLeast
      <3>5. noutput_items' \in Nat
        BY <3>1, <3>4 DEF S
      <3>6. \A c \in Inputs : nread'[c] + ninput_items'[c] = written[c]
        BY <3>1, <3>2
      <3>7. \A c \in Inputs : Whole(c, nread'[c] + ninput_items'[c])
        BY <1>1, <3>6 DEF CallsAreWhole
      <3> QED
        BY <3>1, <3>2, <3>5, <3>7
    <2>2. CASE EndWork
      BY <2>2 DEF EndWork, Zero
    <2> QED
      BY <2>1, <2>2
  <1>5. ii' \in [Inputs -> Nat] /\ \A c \in Inputs : ii'[c] = 0
    BY <1>3 DEF Zero
  <1>6. CallsAreWhole'
    BY <1>1, <1>2, <1>3, <1>4 DEF CallsAreWhole, Whole
  <1>7. MuxTypeOK'
    BY <1>1, <1>2, <1>3, <1>4, <1>5 DEF MuxTypeOK, peak
  <1>8. BuffersRespected'
    BY <1>3, <1>4, <1>5 DEF BuffersRespected
  <1>9. FramesAreWhole'
    BY <1>1, <1>2 DEF FramesAreWhole, peak
  <1>10. PICK m \in Marks : Leads(m, d_queue \o pending, starts) /\ Here(m)
    BY DEF MuxInv
  <1>11. Leads(m, d_queue' \o pending', starts')
    BY <1>2, <1>10 DEF peak
  <1>12. Here(m)'
    BY <1>1, <1>2, <1>3, <1>10, HereKept DEF peak, Here
  <1> QED
    BY <1>6, <1>7, <1>8, <1>9, <1>11, <1>12 DEF MuxInv

-----------------------------------------------------------------------------
(***************************************************************************)
(* The mux itself.                                                         *)
(***************************************************************************)
\* At first it is behind the last of no frames, as if every input were flushed.
LEMMA MuxStarts ==
    ASSUME Init
    PROVE  MuxInv
  <1> DEFINE m == Finished(starts)
  <1>1. PICK n \in Nat \ {0} : n = Cardinality(Inputs) /\ Inputs = 0 .. n - 1
    BY InputFacts
  <1>2. (CHOOSE c \in Inputs : TRUE) \in Inputs
    <2>1. 0 \in 0 .. n - 1
      OBVIOUS
    <2>2. 0 \in Inputs
      BY <1>1, <2>1
    <2> QED
      BY <2>2
  <1>3. d_current_cmd \in Cmd
    BY <1>2 DEF Init, Cmd
  <1>4. Zero \in [Inputs -> Nat] /\ \A c \in Inputs : Zero[c] = 0
    BY DEF Zero
  <1>0. /\ written = Zero /\ nread = Zero /\ ii = Zero /\ ninput_items = Zero
        /\ pending = << >> /\ starts = << >> /\ d_queue = << >> /\ out = << >>
        /\ d_state = "WAIT" /\ working = FALSE /\ noutput_items = 0 /\ oo = 0
    BY DEF Init
  <1>5. MuxTypeOK
    <2>1. /\ << >> \in Seq(Inputs \X Starts) /\ << >> \in Seq(Cmd)
          /\ << >> \in Seq([in : Inputs, item : Nat, tagged : BOOLEAN])
      OBVIOUS
    <2>2. working \in BOOLEAN /\ noutput_items \in Nat /\ oo \in Nat
      BY <1>0
    <2> QED
      BY <1>0, <1>3, <1>4, <2>1, <2>2, Zenon DEF MuxTypeOK
  <1>6. \A c \in Inputs : Whole(c, 0)
    <2>1. ASSUME NEW c \in Inputs
          PROVE  0 = 0 * BurstLen[c]
      BY LengthFacts
    <2> QED
      BY <2>1 DEF Whole
  <1>7. CallsAreWhole
    BY <1>0, <1>4, <1>6 DEF CallsAreWhole
  <1>8. BuffersRespected /\ FramesAreWhole
    BY <1>0, <1>4 DEF BuffersRespected, FramesAreWhole
  <1>9. m.frame = 0 /\ m.phase = "FLUSH" /\ m.flushed = Inputs /\ m \in Marks
    BY <1>0 DEF Finished, Marks
  <1>10. d_queue \o pending = << >> /\ Len(<< >>) = 0
    BY <1>0
  <1>11. Leads(m, << >>, starts)
    <2> DEFINE g == [i \in 0 .. 0 |-> m]
    <2>1. g \in [0 .. 0 -> Marks] /\ g[0] = m
      BY <1>9
    <2> HIDE DEF g
    <2>2. 1 .. 0 = {}
      OBVIOUS
    <2>3. Course(<< >>, starts, g)
      BY <1>10, <2>1, <2>2 DEF Course
    <2> QED
      BY <2>1, <2>3 DEF Leads
  <1>12. \A c \in Inputs : StandsAt(nread[c] + ii[c], c, 0)
    <2>1. ASSUME NEW c \in Inputs
          PROVE  nread[c] + ii[c] = 0 * BurstLen[c] + 0
      <3>1. nread[c] = 0 /\ ii[c] = 0
        BY <1>0, <1>4
      <3>2. BurstLen[c] \in Nat
        BY LengthFacts
      <3> QED
        BY <3>1, <3>2
    <2> QED
      BY <2>1 DEF StandsAt
  <1>13. Len(out) = 0 * FrameLen /\ d_state = "WAIT" /\ 0 <= Len(starts)
    BY <1>0, LengthFacts
  <1> HIDE DEF m
  <1>14. Here(m)
    BY <1>9, <1>12, <1>13 DEF Here, Flushing
  <1> QED
    BY <1>5, <1>7, <1>8, <1>9, <1>10, <1>11, <1>14 DEF MuxInv

\* The next command of a queue and what is behind it.
LEMMA QueuePops ==
    ASSUME NEW S, NEW q \in Seq(S), NEW p \in Seq(S), q # << >>
    PROVE  /\ Head(q) \in S /\ Tail(q) \in Seq(S) /\ q \o p \in Seq(S) /\ Len(q \o p) > 0
           /\ Head(q \o p) = Head(q) /\ Tail(q \o p) = Tail(q) \o p
  OBVIOUS

\* The next command begins where the last one ended.
LEMMA NextCommandKeeps ==
    ASSUME MuxInv, NextCommand, UNCHANGED <<written, nread, peak, call>>
    PROVE  MuxInv'
  <1>1. MuxTypeOK /\ CallsAreWhole /\ BuffersRespected /\ FramesAreWhole
    BY DEF MuxInv
  <1>2. /\ d_state = "WAIT" /\ d_queue # << >>
        /\ d_current_cmd' = Head(d_queue) /\ d_queue' = Tail(d_queue)
        /\ set_state(Head(d_queue).cmd)
        /\ UNCHANGED <<written, nread, pending, starts, call, ii, oo, out>>
    BY DEF NextCommand, peak
  <1>3. PICK q \in Seq(Cmd) : q = d_queue
    BY <1>1 DEF MuxTypeOK
  <1>4. PICK p \in Seq(Cmd) : p = pending
    BY <1>1 DEF MuxTypeOK
  <1>5. PICK a \in Marks : Leads(a, q \o p, starts) /\ Here(a)
    BY <1>3, <1>4 DEF MuxInv
  <1>6. /\ Head(q) \in Cmd /\ Tail(q) \in Seq(Cmd) /\ q \o p \in Seq(Cmd) /\ Len(q \o p) > 0
        /\ Head(q \o p) = Head(q) /\ Tail(q \o p) = Tail(q) \o p
    BY <1>2, <1>3, QueuePops
  <1>7. PICK b \in Marks :
           LeadsTo(starts, a, Head(q \o p), b) /\ Leads(b, Tail(q \o p), starts)
    BY <1>5, <1>6, CoursePops
  <1>8. LeadsTo(starts, a, d_current_cmd', b) /\ Leads(b, d_queue' \o pending', starts')
    BY <1>2, <1>3, <1>4, <1>6, <1>7
  <1>9. MuxTypeOK' /\ CallsAreWhole' /\ BuffersRespected' /\ FramesAreWhole'
    <2>1. d_current_cmd' \in Cmd /\ d_queue' \in Seq(Cmd)
      BY <1>2, <1>3, <1>6
    <2> QED
      BY <1>1, <1>2, <2>1 DEF MuxTypeOK, CallsAreWhole, BuffersRespected, FramesAreWhole, call
  <1>10. \A c \in Inputs : nread'[c] + ii'[c] = nread[c] + ii[c]
    BY <1>2
  <1>11. a.frame \in Nat /\ b.frame \in Nat /\ a.flushed \subseteq Inputs
    BY DEF Marks
  <1>12. CASE d_current_cmd'.cmd = "MUX_FLUSH" /\ FlushesTo(a, d_current_cmd'.in_sel, b)
    <2>1. d_state' = "DELETE_FLUSH"
      BY <1>2, <1>12 DEF set_state
    <2>2. /\ b.phase = "FLUSH" /\ b.frame = a.frame
          /\ b.flushed = a.flushed \cup {in_sel'} /\ a.phase \in {"BODY", "FLUSH"}
      BY <1>12 DEF FlushesTo, in_sel
    <2>3. /\ Len(out) = a.frame * FrameLen
          /\ a.frame > 0 => \E x \in {0, Offset(a) + FrameLen} :
                               StandsAt(nread[Chosen(a)] + ii[Chosen(a)], Chosen(a), x)
          /\ \A c \in a.flushed : StandsAt(nread[c] + ii[c], c, 0)
      <3>1. CASE a.phase = "FLUSH"
        <4>1. Flushing(a)
          BY <1>5, <3>1 DEF Here
        <4> QED
          BY <1>2, <4>1 DEF Flushing
      <3>2. CASE a.phase = "BODY"
        <4>1. InFrame(a)
          BY <1>5, <3>2 DEF Here
        <4>2. a.frame > 0 /\ a.flushed = {} /\ d_current_cmd.len = 0
          BY <1>2, <3>2, <4>1 DEF InFrame
        <4>3. Copied(a) = FrameLen /\ InBurst(a) = Offset(a) + FrameLen
          BY <3>2, <4>2, LengthFacts DEF Copied, InBurst
        <4>4. Len(out) = (a.frame - 1) * FrameLen + FrameLen
          BY <4>1, <4>3 DEF InFrame
        <4>5. Len(out) = a.frame * FrameLen
          <5>1. a.frame - 1 \in Int /\ FrameLen \in Nat /\ (a.frame - 1) + 1 = a.frame
            BY <1>11, LengthFacts
          <5>2. ((a.frame - 1) + 1) * FrameLen = (a.frame - 1) * FrameLen + FrameLen
            BY <5>1, NextMultiple
          <5> QED
            BY <4>4, <5>1, <5>2
        <4>6. StandsAt(nread[Chosen(a)] + ii[Chosen(a)], Chosen(a), Offset(a) + FrameLen)
          BY <4>1, <4>3 DEF InFrame
        <4> QED
          BY <4>2, <4>5, <4>6
      <3> QED
        BY <2>2, <3>1, <3>2
    <2>4. Chosen(b)' = Chosen(a) /\ Offset(b)' = Offset(a)
      BY <1>2, <2>2 DEF Chosen, Offset
    <2>5. Flushing(b)'
      <3>1. b.frame > 0 => \E x \in {0, Offset(b)' + FrameLen} :
               StandsAt(nread'[Chosen(b)'] + ii'[Chosen(b)'], Chosen(b)', x)
        BY <1>2, <2>2, <2>3, <2>4
      <3>2. \A c \in b.flushed :
               (d_state' = "DELETE_FLUSH" /\ c = in_sel') \/ StandsAt(nread'[c] + ii'[c], c, 0)
        BY <1>2, <2>1, <2>2, <2>3
      <3>3. Len(out') = b.frame * FrameLen
        BY <1>2, <2>2, <2>3
      <3> QED
        BY <2>1, <3>1, <3>2, <3>3 DEF Flushing
    <2>6. Here(b)'
      <3>1. b.frame <= Len(starts')
        BY <1>2, <1>5, <2>2 DEF Here
      <3>2. \A c \in Inputs : (b.frame > 0 => c # Chosen(b)') => StandsAt(nread'[c] + ii'[c], c, 0)
        BY <1>2, <1>5, <2>2, <2>4 DEF Here
      <3> QED
        BY <2>2, <2>5, <3>1, <3>2 DEF Here
    <2> QED
      BY <1>8, <1>9, <2>6 DEF MuxInv
  <1>13. CASE CopiesTo(starts, a, b) /\ d_current_cmd' = CommandOf(starts, b)
    <2>1. /\ b.phase \in {"DELETE", "LEAD", "TAG", "BODY"}
          /\ b.flushed = {} /\ b.frame > 0 /\ b.frame <= Len(starts)
      BY <1>13 DEF CopiesTo
    <2>2. Chosen(b) \in Inputs /\ Offset(b) \in Nat /\ Lead \in Nat /\ OutputLen \in Nat
      BY <1>1, <2>1, FrameFacts, LengthFacts
    <2>3. Chosen(b)' = Chosen(b) /\ Offset(b)' = Offset(b)
      BY <1>2 DEF Chosen, Offset
    <2>4. /\ d_state' = StateOf(b) /\ d_state' # "WAIT" /\ in_sel' = Chosen(b)
          /\ d_current_cmd'.len = CommandOf(starts, b).len
          /\ CommandOf(starts, b).len \in Nat /\ CommandOf(starts', b) = CommandOf(starts, b)
      <3>1. d_state' = StateOf(b) /\ d_state' # "WAIT"
        BY <1>2, <1>13, <2>1 DEF set_state, StateOf, CommandOf
      <3>2. CommandOf(starts, b).len \in Nat
        BY <2>2 DEF CommandOf, Offset
      <3> QED
        BY <1>2, <1>13, <3>1, <3>2 DEF in_sel, CommandOf, Chosen
    <2>5. /\ \A c \in Inputs : c # Chosen(b) => StandsAt(nread[c] + ii[c], c, 0)
          /\ StandsAt(nread[Chosen(b)] + ii[Chosen(b)], Chosen(b), InBurst(b)')
          /\ Len(out) = (b.frame - 1) * FrameLen + Copied(b)'
          /\ Copied(b)' > 0 => out[Len(out)].item = nread[Chosen(b)] + ii[Chosen(b)]
      <3>1. CASE b.phase = "DELETE"
        <4>1. a.phase = "FLUSH" /\ a.flushed = Inputs /\ b.frame = a.frame + 1
          BY <1>13, <3>1 DEF CopiesTo
        <4>2. Flushing(a)
          BY <1>5, <4>1 DEF Here
        <4>3. \A c \in Inputs : StandsAt(nread[c] + ii[c], c, 0)
          BY <1>2, <4>1, <4>2 DEF Flushing
        <4>4. Copied(b)' = 0 /\ InBurst(b)' = 0
          <5>1. d_current_cmd'.len = Offset(b)
            BY <2>4, <3>1 DEF CommandOf, Offset
          <5> QED
            BY <2>2, <2>3, <3>1, <5>1 DEF Copied, InBurst
        <4>5. Len(out) = (b.frame - 1) * FrameLen + 0
          <5>1. b.frame - 1 = a.frame
            BY <1>11, <4>1
          <5>2. FrameLen \in Nat
            BY LengthFacts
          <5>3. a.frame * FrameLen \in Nat
            BY <1>11, <5>2, ProductInNat
          <5> QED
            BY <4>2, <5>1, <5>3 DEF Flushing
        <4> QED
          BY <2>2, <4>3, <4>4, <4>5
      <3>2. CASE b.phase # "DELETE"
        <4>1. /\ b.frame = a.frame
              /\ \/ a.phase = "DELETE" /\ b.phase = "LEAD"
                 \/ a.phase = "LEAD" /\ b.phase = "TAG"
                 \/ a.phase = "TAG" /\ b.phase = "BODY"
          BY <1>13, <3>2 DEF CopiesTo
        <4>2. InFrame(a)
          BY <1>5, <4>1 DEF Here
        <4>3. Chosen(a) = Chosen(b) /\ Offset(a) = Offset(b)
          BY <4>1 DEF Chosen, Offset
        <4>4. a.phase # "TAG" => d_current_cmd.len = 0
          BY <1>2, <4>2 DEF InFrame
        <4>5. Copied(b)' = Copied(a) /\ InBurst(b)' = InBurst(a)
          <5>1. CASE a.phase = "DELETE" /\ b.phase = "LEAD"
            <6>1. d_current_cmd'.len = Lead
              BY <2>4, <5>1 DEF CommandOf
            <6> QED
              BY <2>2, <2>3, <4>3, <4>4, <5>1, <6>1 DEF Copied, InBurst
          <5>2. CASE a.phase = "LEAD" /\ b.phase = "TAG"
            <6>1. d_state' # "WAIT"
              BY <2>4
            <6> QED
              BY <2>2, <2>3, <4>3, <4>4, <5>2, <6>1 DEF Copied, InBurst
          <5>3. CASE a.phase = "TAG" /\ b.phase = "BODY"
            <6>1. d_current_cmd'.len = OutputLen
              BY <2>4, <5>3 DEF CommandOf
            <6> QED
              BY <1>2, <2>2, <2>3, <4>3, <5>3, <6>1 DEF Copied, InBurst, FrameLen
          <5> QED
            BY <4>1, <5>1, <5>2, <5>3
        <4>6. \A c \in Inputs : c # Chosen(b) => StandsAt(nread[c] + ii[c], c, 0)
          BY <1>5, <4>3 DEF Here
        <4> QED
          BY <4>1, <4>2, <4>3, <4>5, <4>6 DEF InFrame
      <3> QED
        BY <3>1, <3>2
    <2>6. InFrame(b)'
      <3>1. StandsAt(nread'[Chosen(b)'] + ii'[Chosen(b)'], Chosen(b)', InBurst(b)')
        BY <1>2, <2>3, <2>5
      <3>2. Len(out') = (b.frame - 1) * FrameLen + Copied(b)'
        BY <1>2, <2>5
      <3>3. Copied(b)' > 0 => out'[Len(out')].item = nread'[Chosen(b)'] + ii'[Chosen(b)']
        BY <1>2, <2>3, <2>5
      <3>4. d_current_cmd'.len \in 0 .. CommandOf(starts', b).len
        BY <2>4
      <3> QED
        BY <2>1, <2>3, <2>4, <3>1, <3>2, <3>3, <3>4 DEF InFrame
    <2>7. Here(b)'
      <3>1. b.frame <= Len(starts') /\ b.phase # "FLUSH"
        BY <1>2, <2>1
      <3>2. \A c \in Inputs : (b.frame > 0 => c # Chosen(b)') => StandsAt(nread'[c] + ii'[c], c, 0)
        BY <1>2, <2>1, <2>3, <2>5
      <3> QED
        BY <2>6, <3>1, <3>2 DEF Here
    <2> QED
      BY <1>8, <1>9, <2>7 DEF MuxInv
  <1> QED
    BY <1>8, <1>12, <1>13 DEF LeadsTo

\* Within a command of a frame there is the rest of the burst to read.
LEMMA BurstIsThere ==
    ASSUME MuxTypeOK, CallsAreWhole, BuffersRespected, working,
           NEW m \in Marks, m.frame <= Len(starts), InFrame(m), d_state # "WAIT", ~InputEmpty
    PROVE  /\ in_sel = Chosen(m) /\ in_sel \in Inputs
           /\ Copied(m) \in 0 .. FrameLen /\ InBurst(m) \in Nat
           /\ m.phase # "TAG" => d_current_cmd.len \in Nat
           /\ \E b \in Nat :
                 /\ nread[in_sel] + ii[in_sel] = b * BurstLen[in_sel] + InBurst(m)
                 /\ b * BurstLen[in_sel] + BurstLen[in_sel] <= nread[in_sel] + ninput_items[in_sel]
  <1> PICK c \in Inputs : c = Chosen(m)
    BY FrameFacts DEF InFrame
  <1>1. in_sel = c
    BY DEF InFrame
  <1>2. /\ Offset(m) \in Nat /\ BurstLen[c] \in Nat \ {0} /\ Offset(m) + FrameLen <= BurstLen[c]
        /\ Lead \in Nat /\ OutputLen \in Nat /\ FrameLen = Lead + 1 + OutputLen
    BY FrameFacts, LengthFacts DEF InFrame
  <1>3. m.phase # "TAG" => d_current_cmd.len \in 0 .. CommandOf(starts, m).len
    BY DEF InFrame
  <1>4. m.phase \in {"DELETE", "LEAD", "TAG", "BODY", "FLUSH"}
    BY DEF Marks
  <1>5. /\ m.phase = "DELETE" => d_current_cmd.len \in 0 .. Offset(m)
        /\ m.phase = "LEAD" => d_current_cmd.len \in 0 .. Lead
        /\ m.phase \in {"BODY", "FLUSH"} => d_current_cmd.len \in 0 .. OutputLen
    BY <1>3 DEF CommandOf, Offset
  <1>6. Copied(m) \in 0 .. FrameLen /\ InBurst(m) \in Nat
    BY <1>2, <1>4, <1>5, SMTT(60) DEF Copied, InBurst
  <1>7. m.phase # "TAG" => d_current_cmd.len \in Nat
    BY <1>2, <1>4, <1>5
  <1>8. PICK b \in Nat : nread[c] + ii[c] = b * BurstLen[c] + InBurst(m)
    BY DEF InFrame, StandsAt
  <1>9. PICK e \in Nat : nread[c] + ninput_items[c] = e * BurstLen[c]
    BY DEF CallsAreWhole, Whole
  <1>10. b * BurstLen[c] + InBurst(m) < e * BurstLen[c]
    <2>1. ii[c] < ninput_items[c]
      BY <1>1 DEF MuxTypeOK, BuffersRespected, InputEmpty
    <2>2. nread[c] \in Nat /\ ii[c] \in Nat /\ ninput_items[c] \in Nat
      BY DEF MuxTypeOK
    <2>3. nread[c] + ii[c] < nread[c] + ninput_items[c]
      BY <2>1, <2>2
    <2> QED
      BY <1>8, <1>9, <2>3
  <1>11. b * BurstLen[c] + BurstLen[c] <= e * BurstLen[c]
    <2>1. BurstLen[c] \in Nat
      BY <1>2
    <2> QED
      BY <1>6, <1>10, <2>1, RestOfBurst
  <1> QED
    BY <1>1, <1>6, <1>7, <1>8, <1>9, <1>11

\* FramesAreWhole, item by item of an output o with frames ss.
FrameOf(j) == (j - 1) \div FrameLen + 1

PlaceOf(j) == (j - 1) % FrameLen

BegunAt(p, c) == p % BurstLen[c]

Fits(o, ss, j) ==
    /\ FrameOf(j) <= Len(ss)
    /\ o[j].in = ss[FrameOf(j)][1]
    /\ BegunAt(o[j].item - 1 - PlaceOf(j), ss[FrameOf(j)][1]) = ss[FrameOf(j)][2]
    /\ PlaceOf(j) > 0 => o[j].item = o[j - 1].item + 1
    /\ o[j].tagged <=> PlaceOf(j) = Lead

WholeUpTo(o, ss, l) == \A j \in 1 .. l : Fits(o, ss, j)

LEMMA FramesMeaning ==
    ASSUME NEW l, DOMAIN out = 1 .. l
    PROVE  FramesAreWhole <=> WholeUpTo(out, starts, l)
  BY Zenon DEF FramesAreWhole, WholeUpTo, Fits, FrameOf, PlaceOf, BegunAt

\* l items are e frames and k items of the next.
Frames(l, e, k) == l = e * FrameLen + k

Placed(l, e, k, n) ==
    \A i \in 1 .. n : FrameOf(l + i) = e + 1 /\ PlaceOf(l + i) = k + i - 1

\* Of the n items behind k items of a frame each is the tagged one, or none is.
TaggedAt(k, n, tagged) == \A i \in 1 .. n : tagged <=> k + i - 1 = Lead

\* The output t is o, of l items, and n items of input c behind item p.
Extends(t, o, l, n, c, p, tagged) ==
    /\ \A i \in 1 .. l : t[i] = o[i]
    /\ \A i \in 1 .. n :
          t[l + i].in = c /\ t[l + i].item = p + i /\ t[l + i].tagged = tagged

LEMMA PlacesInFrame ==
    ASSUME NEW e \in Nat, NEW k \in Nat, NEW n \in Nat, k + n <= FrameLen,
           NEW l \in Nat, Frames(l, e, k)
    PROVE  k <= l /\ Placed(l, e, k, n)
  <1> PICK w \in Nat \ {0} : w = FrameLen
    BY LengthFacts
  <1> PICK y \in Nat : y = e * w
    BY ProductInNat
  <1>1. l = y + k /\ k + n <= w
    BY DEF Frames
  <1>2. ASSUME NEW i \in 1 .. n
        PROVE  FrameOf(l + i) = e + 1 /\ PlaceOf(l + i) = k + i - 1
    <2> DEFINE r == k + i - 1
    <2>1. r \in Nat /\ r < w /\ l + i - 1 = y + r
      BY <1>1
    <2> HIDE DEF r
    <2>2. (e * w + r) \div w = e /\ (e * w + r) % w = r
      BY <2>1, FrameAndPlace
    <2> QED
      BY <2>1, <2>2 DEF r, FrameOf, PlaceOf
  <1> QED
    BY <1>1, <1>2 DEF Placed

LEMMA OffsetInBurst ==
    ASSUME NEW c \in Inputs, NEW s \in Nat, s < BurstLen[c], NEW k \in Nat,
           NEW p \in Nat, StandsAt(p, c, s + k)
    PROVE  BegunAt(p - k, c) = s
  <1> PICK v \in Nat \ {0} : v = BurstLen[c]
    BY LengthFacts
  <1> PICK b \in Nat : p = b * v + (s + k)
    BY DEF StandsAt
  <1> PICK x \in Nat : x = b * v
    BY ProductInNat
  <1>1. p - k = x + s
    OBVIOUS
  <1>2. (b * v + s) % v = s
    BY FrameAndPlace
  <1> QED
    BY <1>1, <1>2 DEF BegunAt

LEMMA ItemBefore ==
    ASSUME NEW l \in Nat, NEW n \in Nat, NEW i \in 1 .. n, i > 1
    PROVE  i - 1 \in 1 .. n /\ (l + i) - 1 = l + (i - 1)
  OBVIOUS

\* Behind k items of the frame of ss that follows e frames, the last of them
\* item p, come n more.
FrameGoesOn(ss, e, c, k, p, l, o, n, tagged, t) ==
    /\ e + 1 <= Len(ss) /\ ss[e + 1][1] = c /\ BegunAt(p - k, c) = ss[e + 1][2]
    /\ k <= l /\ Placed(l, e, k, n) /\ TaggedAt(k, n, tagged)
    /\ k > 0 => o[l].item = p
    /\ Extends(t, o, l, n, c, p, tagged)

LEMMA ItemsOfFrame ==
    ASSUME NEW ss, NEW e \in Nat, NEW c, NEW k \in Nat, NEW p \in Nat, NEW l \in Nat, NEW o,
           NEW n \in Nat, NEW tagged \in BOOLEAN, NEW t,
           FrameGoesOn(ss, e, c, k, p, l, o, n, tagged, t), WholeUpTo(o, ss, l)
    PROVE  WholeUpTo(t, ss, l + n)
  <1> USE DEF FrameGoesOn, Placed, TaggedAt, WholeUpTo, Extends
  <1>1. ASSUME NEW j \in 1 .. l
        PROVE  Fits(t, ss, j)
    <2>1. Fits(o, ss, j)
      OBVIOUS
    <2>2. PlaceOf(j) > 0 => t[j - 1] = o[j - 1]
      <3>1. CASE j = 1
        <4>1. FrameLen \in Nat \ {0} /\ 0 % FrameLen = 0
          BY LengthFacts, WholeAndRest
        <4>2. PlaceOf(1) = 0
          BY <4>1 DEF PlaceOf
        <4> QED
          BY <3>1, <4>2
      <3>2. CASE j > 1
        <4>1. j - 1 \in 1 .. l
          BY <3>2
        <4> QED
          BY <4>1
      <3> QED
        BY <3>1, <3>2
    <2>3. t[j] = o[j]
      OBVIOUS
    <2> QED
      BY <2>1, <2>2, <2>3 DEF Fits
  <1>2. ASSUME NEW i \in 1 .. n
        PROVE  Fits(t, ss, l + i)
    <2> PICK r \in Nat : r = k + i - 1
      OBVIOUS
    <2>1. FrameOf(l + i) = e + 1 /\ PlaceOf(l + i) = r
      OBVIOUS
    <2>2. BegunAt(p + i - 1 - r, c) = ss[e + 1][2]
      <3>1. p + i - 1 - r = p - k
        OBVIOUS
      <3> QED
        BY <3>1
    <2>3. r > 0 => t[l + i].item = t[(l + i) - 1].item + 1
      <3>1. CASE i = 1
        <4>1. r > 0 => k > 0 /\ l \in 1 .. l /\ (l + i) - 1 = l
          BY <3>1
        <4>2. r > 0 => t[l].item = p
          BY <4>1
        <4> QED
          BY <3>1, <4>1, <4>2
      <3>2. CASE i > 1
        <4>1. i - 1 \in 1 .. n /\ (l + i) - 1 = l + (i - 1)
          <5>1. i > 1
            BY <3>2
          <5> QED
            BY <5>1, ItemBefore
        <4>2. t[l + (i - 1)].item = p + (i - 1)
          BY <4>1
        <4>3. p + i = (p + (i - 1)) + 1
          OBVIOUS
        <4> QED
          BY <4>1, <4>2, <4>3
      <3> QED
        BY <3>1, <3>2
    <2>4. t[l + i].tagged <=> r = Lead
      OBVIOUS
    <2>5. t[l + i].in = c /\ t[l + i].item - 1 - r = p + i - 1 - r
      <3>1. t[l + i].in = c /\ t[l + i].item = p + i
        OBVIOUS
      <3>2. (p + i) - 1 - r = p + i - 1 - r
        OBVIOUS
      <3> QED
        BY <3>1, <3>2
    <2> QED
      BY <2>1, <2>2, <2>3, <2>4, <2>5 DEF Fits
  <1>3. ASSUME NEW j \in 1 .. l + n
        PROVE  Fits(t, ss, j)
    <2>1. CASE j <= l
      <3>1. j \in 1 .. l
        BY <2>1
      <3> QED
        BY <1>1, <3>1
    <2>2. CASE j > l
      <3>1. j - l \in 1 .. n /\ j = l + (j - l)
        BY <2>2
      <3> QED
        BY <1>2, <3>1
    <2> QED
      BY <2>1, <2>2
  <1> QED
    BY <1>3

\* The items written by a step.
LEMMA ItemFacts ==
    ASSUME MuxTypeOK, in_sel \in Inputs, NEW n \in Nat, NEW tagged \in BOOLEAN,
           out' = out \o Items(n, tagged)
    PROVE  /\ out' \in Seq([in : Inputs, item : Nat, tagged : BOOLEAN])
           /\ Len(out') = Len(out) + n /\ DOMAIN out' = 1 .. Len(out) + n
           /\ \A i \in 1 .. Len(out) : out'[i] = out[i]
           /\ \A i \in 1 .. n :
                 /\ out'[Len(out) + i].in = in_sel
                 /\ out'[Len(out) + i].item = nread[in_sel] + ii[in_sel] + i
                 /\ out'[Len(out) + i].tagged = tagged
           /\ n = 0 => out' = out
  <1> DEFINE T == [in : Inputs, item : Nat, tagged : BOOLEAN]
             more == Items(n, tagged)
             Item(i) == [in |-> in_sel, item |-> nread[in_sel] + ii[in_sel] + i,
                         tagged |-> tagged]
  <1>1. more = [i \in 1 .. n |-> Item(i)]
    BY DEF Items
  <1> HIDE DEF more
  <1>2. \A i \in 1 .. n : Item(i) \in T
    BY DEF MuxTypeOK
  <1>3. \A i \in 1 .. n : /\ Item(i).in = in_sel /\ Item(i).tagged = tagged
                          /\ Item(i).item = nread[in_sel] + ii[in_sel] + i
    OBVIOUS
  <1> HIDE DEF Item
  <1>4. more \in [1 .. n -> T]
    BY <1>1, <1>2
  <1>5. more \in Seq(T) /\ Len(more) = n
    <2> HIDE DEF T
    <2> QED
      BY <1>4
  <1>6. more \in Seq(T) /\ out \in Seq(T)
    BY <1>5 DEF MuxTypeOK
  <1> HIDE DEF T
  <1>7. /\ out \o more \in Seq(T) /\ Len(out \o more) = Len(out) + Len(more)
        /\ DOMAIN (out \o more) = 1 .. Len(out) + Len(more)
        /\ \A i \in 1 .. Len(out) : (out \o more)[i] = out[i]
        /\ \A i \in 1 .. Len(more) : (out \o more)[Len(out) + i] = more[i]
    BY <1>6, ConcatFacts
  <1>8. out' = out \o more
    BY DEF more
  <1>9. /\ out' \in Seq(T) /\ Len(out') = Len(out) + n /\ DOMAIN out' = 1 .. Len(out) + n
        /\ \A i \in 1 .. Len(out) : out'[i] = out[i]
        /\ \A i \in 1 .. n : out'[Len(out) + i] = Item(i)
    BY <1>1, <1>5, <1>7, <1>8
  <1>10. n = 0 => out' = out
    <2>1. n = 0 => Len(out') = Len(out) /\ \A i \in 1 .. Len(out) : out'[i] = out[i]
      BY <1>6, <1>9
    <2> QED
      BY <1>6, <1>9, <2>1
  <1> QED
    BY <1>3, <1>9, <1>10 DEF T

\* More items of a frame.
LEMMA FrameGrows ==
    ASSUME MuxTypeOK, FramesAreWhole, UNCHANGED starts,
           NEW m \in Marks, m.frame <= Len(starts), InFrame(m), m.phase # "DELETE",
           in_sel = Chosen(m), NEW n \in Nat, NEW tagged \in BOOLEAN,
           Copied(m) \in Nat, Copied(m) + n <= FrameLen,
           TaggedAt(Copied(m), n, tagged),
           out' = out \o Items(n, tagged)
    PROVE  FramesAreWhole'
  <1> PICK c \in Inputs : c = Chosen(m)
    BY FrameFacts DEF InFrame
  <1> PICK k \in Nat : k = Copied(m)
    OBVIOUS
  <1> PICK l \in Nat : l = Len(out)
    BY DEF MuxTypeOK
  <1> PICK p \in Nat : p = nread[c] + ii[c]
    BY DEF MuxTypeOK
  <1>1. PICK e \in Nat : m.frame = e + 1 /\ m.frame - 1 = e
    <2>1. m.frame \in Nat /\ m.frame > 0
      BY DEF Marks, InFrame
    <2>2. m.frame - 1 \in Nat /\ m.frame = (m.frame - 1) + 1
      BY <2>1
    <2> QED
      BY <2>2
  <1> PICK s \in Nat : s = Offset(m)
    BY FrameFacts DEF InFrame
  <1>2. s < BurstLen[c]
    <2>1. s + FrameLen <= BurstLen[c] /\ FrameLen \in Nat \ {0} /\ BurstLen[c] \in Nat
      BY FrameFacts, LengthFacts DEF InFrame
    <2> QED
      BY <2>1
  <1>3. Frames(l, e, k) /\ (k > 0 => out[l].item = p)
    BY <1>1 DEF InFrame, Frames
  <1>4. k <= l /\ Placed(l, e, k, n)
    BY <1>1, <1>3, PlacesInFrame
  <1>5. BegunAt(p - k, c) = s
    <2>1. StandsAt(p, c, s + k)
      BY DEF InFrame, InBurst
    <2> QED
      BY <1>2, <2>1, OffsetInBurst
  <1>6. starts[e + 1][1] = c /\ starts[e + 1][2] = s /\ e + 1 <= Len(starts)
    BY <1>1 DEF Chosen, Offset
  <1>7. WholeUpTo(out, starts, l)
    <2>1. DOMAIN out = 1 .. l
      BY DEF MuxTypeOK
    <2> QED
      BY <2>1, FramesMeaning
  <1>8. out' = out \o Items(n, tagged) /\ in_sel = c /\ in_sel \in Inputs
    OBVIOUS
  <1>9. DOMAIN out' = 1 .. l + n /\ Extends(out', out, l, n, c, p, tagged)
    <2>1. /\ DOMAIN out' = 1 .. Len(out) + n
          /\ \A i \in 1 .. Len(out) : out'[i] = out[i]
          /\ \A i \in 1 .. n :
                /\ out'[Len(out) + i].in = in_sel
                /\ out'[Len(out) + i].item = nread[in_sel] + ii[in_sel] + i
                /\ out'[Len(out) + i].tagged = tagged
      BY <1>8, ItemFacts
    <2> QED
      BY <1>8, <2>1 DEF Extends
  <1>10. WholeUpTo(out', starts, l + n)
    <2>1. BegunAt(p - k, c) = starts[e + 1][2] /\ TaggedAt(k, n, tagged)
      BY <1>5, <1>6
    <2>2. e \in Nat /\ FrameGoesOn(starts, e, c, k, p, l, out, n, tagged, out')
      BY <1>1, <1>3, <1>4, <1>6, <1>9, <2>1 DEF FrameGoesOn
    <2>3. k \in Nat /\ p \in Nat /\ l \in Nat /\ n \in Nat /\ tagged \in BOOLEAN
      OBVIOUS
    <2> QED
      BY ONLY <1>7, <2>2, <2>3, ItemsOfFrame
  <1>11. \A j \in DOMAIN out' : Fits(out', starts', j)
    BY <1>9, <1>10 DEF WholeUpTo
  <1> QED
    BY <1>11, Zenon DEF FramesAreWhole, Fits, FrameOf, PlaceOf, BegunAt

\* Within a command nothing but its input moves, and not beyond the burst.
LEMMA InputMoves ==
    ASSUME MuxTypeOK, BuffersRespected, NEW m \in Marks, Here(m), m.phase # "FLUSH",
           in_sel = Chosen(m), in_sel \in Inputs, NEW n \in Nat, NEW b \in Nat,
           NEW x \in Nat, nread[in_sel] + ii[in_sel] = b * BurstLen[in_sel] + x,
           x + n <= BurstLen[in_sel],
           b * BurstLen[in_sel] + BurstLen[in_sel] <= nread[in_sel] + ninput_items[in_sel],
           ii' = [ii EXCEPT ![in_sel] = @ + n], UNCHANGED <<nread, starts, ninput_items>>
    PROVE  /\ ii' \in [Inputs -> Nat]
           /\ \A c \in Inputs : ii'[c] <= ninput_items'[c]
           /\ \A c \in Inputs : c # Chosen(m) => StandsAt(nread'[c] + ii'[c], c, 0)
           /\ nread'[in_sel] + ii'[in_sel] = nread[in_sel] + ii[in_sel] + n
           /\ StandsAt(nread[in_sel] + ii[in_sel] + n, in_sel, x + n)
           /\ Chosen(m)' = Chosen(m) /\ Offset(m)' = Offset(m)
  <1> PICK c \in Inputs : c = in_sel
    OBVIOUS
  <1> PICK v \in Nat : v = BurstLen[c]
    BY LengthFacts
  <1> PICK y \in Nat : y = b * v
    BY ProductInNat
  <1> PICK r \in Nat : r = nread[c]
    BY DEF MuxTypeOK
  <1> PICK i \in Nat : i = ii[c]
    BY DEF MuxTypeOK
  <1> PICK k \in Nat : k = ninput_items[c]
    BY DEF MuxTypeOK
  <1>1. r + i = y + x /\ x + n <= v /\ y + v <= r + k
    OBVIOUS
  <1>2. i + n <= k /\ r + i + n = y + (x + n)
    BY <1>1
  <1>3. ii'[c] = i + n /\ \A d \in Inputs : d # c => ii'[d] = ii[d]
    BY DEF MuxTypeOK
  <1>4. ii' \in [Inputs -> Nat]
    <2>1. ii \in [Inputs -> Nat]
      BY DEF MuxTypeOK
    <2>2. ii' = [ii EXCEPT ![c] = i + n]
      OBVIOUS
    <2>3. i + n \in Nat
      OBVIOUS
    <2> QED
      BY <2>1, <2>2, <2>3
  <1>5. \A d \in Inputs : ii'[d] <= ninput_items'[d]
    BY <1>2, <1>3 DEF BuffersRespected
  <1>6. \A d \in Inputs : d # Chosen(m) => StandsAt(nread'[d] + ii'[d], d, 0)
    BY <1>3 DEF Here
  <1>7. StandsAt(r + i + n, c, x + n)
    BY <1>2 DEF StandsAt
  <1>8. nread'[c] + ii'[c] = r + i + n
    BY <1>3
  <1> QED
    BY <1>4, <1>5, <1>6, <1>7, <1>8 DEF Chosen, Offset

\* What is left of a command of a frame is in the burst.
LEMMA CommandFits ==
    ASSUME MuxTypeOK, NEW m \in Marks, m.frame > 0, m.frame <= Len(starts),
           m.phase \in {"DELETE", "LEAD", "BODY"}, d_current_cmd.len \in Nat
    PROVE  InBurst(m) + d_current_cmd.len <= BurstLen[Chosen(m)]
  <1> PICK len \in Nat : len = d_current_cmd.len
    OBVIOUS
  <1> PICK s \in Nat : s = Offset(m)
    BY FrameFacts
  <1> PICK a \in Nat : a = Lead
    BY LengthFacts
  <1> PICK b \in Nat : b = OutputLen
    BY LengthFacts
  <1> PICK v \in Nat : v = BurstLen[Chosen(m)]
    BY FrameFacts
  <1>1. FrameLen = a + 1 + b /\ s + (a + 1 + b) <= v
    BY FrameFacts, LengthFacts
  <1>2. CASE m.phase = "DELETE"
    <2>1. InBurst(m) = s - len
      BY <1>2 DEF InBurst
    <2> QED
      BY <1>1, <2>1
  <1>3. CASE m.phase = "LEAD"
    <2>1. InBurst(m) = s + (a - len)
      BY <1>3 DEF InBurst, Copied
    <2> QED
      BY <1>1, <2>1
  <1>4. CASE m.phase = "BODY"
    <2>1. InBurst(m) = s + ((a + 1 + b) - len)
      BY <1>1, <1>4 DEF InBurst, Copied
    <2> QED
      BY <1>1, <2>1
  <1> QED
    BY <1>2, <1>3, <1>4

\* n items of a command of a frame are dealt with.
LEMMA CommandMoves ==
    ASSUME MuxTypeOK, CallsAreWhole, BuffersRespected, working,
           NEW m \in Marks, Here(m), m.phase \in {"DELETE", "LEAD", "BODY"},
           d_state # "WAIT", ~InputEmpty, NEW n \in Nat, n <= d_current_cmd.len, Process(n),
           UNCHANGED <<nread, starts, ninput_items>>,
           m.phase = "DELETE" => out' = out,
           m.phase # "DELETE" =>
               /\ Len(out') = Len(out) + n
               /\ n > 0 => out'[Len(out')].item = nread[in_sel] + ii[in_sel] + n
               /\ n = 0 => out' = out
    PROVE  /\ Here(m)' /\ ii' \in [Inputs -> Nat] /\ d_current_cmd' \in Cmd
           /\ \A c \in Inputs : ii'[c] <= ninput_items'[c]
  <1>1. InFrame(m) /\ m.frame <= Len(starts) /\ m.phase # "FLUSH" /\ m.phase # "TAG"
    BY DEF Here
  <1>2. /\ in_sel = Chosen(m) /\ in_sel \in Inputs
        /\ Copied(m) \in 0 .. FrameLen /\ InBurst(m) \in Nat /\ d_current_cmd.len \in Nat
    BY <1>1, BurstIsThere
  <1>3. PICK b \in Nat :
           /\ nread[in_sel] + ii[in_sel] = b * BurstLen[in_sel] + InBurst(m)
           /\ b * BurstLen[in_sel] + BurstLen[in_sel] <= nread[in_sel] + ninput_items[in_sel]
    BY <1>1, BurstIsThere
  <1> PICK len \in Nat : len = d_current_cmd.len
    BY <1>2
  <1> PICK s \in Nat : s = Offset(m)
    BY <1>1, FrameFacts DEF InFrame
  <1> PICK x \in Nat : x = InBurst(m)
    BY <1>2
  <1> PICK k \in Nat : k = Copied(m)
    BY <1>2
  <1> PICK w \in Nat \ {0} : w = FrameLen
    BY LengthFacts
  <1> PICK v \in Nat \ {0} : v = BurstLen[in_sel]
    BY <1>2, LengthFacts
  <1> PICK lead \in Nat : lead = Lead
    BY LengthFacts
  <1>5. x + len <= v
    <2>1. InBurst(m) + d_current_cmd.len <= BurstLen[Chosen(m)]
      BY <1>1, <1>2, CommandFits DEF InFrame
    <2> QED
      BY <1>2, <2>1
  <1>6. /\ ii' = [ii EXCEPT ![in_sel] = @ + n]
        /\ d_current_cmd' = [d_current_cmd EXCEPT !.len = @ - n]
        /\ d_state' = IF d_current_cmd.len = n THEN "WAIT" ELSE d_state
    BY DEF Process
  <1>7. /\ ii' \in [Inputs -> Nat]
        /\ \A c \in Inputs : ii'[c] <= ninput_items'[c]
        /\ \A c \in Inputs : c # Chosen(m) => StandsAt(nread'[c] + ii'[c], c, 0)
        /\ nread'[in_sel] + ii'[in_sel] = nread[in_sel] + ii[in_sel] + n
        /\ StandsAt(nread[in_sel] + ii[in_sel] + n, in_sel, x + n)
        /\ Chosen(m)' = Chosen(m) /\ Offset(m)' = Offset(m)
    <2>1. x + n <= BurstLen[in_sel]
      BY <1>5
    <2> QED
      BY <1>1, <1>2, <1>3, <1>6, <2>1, InputMoves
  <1>8. /\ d_current_cmd' \in Cmd /\ d_current_cmd'.len = len - n /\ in_sel' = in_sel
    <2>1. d_current_cmd \in Cmd
      BY DEF MuxTypeOK
    <2> QED
      BY <1>6, <2>1, SMTT(60) DEF Cmd, in_sel
  <1>9. /\ m.phase = "DELETE" => Copied(m)' = 0
        /\ m.phase # "DELETE" => Copied(m)' = k + n
        /\ InBurst(m)' = x + n
    <2>1. CASE m.phase = "DELETE"
      BY <1>7, <1>8, <2>1 DEF InBurst, Copied
    <2>2. CASE m.phase = "LEAD"
      <3>1. k = lead - len /\ Copied(m)' = lead - (len - n)
        BY <1>8, <2>2 DEF Copied
      <3>2. Copied(m)' = k + n
        BY <3>1
      <3>3. x = s + k /\ InBurst(m)' = s + Copied(m)'
        BY <1>7, <2>2 DEF InBurst
      <3>4. s + (k + n) = (s + k) + n
        OBVIOUS
      <3> QED
        BY <2>2, <3>2, <3>3, <3>4
    <2>3. CASE m.phase = "BODY"
      <3>1. k = w - len /\ Copied(m)' = w - (len - n)
        BY <1>8, <2>3 DEF Copied
      <3>2. Copied(m)' = k + n
        BY <3>1
      <3>3. x = s + k /\ InBurst(m)' = s + Copied(m)'
        BY <1>7, <2>3 DEF InBurst
      <3>4. s + (k + n) = (s + k) + n
        OBVIOUS
      <3> QED
        BY <2>3, <3>2, <3>3, <3>4
    <2> QED
      BY <2>1, <2>2, <2>3
  <1>10. /\ Len(out') = (m.frame - 1) * FrameLen + Copied(m)'
         /\ Copied(m)' > 0 => out'[Len(out')].item = nread[in_sel] + ii[in_sel] + n
    <2>1. CASE m.phase = "DELETE"
      <3>1. Copied(m) = 0
        BY <2>1 DEF Copied
      <3> QED
        BY <1>1, <1>9, <2>1, <3>1 DEF InFrame
    <2>2. CASE m.phase # "DELETE"
      <3> PICK z \in Int : z = (m.frame - 1) * FrameLen
        <4>1. m.frame - 1 \in Int /\ FrameLen \in Nat
          BY LengthFacts DEF Marks
        <4> QED
          BY <4>1, NextMultiple
      <3>1. Len(out) = z + k /\ (k > 0 => out[Len(out)].item = nread[in_sel] + ii[in_sel])
        BY <1>1, <1>2 DEF InFrame
      <3>2. Len(out') = z + (k + n)
        BY <2>2, <3>1, SMTT(60)
      <3>3. n = 0 => nread[in_sel] + ii[in_sel] + n = nread[in_sel] + ii[in_sel]
        BY <1>2 DEF MuxTypeOK
      <3>4. Copied(m)' = k + n
        BY <1>9, <2>2
      <3>5. k + n > 0 => out'[Len(out')].item = nread[in_sel] + ii[in_sel] + n
        <4>1. CASE n > 0
          BY <2>2, <4>1
        <4>2. CASE n = 0
          <5>1. out' = out /\ k + n = k
            BY <2>2, <4>2
          <5> QED
            BY <3>1, <3>3, <4>2, <5>1
        <4> QED
          BY <4>1, <4>2
      <3> QED
        BY <3>2, <3>4, <3>5
    <2> QED
      BY <2>1, <2>2
  <1>11. CommandOf(starts', m).len = CommandOf(starts, m).len
         /\ len \in 0 .. CommandOf(starts, m).len /\ d_state \in {"WAIT", StateOf(m)}
    BY <1>1 DEF CommandOf, InFrame
  <1>12. d_current_cmd'.len \in 0 .. CommandOf(starts', m).len
    <2>1. CommandOf(starts, m).len \in Nat
      BY <1>1, FrameFacts, LengthFacts DEF CommandOf, Offset, InFrame
    <2> QED
      BY <1>8, <1>11, <2>1
  <1>13. d_state' \in {"WAIT", StateOf(m)} /\ (d_state' = "WAIT" => d_current_cmd'.len = 0)
    BY <1>6, <1>8, <1>11
  <1>14. StandsAt(nread'[Chosen(m)'] + ii'[Chosen(m)'], Chosen(m)', InBurst(m)')
    BY <1>2, <1>7, <1>9
  <1>15. Copied(m)' > 0 => out'[Len(out')].item = nread'[Chosen(m)'] + ii'[Chosen(m)']
    BY <1>2, <1>7, <1>10
  <1>16. InFrame(m)'
    <2>1. StateOf(m)' = StateOf(m)
      BY DEF StateOf
    <2> QED
      BY <1>1, <1>2, <1>7, <1>8, <1>10, <1>12, <1>13, <1>14, <1>15, <2>1 DEF InFrame
  <1>17. Here(m)'
    <2>1. m.frame <= Len(starts') /\ m.frame > 0
      BY <1>1 DEF InFrame
    <2>2. \A c \in Inputs :
             (m.frame > 0 => c # Chosen(m)') => StandsAt(nread'[c] + ii'[c], c, 0)
      BY <1>7, <2>1
    <2> QED
      BY <1>1, <1>16, <2>1, <2>2 DEF Here
  <1> QED
    BY <1>7, <1>8, <1>17

\* The command of the state the mux is in.
LEMMA PhaseOfState ==
    ASSUME NEW m \in Marks, Here(m)
    PROVE  /\ d_state = "COPY" => m.phase \in {"LEAD", "BODY"}
           /\ d_state = "TAG_COPY" => m.phase = "TAG"
           /\ d_state = "DELETE" => m.phase = "DELETE"
           /\ d_state = "DELETE_FLUSH" => m.phase = "FLUSH"
           /\ d_state \notin {"WAIT", "DELETE_FLUSH"} => InFrame(m)
  <1>1. m.phase \in {"DELETE", "LEAD", "TAG", "BODY", "FLUSH"}
    BY DEF Marks
  <1> QED
    BY <1>1 DEF Here, Flushing, InFrame, StateOf

\* What a MUX_COPY leads to has no tag, and is within the frame.
LEMMA CopyIsUntagged ==
    ASSUME MuxTypeOK, NEW m \in Marks, InFrame(m), m.phase \in {"LEAD", "BODY"},
           NEW n \in Nat, n <= d_current_cmd.len
    PROVE  Copied(m) \in Nat /\ Copied(m) + n <= FrameLen /\ TaggedAt(Copied(m), n, FALSE)
  <1> PICK a \in Nat : a = Lead
    BY LengthFacts
  <1> PICK b \in Nat : b = OutputLen
    BY LengthFacts
  <1>1. FrameLen = a + 1 + b
    BY LengthFacts
  <1>2. CASE m.phase = "LEAD"
    <2>1. d_current_cmd.len \in 0 .. a
      BY <1>2 DEF InFrame, CommandOf
    <2> PICK l \in 0 .. a : l = d_current_cmd.len
      BY <2>1
    <2>2. Copied(m) = a - l
      BY <1>2 DEF Copied
    <2> QED
      BY <1>1, <2>2 DEF TaggedAt
  <1>3. CASE m.phase = "BODY"
    <2>1. d_current_cmd.len \in 0 .. b
      BY <1>3 DEF InFrame, CommandOf
    <2> PICK l \in 0 .. b : l = d_current_cmd.len
      BY <2>1
    <2>2. Copied(m) = (a + 1 + b) - l
      BY <1>1, <1>3 DEF Copied
    <2> QED
      BY <1>1, <2>2 DEF TaggedAt
  <1> QED
    BY <1>2, <1>3

\* MUX_COPY.
LEMMA CopyKeeps ==
    ASSUME MuxInv, working, Copy, UNCHANGED <<written, nread, peak, call>>
    PROVE  MuxInv'
  <1>1. MuxTypeOK /\ CallsAreWhole /\ BuffersRespected /\ FramesAreWhole
    BY DEF MuxInv
  <1>2. PICK m \in Marks : Leads(m, d_queue \o pending, starts) /\ Here(m)
    BY DEF MuxInv
  <1>3. d_state = "COPY" /\ ~InputEmpty /\ d_state # "WAIT"
    BY DEF Copy
  <1>4. m.phase \in {"LEAD", "BODY"} /\ InFrame(m) /\ m.frame <= Len(starts)
    BY <1>2, <1>3, PhaseOfState DEF Here
  <1>5. /\ in_sel = Chosen(m) /\ in_sel \in Inputs /\ d_current_cmd.len \in Nat
    BY <1>1, <1>3, <1>4, BurstIsThere
  <1>6. oo \in Nat /\ noutput_items \in Nat /\ oo <= noutput_items /\ ninput_items[in_sel] \in Nat
    BY <1>1, <1>5 DEF MuxTypeOK, BuffersRespected
  <1> DEFINE n == Min({noutput_items - oo, ninput_items[in_sel], d_current_cmd.len})
  <1>7. n \in Nat /\ n <= noutput_items - oo /\ n <= d_current_cmd.len
    <2>1. noutput_items - oo \in Nat
      BY <1>6
    <2> QED
      BY <1>5, <1>6, <2>1, SmallestOfThree
  <1>8. /\ Process(n) /\ oo' = oo + n /\ out' = out \o Items(n, FALSE)
        /\ ii' = [ii EXCEPT ![in_sel] = @ + n] /\ UNCHANGED d_queue
    BY DEF Copy, Process
  <1> HIDE DEF n
  <1>9. UNCHANGED <<written, nread, pending, starts, working, ninput_items, noutput_items>>
    BY DEF peak, call
  <1>10. Copied(m) \in Nat /\ Copied(m) + n <= FrameLen /\ TaggedAt(Copied(m), n, FALSE)
    BY <1>1, <1>4, <1>7, CopyIsUntagged
  <1>11. FramesAreWhole'
    BY <1>1, <1>4, <1>5, <1>7, <1>8, <1>9, <1>10, FrameGrows
  <1>12. /\ out' \in Seq([in : Inputs, item : Nat, tagged : BOOLEAN])
         /\ Len(out') = Len(out) + n
         /\ n > 0 => out'[Len(out')].item = nread[in_sel] + ii[in_sel] + n
         /\ n = 0 => out' = out
    <2>1. /\ out' \in Seq([in : Inputs, item : Nat, tagged : BOOLEAN])
          /\ Len(out') = Len(out) + n
          /\ \A i \in 1 .. n : out'[Len(out) + i].item = nread[in_sel] + ii[in_sel] + i
          /\ n = 0 => out' = out
      BY <1>1, <1>5, <1>7, <1>8, ItemFacts
    <2>2. n > 0 => n \in 1 .. n
      BY <1>7
    <2> QED
      BY <2>1, <2>2
  <1>13. /\ Here(m)' /\ ii' \in [Inputs -> Nat] /\ d_current_cmd' \in Cmd
         /\ \A c \in Inputs : ii'[c] <= ninput_items'[c]
    BY <1>1, <1>2, <1>3, <1>4, <1>7, <1>8, <1>9, <1>12, CommandMoves
  <1>14. oo' \in Nat /\ oo' <= noutput_items'
    BY <1>6, <1>7, <1>8, <1>9
  <1>15. MuxTypeOK' /\ CallsAreWhole' /\ BuffersRespected'
    BY <1>1, <1>8, <1>9, <1>12, <1>13, <1>14 DEF MuxTypeOK, CallsAreWhole, BuffersRespected
  <1> QED
    BY <1>2, <1>8, <1>9, <1>11, <1>13, <1>15 DEF MuxInv

\* MUX_DELETE.
LEMMA DeleteKeeps ==
    ASSUME MuxInv, working, Delete, UNCHANGED <<written, nread, peak, call>>
    PROVE  MuxInv'
  <1>1. MuxTypeOK /\ CallsAreWhole /\ BuffersRespected /\ FramesAreWhole
    BY DEF MuxInv
  <1>2. PICK m \in Marks : Leads(m, d_queue \o pending, starts) /\ Here(m)
    BY DEF MuxInv
  <1>3. d_state = "DELETE" /\ ~InputEmpty /\ d_state # "WAIT"
    BY DEF Delete
  <1>4. m.phase = "DELETE" /\ InFrame(m) /\ m.frame <= Len(starts)
    BY <1>2, <1>3, PhaseOfState DEF Here
  <1>5. /\ in_sel = Chosen(m) /\ in_sel \in Inputs /\ d_current_cmd.len \in Nat
    BY <1>1, <1>3, <1>4, BurstIsThere
  <1> DEFINE n == Min({ninput_items[in_sel], d_current_cmd.len})
  <1>6. n \in Nat /\ n <= d_current_cmd.len
    <2>1. ninput_items[in_sel] \in Nat
      BY <1>1, <1>5 DEF MuxTypeOK
    <2> QED
      BY <1>5, <2>1, SmallestOfTwo
  <1>7. Process(n) /\ UNCHANGED <<d_queue, oo, out>>
    BY DEF Delete, Process
  <1> HIDE DEF n
  <1>8. UNCHANGED <<written, nread, pending, starts, working, ninput_items, noutput_items>>
    BY DEF peak, call
  <1>9. /\ Here(m)' /\ ii' \in [Inputs -> Nat] /\ d_current_cmd' \in Cmd
        /\ \A c \in Inputs : ii'[c] <= ninput_items'[c]
    BY <1>1, <1>2, <1>3, <1>4, <1>6, <1>7, <1>8, CommandMoves
  <1>10. MuxTypeOK' /\ CallsAreWhole' /\ BuffersRespected' /\ FramesAreWhole'
    BY <1>1, <1>7, <1>8, <1>9
       DEF MuxTypeOK, CallsAreWhole, BuffersRespected, FramesAreWhole
  <1> QED
    BY <1>2, <1>7, <1>8, <1>9, <1>10 DEF MuxInv

\* MUX_TAG.
LEMMA TagCopyKeeps ==
    ASSUME MuxInv, working, TagCopy, UNCHANGED <<written, nread, peak, call>>
    PROVE  MuxInv'
  <1>1. MuxTypeOK /\ CallsAreWhole /\ BuffersRespected /\ FramesAreWhole
    BY DEF MuxInv
  <1>2. PICK m \in Marks : Leads(m, d_queue \o pending, starts) /\ Here(m)
    BY DEF MuxInv
  <1>3. /\ d_state = "TAG_COPY" /\ ~InputEmpty /\ ~OutputFull /\ d_state # "WAIT"
        /\ d_state' = "WAIT" /\ oo' = oo + 1 /\ ii' = [ii EXCEPT ![in_sel] = @ + 1]
        /\ out' = out \o Items(1, TRUE) /\ UNCHANGED <<d_queue, d_current_cmd>>
    BY DEF TagCopy
  <1>4. m.phase = "TAG" /\ m.phase # "FLUSH" /\ InFrame(m) /\ m.frame <= Len(starts)
    BY <1>2, <1>3, PhaseOfState DEF Here
  <1>5. /\ in_sel = Chosen(m) /\ in_sel \in Inputs /\ InBurst(m) \in Nat
    BY <1>1, <1>3, <1>4, BurstIsThere
  <1>6. PICK b \in Nat :
           /\ nread[in_sel] + ii[in_sel] = b * BurstLen[in_sel] + InBurst(m)
           /\ b * BurstLen[in_sel] + BurstLen[in_sel] <= nread[in_sel] + ninput_items[in_sel]
    BY <1>1, <1>3, <1>4, BurstIsThere
  <1>7. UNCHANGED <<written, nread, pending, starts, working, ninput_items, noutput_items>>
    BY DEF peak, call
  <1> PICK a \in Nat : a = Lead
    BY LengthFacts
  <1> PICK s \in Nat : s = Offset(m)
    BY <1>1, <1>4, FrameFacts DEF InFrame
  <1>8. Copied(m) = a /\ Copied(m)' = a + 1 /\ InBurst(m) = s + a /\ a + 1 <= FrameLen
    <2>1. Copied(m) = a /\ Copied(m)' = a + 1
      BY <1>3, <1>4 DEF Copied
    <2>2. InBurst(m) = s + a
      BY <1>4, <2>1 DEF InBurst
    <2>3. a + 1 <= FrameLen
      BY LengthFacts
    <2> QED
      BY <2>1, <2>2, <2>3
  <1>9. InBurst(m) + 1 <= BurstLen[in_sel]
    <2>1. s + FrameLen <= BurstLen[in_sel] /\ FrameLen \in Nat /\ BurstLen[in_sel] \in Nat
      BY <1>1, <1>4, <1>5, FrameFacts, LengthFacts DEF InFrame
    <2> QED
      BY <1>8, <2>1
  <1>10. /\ ii' \in [Inputs -> Nat]
         /\ \A c \in Inputs : ii'[c] <= ninput_items'[c]
         /\ \A c \in Inputs : c # Chosen(m) => StandsAt(nread'[c] + ii'[c], c, 0)
         /\ nread'[in_sel] + ii'[in_sel] = nread[in_sel] + ii[in_sel] + 1
         /\ StandsAt(nread[in_sel] + ii[in_sel] + 1, in_sel, InBurst(m) + 1)
         /\ Chosen(m)' = Chosen(m) /\ Offset(m)' = Offset(m)
    BY <1>1, <1>2, <1>3, <1>4, <1>5, <1>6, <1>7, <1>9, InputMoves
  <1>11. InBurst(m)' = InBurst(m) + 1
    <2>1. InBurst(m)' = s + Copied(m)'
      BY <1>4, <1>10 DEF InBurst
    <2> QED
      BY <1>8, <2>1
  <1>12. FramesAreWhole'
    <2>1. Copied(m) \in Nat /\ Copied(m) + 1 <= FrameLen /\ TaggedAt(Copied(m), 1, TRUE)
      BY <1>8 DEF TaggedAt
    <2>2. m.phase # "DELETE"
      BY <1>4
    <2> QED
      BY <1>1, <1>3, <1>4, <1>5, <1>7, <2>1, <2>2, FrameGrows
  <1>13. /\ out' \in Seq([in : Inputs, item : Nat, tagged : BOOLEAN])
         /\ Len(out') = Len(out) + 1
         /\ out'[Len(out')].item = nread[in_sel] + ii[in_sel] + 1
    <2>1. /\ out' \in Seq([in : Inputs, item : Nat, tagged : BOOLEAN])
          /\ Len(out') = Len(out) + 1
          /\ \A i \in 1 .. 1 : out'[Len(out) + i].item = nread[in_sel] + ii[in_sel] + i
      BY <1>1, <1>3, <1>5, ItemFacts
    <2> QED
      BY <2>1
  <1>14. Len(out') = (m.frame - 1) * FrameLen + Copied(m)'
    <2> PICK z \in Int : z = (m.frame - 1) * FrameLen
      <3>1. m.frame - 1 \in Int /\ FrameLen \in Nat
        BY LengthFacts DEF Marks
      <3> QED
        BY <3>1, NextMultiple
    <2>1. Len(out) = z + a
      BY <1>4, <1>8 DEF InFrame
    <2> QED
      BY <1>8, <1>13, <2>1
  <1>15. InFrame(m)'
    <2>1. nread'[Chosen(m)'] + ii'[Chosen(m)'] = nread[in_sel] + ii[in_sel] + 1
      BY <1>5, <1>10
    <2>2. StandsAt(nread'[Chosen(m)'] + ii'[Chosen(m)'], Chosen(m)', InBurst(m)')
      BY <1>5, <1>10, <1>11, <2>1
    <2>3. Copied(m)' > 0 => out'[Len(out')].item = nread'[Chosen(m)'] + ii'[Chosen(m)']
      BY <1>13, <2>1
    <2>4. m.frame > 0 /\ m.flushed = {}
      BY <1>4 DEF InFrame
    <2> QED
      BY <1>3, <1>4, <1>14, <2>2, <2>3, <2>4 DEF InFrame
  <1>16. Here(m)'
    <2>1. m.frame <= Len(starts') /\ m.frame > 0
      BY <1>4, <1>7 DEF InFrame
    <2>2. \A c \in Inputs :
             (m.frame > 0 => c # Chosen(m)') => StandsAt(nread'[c] + ii'[c], c, 0)
      BY <1>10, <2>1
    <2> QED
      BY <1>4, <1>15, <2>1, <2>2 DEF Here
  <1>17. oo' \in Nat /\ oo' <= noutput_items'
    <2>1. oo \in Nat /\ noutput_items \in Nat /\ oo <= noutput_items /\ oo # noutput_items
      BY <1>1, <1>3 DEF MuxTypeOK, BuffersRespected, OutputFull
    <2> QED
      BY <1>3, <1>7, <2>1
  <1>18. MuxTypeOK' /\ CallsAreWhole' /\ BuffersRespected'
    BY <1>1, <1>3, <1>7, <1>10, <1>13, <1>17 DEF MuxTypeOK, CallsAreWhole, BuffersRespected
  <1> QED
    BY <1>2, <1>3, <1>7, <1>12, <1>16, <1>18 DEF MuxInv

\* A flush ends at the first item of a burst, found or to come.
LEMMA FlushFinds ==
    ASSUME MuxTypeOK, CallsAreWhole, BuffersRespected, working, DeleteFlush,
           UNCHANGED <<nread, ninput_items>>
    PROVE  /\ in_sel \in Inputs /\ ii' \in [Inputs -> Nat]
           /\ \A c \in Inputs : ii'[c] <= ninput_items'[c]
           /\ \A c \in Inputs : c # in_sel => ii'[c] = ii[c]
           /\ StandsAt(nread'[in_sel] + ii'[in_sel], in_sel, 0)
           /\ d_state' \in {"WAIT", "DELETE_FLUSH"}
  <1> PICK c \in Inputs : c = in_sel
    BY DEF MuxTypeOK, Cmd, in_sel
  <1> PICK v \in Nat \ {0} : v = BurstLen[c]
    BY LengthFacts
  <1> PICK r \in Nat : r = nread[c]
    BY DEF MuxTypeOK
  <1> PICK k \in Nat : k = ninput_items[c]
    BY DEF MuxTypeOK
  <1>1. PICK i \in Nat : i <= k /\ ii' = [ii EXCEPT ![c] = i] /\ StandsAt(r + i, c, 0)
    <2>1. CASE Tags # {}
      <3> PICK i \in Nat : i = ii[c]
        BY DEF MuxTypeOK
      <3> PICK j \in Nat : j = r + i
        OBVIOUS
      <3>1. Min(Tags) \in Tags
        <4>1. Tags \subseteq Nat
          BY MuxAssumption DEF Tags
        <4> QED
          BY <2>1, <4>1, MinIsLeast
      <3> PICK t : t = Min(Tags)
        OBVIOUS
      <3>2. t \in Nat /\ t * v >= j /\ t * v < r + k
        BY <3>1, MuxAssumption DEF Tags
      <3> PICK y \in Nat : y = t * v
        BY <3>2, ProductInNat
      <3>3. y >= r + i /\ y < r + k
        BY <3>2
      <3>4. y - r \in Nat /\ y - r <= k /\ r + (y - r) = y
        BY <3>3
      <3>5. ii' = [ii EXCEPT ![c] = y - r]
        BY <2>1 DEF DeleteFlush
      <3>6. StandsAt(y, c, 0)
        BY <3>2 DEF StandsAt
      <3> QED
        BY <3>4, <3>5, <3>6
    <2>2. CASE Tags = {}
      <3>1. ii' = [ii EXCEPT ![c] = k]
        BY <2>2 DEF DeleteFlush
      <3>2. PICK e \in Nat : r + k = e * v
        BY DEF CallsAreWhole, Whole
      <3>3. StandsAt(r + k, c, 0)
        BY <3>2 DEF StandsAt
      <3>4. k \in Nat /\ k <= k
        OBVIOUS
      <3> QED
        BY <3>1, <3>3, <3>4
    <2> QED
      BY <2>1, <2>2
  <1>2. ii' \in [Inputs -> Nat] /\ ii'[c] = i /\ \A d \in Inputs : d # c => ii'[d] = ii[d]
    BY <1>1 DEF MuxTypeOK
  <1>3. \A d \in Inputs : ii'[d] <= ninput_items'[d]
    BY <1>1, <1>2 DEF BuffersRespected
  <1>4. StandsAt(nread'[c] + ii'[c], c, 0)
    BY <1>1, <1>2
  <1>5. d_state' \in {"WAIT", "DELETE_FLUSH"}
    BY DEF DeleteFlush
  <1> QED
    BY <1>2, <1>3, <1>4, <1>5

\* MUX_FLUSH.
LEMMA FlushKeeps ==
    ASSUME MuxInv, working, DeleteFlush, UNCHANGED <<written, nread, peak, call>>
    PROVE  MuxInv'
  <1>1. MuxTypeOK /\ CallsAreWhole /\ BuffersRespected /\ FramesAreWhole
    BY DEF MuxInv
  <1>2. PICK m \in Marks : Leads(m, d_queue \o pending, starts) /\ Here(m)
    BY DEF MuxInv
  <1>3. d_state = "DELETE_FLUSH" /\ UNCHANGED <<d_queue, d_current_cmd, oo, out>>
    BY DEF DeleteFlush
  <1>4. UNCHANGED <<written, nread, pending, starts, working, ninput_items, noutput_items>>
    BY DEF peak, call
  <1>5. /\ in_sel \in Inputs /\ ii' \in [Inputs -> Nat]
        /\ \A c \in Inputs : ii'[c] <= ninput_items'[c]
        /\ \A c \in Inputs : c # in_sel => ii'[c] = ii[c]
        /\ StandsAt(nread'[in_sel] + ii'[in_sel], in_sel, 0)
        /\ d_state' \in {"WAIT", "DELETE_FLUSH"}
    BY <1>1, <1>4, FlushFinds
  <1>6. m.phase = "FLUSH" /\ Flushing(m) /\ m.frame <= Len(starts)
    BY <1>2, <1>3, PhaseOfState DEF Here
  <1>7. Chosen(m)' = Chosen(m) /\ Offset(m)' = Offset(m)
    BY <1>4 DEF Chosen, Offset
  <1>8. \A c \in Inputs : StandsAt(nread[c] + ii[c], c, 0) => StandsAt(nread'[c] + ii'[c], c, 0)
    BY <1>4, <1>5
  <1>9. Flushing(m)'
    <2>1. m.frame > 0 => \E x \in {0, Offset(m)' + FrameLen} :
             StandsAt(nread'[Chosen(m)'] + ii'[Chosen(m)'], Chosen(m)', x)
      <3>1. ASSUME m.frame > 0
            PROVE  \E x \in {0, Offset(m)' + FrameLen} :
                      StandsAt(nread'[Chosen(m)'] + ii'[Chosen(m)'], Chosen(m)', x)
        <4>1. Chosen(m) \in Inputs
          BY <1>1, <1>6, <3>1, FrameFacts
        <4>2. CASE Chosen(m) = in_sel
          BY <1>5, <1>7, <4>2
        <4>3. CASE Chosen(m) # in_sel
          <5>1. nread'[Chosen(m)'] + ii'[Chosen(m)'] = nread[Chosen(m)] + ii[Chosen(m)]
            BY <1>4, <1>5, <1>7, <4>1, <4>3
          <5>2. \E x \in {0, Offset(m) + FrameLen} :
                   StandsAt(nread[Chosen(m)] + ii[Chosen(m)], Chosen(m), x)
            BY <1>6, <3>1 DEF Flushing
          <5> QED
            BY <1>7, <5>1, <5>2
        <4> QED
          BY <4>2, <4>3
      <3> QED
        BY <3>1
    <2>2. \A c \in m.flushed : StandsAt(nread'[c] + ii'[c], c, 0)
      <3>1. ASSUME NEW c \in m.flushed
            PROVE  StandsAt(nread'[c] + ii'[c], c, 0)
        <4>1. c \in Inputs
          BY DEF Marks
        <4>2. CASE c = in_sel
          BY <1>5, <4>2
        <4>3. CASE c # in_sel
          <5>1. StandsAt(nread[c] + ii[c], c, 0)
            BY <1>6, <4>3 DEF Flushing
          <5> QED
            BY <1>8, <4>1, <5>1
        <4> QED
          BY <4>2, <4>3
      <3> QED
        BY <3>1
    <2>3. Len(out') = m.frame * FrameLen
      BY <1>3, <1>6 DEF Flushing
    <2> QED
      BY <1>5, <2>1, <2>2, <2>3 DEF Flushing
  <1>10. Here(m)'
    <2>1. \A c \in Inputs :
             (m.frame > 0 => c # Chosen(m)') => StandsAt(nread'[c] + ii'[c], c, 0)
      BY <1>2, <1>7, <1>8 DEF Here
    <2> QED
      BY <1>4, <1>6, <1>9, <2>1 DEF Here
  <1>11. MuxTypeOK' /\ CallsAreWhole' /\ BuffersRespected' /\ FramesAreWhole'
    BY <1>1, <1>3, <1>4, <1>5 DEF MuxTypeOK, CallsAreWhole, BuffersRespected, FramesAreWhole
  <1> QED
    BY <1>2, <1>3, <1>4, <1>10, <1>11 DEF MuxInv

\* A step that changes nothing.
LEMMA StutterKeeps ==
    ASSUME MuxInv, UNCHANGED vars
    PROVE  MuxInv'
  <1>1. UNCHANGED <<written, nread, d_queue, pending, starts, call, mux>>
    BY DEF vars, peak
  <1>2. MuxTypeOK' /\ CallsAreWhole' /\ BuffersRespected' /\ FramesAreWhole'
    BY <1>1 DEF MuxInv, MuxTypeOK, CallsAreWhole, BuffersRespected, FramesAreWhole, call, mux
  <1>3. PICK m \in Marks : Leads(m, d_queue \o pending, starts) /\ Here(m)
    BY DEF MuxInv
  <1>4. MuxTypeOK
    BY DEF MuxInv
  <1>5. Here(m)'
    BY <1>1, <1>3, <1>4, HereKept DEF mux, Here
  <1> QED
    BY <1>1, <1>2, <1>3, <1>5 DEF MuxInv

LEMMA MuxStep ==
    ASSUME WholeWrites, MuxInv, [Next]_vars
    PROVE  MuxInv'
  <1>1. CASE \E c \in Inputs : Write(c)
    BY <1>1, WriteKeeps
  <1>2. CASE Decide
    BY <1>2, DecideKeeps
  <1>3. CASE Queue
    BY <1>3, QueueKeeps
  <1>4. CASE BeginWork \/ EndWork
    BY <1>4, CallsKeep
  <1>5. CASE Loop
    <2>1. working /\ UNCHANGED <<written, nread, peak, call>>
      BY <1>5 DEF Loop
    <2>2. CASE NextCommand
      BY <2>1, <2>2, NextCommandKeeps
    <2>3. CASE Copy
      BY <2>1, <2>3, CopyKeeps
    <2>4. CASE TagCopy
      BY <2>1, <2>4, TagCopyKeeps
    <2>5. CASE Delete
      BY <2>1, <2>5, DeleteKeeps
    <2>6. CASE DeleteFlush
      BY <2>1, <2>6, FlushKeeps
    <2> QED
      BY <1>5, <2>2, <2>3, <2>4, <2>5, <2>6 DEF Loop
  <1>6. CASE UNCHANGED vars
    BY <1>6, StutterKeeps
  <1> QED
    BY <1>1, <1>2, <1>3, <1>4, <1>5, <1>6 DEF Next, general_work

-----------------------------------------------------------------------------
\* The mux is always at a command of a frame or in the flushes behind it, and
\* the commands ahead take it through every frame that was decided on.
THEOREM MuxFollowsItsCommands ==
    ASSUME WholeWrites
    PROVE  Spec => []MuxInv
  <1>1. Init => MuxInv
    BY MuxStarts
  <1>2. MuxInv /\ [Next]_vars => MuxInv'
    BY MuxStep
  <1> QED
    BY <1>1, <1>2, PTL DEF Spec

\* general_work uses no more items than it is given and writes no more than it
\* is asked for, although MUX_COPY and MUX_DELETE compare what is left of a
\* command with all the items of the call (rfidbts_pick.cc:301, 337).
THEOREM CallsStayInTheirBuffers ==
    ASSUME WholeWrites
    PROVE  Spec => []BuffersRespected
  <1>1. MuxInv => BuffersRespected
    BY DEF MuxInv
  <1> QED
    BY <1>1, MuxFollowsItsCommands, PTL

\* The output is whole frames, each a run of items of the chosen input that
\* begins where pick_peak said, tagged behind the lead, however the threads and
\* the calls of general_work interleave.
THEOREM OutputIsWholeFrames ==
    ASSUME WholeWrites
    PROVE  Spec => []FramesAreWhole
  <1>1. MuxInv => FramesAreWhole
    BY DEF MuxInv
  <1> QED
    BY <1>1, MuxFollowsItsCommands, PTL

-----------------------------------------------------------------------------
(***************************************************************************)
(* The counters, pick_peak and the mux.                                    *)
(***************************************************************************)
SearchTypeOK ==
    /\ written \in [Inputs -> Nat] /\ cread \in [Inputs -> Nat]
    /\ c_state \in [Inputs -> {"WAIT_NEW_FRAME", "SEARCH_ACTIVE"}]
    /\ d_count \in [Inputs -> Nat] /\ c_burst \in [Inputs -> 0 .. Bursts]
    /\ results \in [Inputs -> Seq(Result)]
    /\ decided \in Nat
    /\ starts \in Seq(Inputs \X Nat) /\ verdicts \in Seq([Inputs -> Result])

\* Input c has got to burst b, and to the peak if r has one.
IsResultOf(r, c, b) ==
    /\ FirstItem(c, b) < written[c]
    /\ r.peak > 0 => r.count \in PeakCounts /\ FirstItem(c, b) + r.count < written[c]

(***************************************************************************)
(* A counter waits behind the first item of the burst it has dealt with,   *)
(* at most at the next one, or it is d_count items into the burst it       *)
(* searches.                                                               *)
(***************************************************************************)
Reads(c) ==
    IF c_state[c] = "SEARCH_ACTIVE"
    THEN /\ c_burst[c] > 0
         /\ d_count[c] <= PreambleThresh
         /\ cread[c] = FirstItem(c, c_burst[c]) + d_count[c]
         /\ FirstItem(c, c_burst[c]) < written[c]
    ELSE /\ cread[c] <= FirstItem(c, c_burst[c] + 1)
         /\ c_burst[c] > 0 => FirstItem(c, c_burst[c]) < cread[c]

\* The results not read yet are of the bursts to be decided, in their order.
Results(c) ==
    /\ c_burst[c] = decided + Len(results[c]) + (IF c_state[c] = "SEARCH_ACTIVE" THEN 1 ELSE 0)
    /\ \A i \in 1 .. Len(results[c]) : IsResultOf(results[c][i], c, decided + i)

Counter(c) ==
    /\ cread[c] <= written[c] /\ written[c] <= FirstItem(c, Bursts + 1)
    /\ Reads(c) /\ Results(c)

Highest(heads, best) == \A c \in Inputs : heads[best].peak >= heads[c].peak

Verdicts ==
    /\ Len(verdicts) = Len(starts)
    /\ \A f \in 1 .. Len(verdicts) :
          /\ Highest(verdicts[f], starts[f][1])
          /\ starts[f][2] + SampleOffset = verdicts[f][starts[f][1]].count

SearchInv == SearchTypeOK /\ Verdicts /\ \A c \in Inputs : Counter(c)

-----------------------------------------------------------------------------
\* What the assumptions on the constants come to.
LEMMA SearchConstants ==
    /\ Bursts \in Nat /\ SampleOffset \in Nat /\ Lead \in Nat /\ SampleOffset >= Lead
    /\ PreambleThresh \in Nat /\ PreambleThresh > 0 /\ Chunks \subseteq Nat
    /\ \A p \in PeakCounts : p \in Nat /\ p <= PreambleThresh /\ p - SampleOffset \in Starts
    /\ \A c \in Inputs : BurstLen[c] \in Nat /\ PreambleThresh < BurstLen[c]
    /\ \A c \in Inputs : \A p \in Peaks[c] : p.count \in PeakCounts /\ p.peak \in Nat
  <1>1. /\ Bursts \in Nat /\ Starts \subseteq Nat /\ Starts # {} /\ Lead \in Nat \ {0}
        /\ BurstLen \in [Inputs -> Nat \ {0}]
    BY MuxAssumption
  <1>2. /\ SampleOffset \in Nat /\ SampleOffset >= Lead
        /\ PreambleThresh \in Nat /\ Chunks \subseteq Nat \ {0}
        /\ \A c \in Inputs : PreambleThresh < BurstLen[c]
        /\ \A p \in PeakCounts : p <= PreambleThresh
        /\ Peaks \in [Inputs -> SUBSET [count : PeakCounts, peak : Nat \ {0}]]
    BY PeakAssumption
  <1>3. \A p \in PeakCounts : p \in Nat /\ p - SampleOffset \in Starts
    BY <1>1, <1>2 DEF PeakCounts
  <1>4. PreambleThresh > 0
    <2>1. PICK s \in Starts : TRUE
      BY <1>1
    <2>2. s \in Nat /\ s + SampleOffset \in PeakCounts
      BY <1>1, <2>1 DEF PeakCounts
    <2> QED
      BY <1>1, <1>2, <2>2
  <1>5. \A c \in Inputs : \A p \in Peaks[c] : p.count \in PeakCounts /\ p.peak \in Nat
    BY <1>2
  <1> QED
    BY <1>1, <1>2, <1>3, <1>4, <1>5

LEMMA FirstItemIs ==
    ASSUME NEW c \in Inputs, NEW a \in Nat
    PROVE  FirstItem(c, a + 1) = a * BurstLen[c]
  <1>1. FirstItem(c, a + 1) = ((a + 1) - 1) * BurstLen[c]
    BY DEF FirstItem
  <1>2. (a + 1) - 1 = a
    OBVIOUS
  <1> DEFINE x == (a + 1) - 1
  <1> HIDE DEF x
  <1>3. x = a => x * BurstLen[c] = a * BurstLen[c]
    BY Zenon
  <1> QED
    BY <1>1, <1>2, <1>3, Zenon DEF x

\* The bursts of an input begin a burst's length from each other.
LEMMA FirstItems ==
    ASSUME NEW c \in Inputs
    PROVE  /\ FirstItem(c, 1) = 0
           /\ \A b \in Nat \ {0} : /\ FirstItem(c, b) \in Nat
                                   /\ FirstItem(c, b + 1) = FirstItem(c, b) + BurstLen[c]
  <1> PICK n \in Nat : n = BurstLen[c]
    BY SearchConstants
  <1>1. FirstItem(c, 1) = 0
    BY DEF FirstItem
  <1>2. ASSUME NEW b \in Nat \ {0}
        PROVE  /\ FirstItem(c, b) \in Nat
               /\ FirstItem(c, b + 1) = FirstItem(c, b) + BurstLen[c]
    <2>1. PICK a \in Nat : b = a + 1
      <3>1. b - 1 \in Nat /\ b = (b - 1) + 1
        OBVIOUS
      <3> QED
        BY <3>1
    <2>2. a \in Nat /\ a \in Int /\ a + 1 \in Nat
      BY <2>1
    <2>3. FirstItem(c, b) = a * BurstLen[c]
      BY <2>1, FirstItemIs, Zenon
    <2>4. FirstItem(c, b + 1) = (a + 1) * BurstLen[c]
      BY <2>1, <2>2, FirstItemIs, Zenon
    <2>5. a * n \in Nat
      BY <2>2, ProductInNat
    <2>6. (a + 1) * n = a * n + n
      BY <2>2, NextMultiple
    <2> QED
      BY <2>3, <2>4, <2>5, <2>6, Zenon
  <1> QED
    BY <1>1, <1>2

LEMMA FirstItemsApart ==
    ASSUME NEW c \in Inputs, NEW a \in Nat \ {0}, NEW b \in Nat \ {0}, a < b
    PROVE  FirstItem(c, a) + BurstLen[c] <= FirstItem(c, b)
  <1>1. BurstLen[c] \in Nat
    BY SearchConstants
  <1>2. a \in Nat /\ b - 1 \in Nat /\ a <= b - 1
    OBVIOUS
  <1>3. a * BurstLen[c] <= (b - 1) * BurstLen[c]
    BY <1>1, <1>2, TimesMonotone
  <1>4. FirstItem(c, a + 1) <= FirstItem(c, b)
    <2>1. FirstItem(c, a + 1) = a * BurstLen[c]
      BY FirstItemIs
    <2>2. FirstItem(c, b) = (b - 1) * BurstLen[c]
      BY Zenon DEF FirstItem
    <2> QED
      BY <1>3, <2>1, <2>2, Zenon
  <1>5. FirstItem(c, a + 1) = FirstItem(c, a) + BurstLen[c]
    BY FirstItems
  <1> QED
    BY <1>4, <1>5, Zenon

-----------------------------------------------------------------------------
\* The items of a call are on the input.
LEMMA CallIsThere ==
    ASSUME SearchTypeOK, NEW c \in Inputs, cread[c] <= written[c], NEW n \in MinIn(c)
    PROVE  n \in Nat \ {0} /\ cread[c] + n <= written[c]
  <1>1. written[c] - cread[c] \in Nat /\ cread[c] \in Nat /\ written[c] \in Nat
    BY DEF SearchTypeOK
  <1>2. PICK k \in Chunks : n = Min({k, written[c] - cread[c]}) /\ n # 0
    BY DEF MinIn
  <1>3. k \in Nat
    BY SearchConstants
  <1>4. n \in Nat /\ n <= written[c] - cread[c]
    BY <1>1, <1>2, <1>3, SmallestOfTwo
  <1> QED
    BY <1>1, <1>2, <1>4

\* The counter of one input leaves the others alone.
LEMMA OthersKept ==
    ASSUME SearchTypeOK, NEW c \in Inputs, NEW d \in Inputs, d # c, Counter(d),
           \A v \in Inputs : written'[v] = written[v], decided' = decided,
           cread'[d] = cread[d], c_state'[d] = c_state[d], d_count'[d] = d_count[d],
           c_burst'[d] = c_burst[d], results'[d] = results[d]
    PROVE  Counter(d)'
  <1>1. written'[d] = written[d]
    OBVIOUS
  <1> QED
    BY <1>1 DEF Counter, Reads, Results, IsResultOf

LEMMA ResultsCounted ==
    ASSUME SearchTypeOK, NEW c \in Inputs
    PROVE  decided \in Nat /\ Len(results[c]) \in Nat /\ decided + Len(results[c]) \in Nat
  <1>1. decided \in Nat /\ Len(results[c]) \in Nat
    BY DEF SearchTypeOK
  <1> QED
    BY <1>1

\* The next tag a waiting counter comes to is that of the burst behind the last
\* one it has dealt with: none is missed and none is found twice.
LEMMA NextTag ==
    ASSUME SearchTypeOK, NEW c \in Inputs, Counter(c), c_state[c] = "WAIT_NEW_FRAME",
           NEW n \in Nat \ {0}, cread[c] + n <= written[c]
    PROVE  /\ TagsAhead(c, n) # {} =>
                 /\ Min(TagsAhead(c, n)) = c_burst[c] + 1 /\ c_burst[c] + 1 \in 1 .. Bursts
                 /\ cread[c] <= FirstItem(c, c_burst[c] + 1)
                 /\ FirstItem(c, c_burst[c] + 1) < cread[c] + n
           /\ TagsAhead(c, n) = {} => cread[c] + n <= FirstItem(c, c_burst[c] + 1)
  <1> DEFINE k == c_burst[c]
             T == TagsAhead(c, n)
  <1>1. k \in Nat /\ k <= Bursts /\ cread[c] \in Nat /\ written[c] \in Nat /\ Bursts \in Nat
    BY SearchConstants DEF SearchTypeOK
  <1>2. cread[c] <= FirstItem(c, k + 1) /\ (k > 0 => FirstItem(c, k) < cread[c])
    BY DEF Counter, Reads
  <1>3. \A b \in T : b \in 1 .. Bursts /\ cread[c] <= FirstItem(c, b)
                     /\ FirstItem(c, b) < cread[c] + n
    BY DEF TagsAhead
  <1>4. \A b \in 1 .. Bursts : cread[c] <= FirstItem(c, b) /\ FirstItem(c, b) < cread[c] + n
                               => b \in T
    BY DEF TagsAhead
  <1>5. \A b \in Nat \ {0} : FirstItem(c, b) \in Nat
    BY FirstItems
  <1>6. \A a, b \in Nat \ {0} : a < b => FirstItem(c, a) <= FirstItem(c, b)
    <2> SUFFICES ASSUME NEW a \in Nat \ {0}, NEW b \in Nat \ {0}, a < b
                 PROVE  FirstItem(c, a) <= FirstItem(c, b)
      OBVIOUS
    <2>1. FirstItem(c, a) + BurstLen[c] <= FirstItem(c, b) /\ BurstLen[c] \in Nat
      BY FirstItemsApart, SearchConstants
    <2> QED
      BY <1>5, <2>1
  <1>7. written[c] <= FirstItem(c, Bursts + 1)
    BY DEF Counter
  <1> HIDE DEF k, T
  <1>8. \A b \in T : k + 1 <= b
    <2> SUFFICES ASSUME NEW b \in T, b <= k
                 PROVE  FALSE
      BY <1>1, <1>3
    <2>1. b \in Nat \ {0} /\ k \in Nat \ {0} /\ cread[c] <= FirstItem(c, b)
      BY <1>1, <1>3
    <2>2. FirstItem(c, b) <= FirstItem(c, k)
      <3>1. CASE b = k
        BY <1>5, <2>1, <3>1
      <3>2. CASE b < k
        BY <1>6, <2>1, <3>2
      <3> QED
        BY <2>1, <3>1, <3>2
    <2> QED
      BY <1>1, <1>2, <1>5, <2>1, <2>2
  <1>9. CASE T # {}
    <2>1. PICK b \in T : TRUE
      BY <1>9
    <2>2. b \in Nat \ {0} /\ b <= Bursts /\ FirstItem(c, b) < cread[c] + n /\ k + 1 <= b
      BY <1>1, <1>3, <1>8, <2>1
    <2>3. k + 1 \in Nat \ {0} /\ k + 1 \in 1 .. Bursts
      BY <1>1, <2>2
    <2>4. FirstItem(c, k + 1) <= FirstItem(c, b)
      <3>1. CASE k + 1 = b
        BY <1>5, <2>3, <3>1
      <3>2. CASE k + 1 < b
        BY <1>6, <2>2, <2>3, <3>2
      <3> QED
        BY <1>1, <2>2, <3>1, <3>2
    <2>5. FirstItem(c, k + 1) < cread[c] + n
      BY <1>1, <1>5, <2>2, <2>3, <2>4
    <2>6. k + 1 \in T
      BY <1>2, <1>4, <2>3, <2>5
    <2>7. T \subseteq Nat
      BY <1>1, <1>3
    <2>8. Min(T) \in T /\ Min(T) <= k + 1
      BY <1>9, <2>6, <2>7, MinIsLeast
    <2>9. Min(T) = k + 1
      <3>1. PICK m \in T : m = Min(T)
        BY <2>8
      <3>2. m \in Nat /\ k + 1 <= m /\ m <= k + 1
        BY <1>8, <2>7, <2>8, <3>1, Zenon
      <3> QED
        BY <1>1, <3>1, <3>2
    <2> QED
      BY <1>2, <1>9, <2>3, <2>5, <2>9 DEF k, T
  <1>10. CASE T = {}
    <2>1. k + 1 \in Nat \ {0} /\ FirstItem(c, k + 1) \in Nat
      BY <1>1, <1>5
    <2>2. CASE k = Bursts
      BY <1>1, <1>7, <1>10, <2>1, <2>2 DEF k, T
    <2>3. CASE k < Bursts
      <3>1. k + 1 \in 1 .. Bursts
        BY <1>1, <2>3
      <3>2. ~(FirstItem(c, k + 1) < cread[c] + n)
        BY <1>2, <1>4, <1>10, <3>1
      <3> QED
        BY <1>1, <1>10, <2>1, <3>2 DEF k, T
    <2> QED
      BY <1>1, <2>2, <2>3
  <1> QED
    BY <1>9, <1>10 DEF T

LEMMA WaitKeeps ==
    ASSUME SearchTypeOK, NEW c \in Inputs, Counter(c), WaitNewFrame(c),
           written' = written, decided' = decided
    PROVE  Counter(c)'
  <1>1. PICK n \in MinIn(c) :
            IF TagsAhead(c, n) # {}
            THEN LET b == Min(TagsAhead(c, n)) IN
                 /\ Consume(c, FirstItem(c, b) - cread[c])
                 /\ d_count' = [d_count EXCEPT ![c] = 0]
                 /\ c_state' = [c_state EXCEPT ![c] = "SEARCH_ACTIVE"]
                 /\ c_burst' = [c_burst EXCEPT ![c] = b]
            ELSE /\ Consume(c, n)
                 /\ UNCHANGED <<d_count, c_state, c_burst>>
    BY DEF WaitNewFrame
  <1>2. c_state[c] = "WAIT_NEW_FRAME" /\ results' = results
    BY DEF WaitNewFrame
  <1>3. cread[c] <= written[c]
    BY DEF Counter
  <1>4. n \in Nat \ {0} /\ cread[c] + n <= written[c]
    BY <1>3, CallIsThere
  <1>5. /\ TagsAhead(c, n) # {} =>
                 /\ Min(TagsAhead(c, n)) = c_burst[c] + 1 /\ c_burst[c] + 1 \in 1 .. Bursts
                 /\ cread[c] <= FirstItem(c, c_burst[c] + 1)
                 /\ FirstItem(c, c_burst[c] + 1) < cread[c] + n
        /\ TagsAhead(c, n) = {} => cread[c] + n <= FirstItem(c, c_burst[c] + 1)
    BY <1>2, <1>4, NextTag
  <1>6. /\ c_burst[c] \in Nat /\ cread[c] \in Nat /\ written[c] \in Nat
        /\ FirstItem(c, c_burst[c] + 1) \in Nat
    <2>1. c_burst[c] \in Nat /\ cread[c] \in Nat /\ written[c] \in Nat
      BY SearchConstants DEF SearchTypeOK
    <2> QED
      BY <2>1, FirstItems
  <1>7. c_burst[c] = decided + Len(results[c])
    <2>1. decided + Len(results[c]) \in Nat
      BY ResultsCounted
    <2>2. c_burst[c] = decided + Len(results[c])
                       + (IF c_state[c] = "SEARCH_ACTIVE" THEN 1 ELSE 0)
      BY DEF Counter, Results
    <2> QED
      BY <1>2, <2>1, <2>2
  <1>8. /\ written'[c] = written[c] /\ written[c] <= FirstItem(c, Bursts + 1)
        /\ results'[c] = results[c]
        /\ \A i \in 1 .. Len(results[c]) : IsResultOf(results[c][i], c, decided + i)'
    BY <1>2 DEF Counter, Results, IsResultOf
  <1>9. CASE TagsAhead(c, n) # {}
    <2>1. /\ cread'[c] = FirstItem(c, c_burst[c] + 1) /\ d_count'[c] = 0
          /\ c_state'[c] = "SEARCH_ACTIVE" /\ c_burst'[c] = c_burst[c] + 1
      BY <1>1, <1>5, <1>6, <1>9 DEF Consume, SearchTypeOK
    <2>2. PreambleThresh >= 0
      BY SearchConstants
    <2>3. Reads(c)'
      BY <1>4, <1>5, <1>6, <1>8, <1>9, <2>1, <2>2 DEF Reads
    <2>4. Results(c)'
      <3>1. decided' + Len(results'[c]) = c_burst[c] /\ decided' = decided
        BY <1>7, <1>8
      <3>2. c_burst'[c] = decided' + Len(results'[c]) + 1
        BY <2>1, <3>1
      <3> QED
        BY <1>8, <2>1, <3>1, <3>2 DEF Results
    <2> QED
      BY <1>4, <1>5, <1>6, <1>8, <1>9, <2>1, <2>3, <2>4 DEF Counter
  <1>10. CASE TagsAhead(c, n) = {}
    <2>1. /\ cread'[c] = cread[c] + n /\ d_count'[c] = d_count[c]
          /\ c_state'[c] = "WAIT_NEW_FRAME" /\ c_burst'[c] = c_burst[c]
      BY <1>1, <1>2, <1>10 DEF Consume, SearchTypeOK
    <2>2. c_burst[c] > 0 => FirstItem(c, c_burst[c]) < cread[c]
      BY <1>2 DEF Counter, Reads
    <2>3. c_burst[c] > 0 => FirstItem(c, c_burst[c]) \in Nat
      BY <1>6, FirstItems
    <2>4. Reads(c)'
      BY <1>4, <1>5, <1>6, <1>10, <2>1, <2>2, <2>3 DEF Reads
    <2>5. Results(c)'
      <3>1. decided' + Len(results'[c]) = c_burst[c] /\ decided' = decided
        BY <1>7, <1>8
      <3>2. c_burst'[c] = decided' + Len(results'[c]) + 0
        BY <1>6, <2>1, <3>1
      <3> QED
        BY <1>8, <2>1, <3>1, <3>2 DEF Results
    <2> QED
      BY <1>4, <1>8, <2>1, <2>4, <2>5 DEF Counter
  <1> QED
    BY <1>9, <1>10

\* A result is of the burst searched, and the next burst is still ahead.
LEMMA EmitKeeps ==
    ASSUME SearchTypeOK, NEW c \in Inputs, Counter(c), c_state[c] = "SEARCH_ACTIVE",
           NEW height, NEW count, Emit(c, height, count),
           NEW x \in Nat \ {0}, x <= BurstLen[c],
           cread'[c] = FirstItem(c, c_burst[c]) + x, cread'[c] <= written[c],
           height > 0 => count \in PeakCounts /\ FirstItem(c, c_burst[c]) + count < written[c],
           written' = written, decided' = decided, c_burst' = c_burst
    PROVE  Counter(c)'
  <1> PICK r : r = [peak |-> height, count |-> count, burst |-> c_burst[c]]
    OBVIOUS
  <1>1. results'[c] = Append(results[c], r) /\ c_state'[c] = "WAIT_NEW_FRAME"
    BY DEF Emit, SearchTypeOK
  <1>2. /\ c_burst[c] > 0 /\ FirstItem(c, c_burst[c]) < written[c]
        /\ c_burst[c] = decided + Len(results[c]) + 1
    BY DEF Counter, Reads, Results
  <1>3. /\ c_burst[c] \in Nat \ {0} /\ FirstItem(c, c_burst[c]) \in Nat
        /\ FirstItem(c, c_burst[c] + 1) = FirstItem(c, c_burst[c]) + BurstLen[c]
        /\ BurstLen[c] \in Nat
    <2>1. c_burst[c] \in Nat \ {0}
      BY <1>2, SearchConstants DEF SearchTypeOK
    <2> QED
      BY <2>1, FirstItems, SearchConstants
  <1>4. Reads(c)'
    BY <1>1, <1>3 DEF Reads
  <1>5. IsResultOf(r, c, c_burst[c])
    BY <1>2 DEF IsResultOf
  <1> PICK l \in Nat : l = Len(results[c])
    BY ResultsCounted
  <1>6. decided \in Nat
    BY ResultsCounted
  <1>7. /\ Len(results'[c]) = l + 1 /\ results'[c][l + 1] = r
        /\ \A i \in 1 .. l : results'[c][i] = results[c][i]
    BY <1>1 DEF SearchTypeOK
  <1>8. \A i \in 1 .. l : IsResultOf(results[c][i], c, decided + i)
    BY DEF Counter, Results
  <1>9. ASSUME NEW i \in 1 .. l + 1
        PROVE  IsResultOf(results[c][i], c, decided + i)'
    <2>1. CASE i \in 1 .. l
      <3>1. IsResultOf(results'[c][i], c, decided + i)
        BY <1>7, <1>8, <2>1, Zenon
      <3> QED
        BY <3>1 DEF IsResultOf
    <2>2. CASE i = l + 1
      <3>1. c_burst[c] = decided + i
        BY <1>2, <1>6, <2>2
      <3>2. IsResultOf(results'[c][i], c, decided + i)
        BY <1>5, <1>7, <2>2, <3>1, Zenon
      <3> QED
        BY <3>2 DEF IsResultOf
    <2> QED
      BY <2>1, <2>2
  <1>10. Results(c)'
    <2>1. c_burst'[c] = decided' + Len(results'[c]) + 0
      BY <1>2, <1>6, <1>7
    <2>2. \A i \in 1 .. Len(results'[c]) : IsResultOf(results[c][i], c, decided + i)'
      BY <1>7, <1>9
    <2> QED
      BY <1>1, <2>1, <2>2 DEF Results
  <1>11. written[c] <= FirstItem(c, Bursts + 1)
    BY DEF Counter
  <1> QED
    BY <1>4, <1>10, <1>11 DEF Counter

LEMMA FoundPeakKeeps ==
    ASSUME SearchTypeOK, NEW c \in Inputs, Counter(c), FoundPeak(c),
           written' = written, decided' = decided
    PROVE  Counter(c)'
  <1>1. /\ c_state[c] = "SEARCH_ACTIVE" /\ c_burst' = c_burst
        /\ \E n \in MinIn(c), p \in Peaks[c] :
              /\ d_count[c] <= p.count /\ p.count < d_count[c] + n
              /\ Consume(c, p.count - d_count[c] + 1)
              /\ Emit(c, p.peak, p.count)
    BY DEF FoundPeak
  <1>2. PICK n \in MinIn(c), p \in Peaks[c] :
              /\ d_count[c] <= p.count /\ p.count < d_count[c] + n
              /\ Consume(c, p.count - d_count[c] + 1)
              /\ Emit(c, p.peak, p.count)
    BY <1>1
  <1>3. /\ cread[c] <= written[c] /\ cread[c] = FirstItem(c, c_burst[c]) + d_count[c]
        /\ c_burst[c] > 0
    BY <1>1 DEF Counter, Reads
  <1>4. n \in Nat \ {0} /\ cread[c] + n <= written[c]
    BY <1>3, CallIsThere
  <1>5. /\ p.count \in PeakCounts /\ p.count \in Nat /\ p.count < BurstLen[c]
        /\ BurstLen[c] \in Nat
    BY SearchConstants
  <1>6. FirstItem(c, c_burst[c]) \in Nat /\ d_count[c] \in Nat /\ written[c] \in Nat
    <2>1. c_burst[c] \in Nat \ {0} /\ d_count[c] \in Nat /\ written[c] \in Nat
      BY <1>3, SearchConstants DEF SearchTypeOK
    <2> QED
      BY <2>1, FirstItems
  <1>7. cread'[c] = cread[c] + (p.count - d_count[c] + 1)
    BY <1>2 DEF Consume, SearchTypeOK
  <1>8. /\ p.count + 1 \in Nat \ {0} /\ p.count + 1 <= BurstLen[c]
        /\ cread'[c] = FirstItem(c, c_burst[c]) + (p.count + 1)
        /\ cread'[c] <= written[c] /\ FirstItem(c, c_burst[c]) + p.count < written[c]
    BY <1>2, <1>3, <1>4, <1>5, <1>6, <1>7
  <1> QED
    BY <1>1, <1>2, <1>5, <1>8, EmitKeeps

LEMMA GiveUpKeeps ==
    ASSUME SearchTypeOK, NEW c \in Inputs, Counter(c), GiveUp(c),
           written' = written, decided' = decided
    PROVE  Counter(c)'
  <1>1. /\ c_state[c] = "SEARCH_ACTIVE" /\ c_burst' = c_burst
        /\ Consume(c, PreambleThresh - d_count[c])
        /\ Emit(c, -1, 0)
    BY DEF GiveUp
  <1>2. PICK n \in MinIn(c) : PreambleThresh < d_count[c] + n
    BY DEF GiveUp
  <1>3. /\ cread[c] <= written[c] /\ cread[c] = FirstItem(c, c_burst[c]) + d_count[c]
        /\ c_burst[c] > 0
    BY <1>1 DEF Counter, Reads
  <1>4. n \in Nat \ {0} /\ cread[c] + n <= written[c]
    BY <1>3, CallIsThere
  <1>5. /\ PreambleThresh \in Nat \ {0} /\ PreambleThresh <= BurstLen[c]
        /\ BurstLen[c] \in Nat
    BY SearchConstants
  <1>6. FirstItem(c, c_burst[c]) \in Nat /\ d_count[c] \in Nat /\ written[c] \in Nat
    <2>1. c_burst[c] \in Nat \ {0} /\ d_count[c] \in Nat /\ written[c] \in Nat
      BY <1>3, SearchConstants DEF SearchTypeOK
    <2> QED
      BY <2>1, FirstItems
  <1>7. cread'[c] = cread[c] + (PreambleThresh - d_count[c])
    BY <1>1 DEF Consume, SearchTypeOK
  <1>8. cread'[c] = FirstItem(c, c_burst[c]) + PreambleThresh /\ cread'[c] <= written[c]
    BY <1>2, <1>3, <1>4, <1>5, <1>6, <1>7
  <1> QED
    BY <1>1, <1>5, <1>8, EmitKeeps

LEMMA NoPeakKeeps ==
    ASSUME SearchTypeOK, NEW c \in Inputs, Counter(c), NoPeakYet(c),
           written' = written, decided' = decided
    PROVE  Counter(c)'
  <1>1. PICK n \in MinIn(c) :
          /\ d_count[c] + n <= PreambleThresh
          /\ Consume(c, n)
          /\ d_count' = [d_count EXCEPT ![c] = @ + n]
    BY DEF NoPeakYet
  <1>2. c_state[c] = "SEARCH_ACTIVE" /\ UNCHANGED <<c_state, results, c_burst>>
    BY DEF NoPeakYet
  <1>3. /\ cread[c] <= written[c] /\ cread[c] = FirstItem(c, c_burst[c]) + d_count[c]
        /\ c_burst[c] > 0 /\ FirstItem(c, c_burst[c]) < written[c]
    BY <1>2 DEF Counter, Reads
  <1>4. n \in Nat \ {0} /\ cread[c] + n <= written[c]
    BY <1>3, CallIsThere
  <1>5. FirstItem(c, c_burst[c]) \in Nat /\ d_count[c] \in Nat
    <2>1. c_burst[c] \in Nat \ {0} /\ d_count[c] \in Nat
      BY <1>3, SearchConstants DEF SearchTypeOK
    <2> QED
      BY <2>1, FirstItems
  <1>6. cread'[c] = cread[c] + n /\ d_count'[c] = d_count[c] + n
    BY <1>1 DEF Consume, SearchTypeOK
  <1>7. Reads(c)'
    BY <1>1, <1>2, <1>3, <1>4, <1>5, <1>6 DEF Reads
  <1>8. Results(c)'
    BY <1>2 DEF Counter, Results, IsResultOf
  <1> QED
    BY <1>4, <1>6, <1>7, <1>8 DEF Counter

LEMMA CountersKeepType ==
    ASSUME SearchTypeOK, NEW c \in Inputs, cread[c] <= written[c],
           PeakCount(c), c_state[c] = "SEARCH_ACTIVE" => d_count[c] <= PreambleThresh,
           c_state[c] = "WAIT_NEW_FRAME" => \A n \in MinIn(c) : TagsAhead(c, n) # {} =>
               /\ Min(TagsAhead(c, n)) \in 1 .. Bursts
               /\ FirstItem(c, Min(TagsAhead(c, n))) - cread[c] \in Nat
    PROVE  SearchTypeOK'
  <1>1. UNCHANGED <<written, decided, starts, verdicts>>
    BY DEF PeakCount, vars, peak
  <1>2. \A n \in MinIn(c) : n \in Nat
    BY CallIsThere
  <1>3. cread[c] \in Nat /\ d_count[c] \in Nat /\ PreambleThresh \in Nat
    BY SearchConstants DEF SearchTypeOK
  <1>4. ASSUME NEW h \in Nat \cup {-1}, NEW k \in Nat, Emit(c, h, k)
        PROVE  /\ results' \in [Inputs -> Seq(Result)]
               /\ c_state' \in [Inputs -> {"WAIT_NEW_FRAME", "SEARCH_ACTIVE"}]
    <2>1. [peak |-> h, count |-> k, burst |-> c_burst[c]] \in Result
      BY DEF Result, SearchTypeOK
    <2> QED
      BY <1>4, <2>1 DEF Emit, SearchTypeOK
  <1>5. ASSUME NEW x \in Nat, Consume(c, x)
        PROVE  cread' \in [Inputs -> Nat]
    BY <1>3, <1>5 DEF Consume, SearchTypeOK
  <1>6. CASE WaitNewFrame(c)
    <2>1. PICK n \in MinIn(c) :
            IF TagsAhead(c, n) # {}
            THEN LET b == Min(TagsAhead(c, n)) IN
                 /\ Consume(c, FirstItem(c, b) - cread[c])
                 /\ d_count' = [d_count EXCEPT ![c] = 0]
                 /\ c_state' = [c_state EXCEPT ![c] = "SEARCH_ACTIVE"]
                 /\ c_burst' = [c_burst EXCEPT ![c] = b]
            ELSE /\ Consume(c, n)
                 /\ UNCHANGED <<d_count, c_state, c_burst>>
      BY <1>6 DEF WaitNewFrame
    <2>2. results' = results
      BY <1>6 DEF WaitNewFrame
    <2>3. CASE TagsAhead(c, n) # {}
      <3> PICK b : b = Min(TagsAhead(c, n))
        OBVIOUS
      <3>1. b \in 0 .. Bursts /\ FirstItem(c, b) - cread[c] \in Nat
        BY <1>6, <2>3, SearchConstants DEF WaitNewFrame
      <3>2. cread' \in [Inputs -> Nat]
        BY <1>5, <2>1, <2>3, <3>1
      <3>3. c_burst' \in [Inputs -> 0 .. Bursts]
        BY <2>1, <2>3, <3>1 DEF SearchTypeOK
      <3>4. d_count' \in [Inputs -> Nat]
        <4>1. d_count' = [d_count EXCEPT ![c] = 0]
          BY <2>1, <2>3
        <4> QED
          BY <4>1 DEF SearchTypeOK
      <3>5. c_state' \in [Inputs -> {"WAIT_NEW_FRAME", "SEARCH_ACTIVE"}]
        BY <2>1, <2>3 DEF SearchTypeOK
      <3> QED
        BY <1>1, <2>2, <3>2, <3>3, <3>4, <3>5 DEF SearchTypeOK
    <2>4. CASE TagsAhead(c, n) = {}
      <3>1. cread' \in [Inputs -> Nat]
        BY <1>2, <1>5, <2>1, <2>4
      <3> QED
        BY <1>1, <2>1, <2>2, <2>4, <3>1 DEF SearchTypeOK
    <2> QED
      BY <2>3, <2>4
  <1>7. CASE FoundPeak(c)
    <2>1. PICK n \in MinIn(c), p \in Peaks[c] :
              /\ d_count[c] <= p.count /\ p.count < d_count[c] + n
              /\ Consume(c, p.count - d_count[c] + 1)
              /\ d_count' = [d_count EXCEPT ![c] = p.count]
              /\ Emit(c, p.peak, p.count)
      BY <1>7 DEF FoundPeak
    <2>2. p.count \in Nat /\ p.peak \in Nat /\ p.count - d_count[c] + 1 \in Nat
      BY <1>3, <2>1, SearchConstants
    <2>3. c_burst' = c_burst
      BY <1>7 DEF FoundPeak
    <2>4. cread' \in [Inputs -> Nat]
      BY <1>5, <2>1, <2>2
    <2>5. /\ results' \in [Inputs -> Seq(Result)]
          /\ c_state' \in [Inputs -> {"WAIT_NEW_FRAME", "SEARCH_ACTIVE"}]
      BY <1>4, <2>1, <2>2
    <2> QED
      BY <1>1, <2>1, <2>2, <2>3, <2>4, <2>5 DEF SearchTypeOK
  <1>8. CASE GiveUp(c)
    <2>1. /\ Consume(c, PreambleThresh - d_count[c])
          /\ d_count' = [d_count EXCEPT ![c] = PreambleThresh]
          /\ Emit(c, -1, 0) /\ c_burst' = c_burst
      BY <1>8 DEF GiveUp
    <2>2. PreambleThresh - d_count[c] \in Nat
      BY <1>3, <1>8 DEF GiveUp
    <2>3. cread' \in [Inputs -> Nat]
      BY <1>5, <2>1, <2>2
    <2>4. /\ results' \in [Inputs -> Seq(Result)]
          /\ c_state' \in [Inputs -> {"WAIT_NEW_FRAME", "SEARCH_ACTIVE"}]
      BY <1>4, <2>1
    <2> QED
      BY <1>1, <1>3, <2>1, <2>3, <2>4 DEF SearchTypeOK
  <1>9. CASE NoPeakYet(c)
    <2>1. PICK n \in MinIn(c) :
          /\ Consume(c, n)
          /\ d_count' = [d_count EXCEPT ![c] = @ + n]
      BY <1>9 DEF NoPeakYet
    <2>2. UNCHANGED <<c_state, results, c_burst>> /\ n \in Nat
      BY <1>2, <1>9 DEF NoPeakYet
    <2>3. cread' \in [Inputs -> Nat]
      BY <1>5, <2>1, <2>2
    <2>4. d_count' \in [Inputs -> Nat]
      <3>1. d_count[c] + n \in Nat
        BY <1>3, <2>2
      <3> QED
        BY <2>1, <3>1 DEF SearchTypeOK
    <2> QED
      BY <1>1, <2>2, <2>3, <2>4 DEF SearchTypeOK
  <1> QED
    BY <1>6, <1>7, <1>8, <1>9 DEF PeakCount

LEMMA PeakCountKeeps ==
    ASSUME SearchInv, NEW c \in Inputs, PeakCount(c)
    PROVE  SearchInv'
  <1>1. SearchTypeOK /\ Verdicts /\ Counter(c) /\ \A d \in Inputs : Counter(d)
    BY DEF SearchInv
  <1>2. /\ UNCHANGED <<written, decided, starts, verdicts>>
        /\ WaitNewFrame(c) \/ FoundPeak(c) \/ GiveUp(c) \/ NoPeakYet(c)
    BY DEF PeakCount, vars, peak
  <1>3. cread[c] <= written[c]
    BY <1>1 DEF Counter
  <1>4. c_state[c] = "WAIT_NEW_FRAME" => \A n \in MinIn(c) : TagsAhead(c, n) # {} =>
               /\ Min(TagsAhead(c, n)) \in 1 .. Bursts
               /\ FirstItem(c, Min(TagsAhead(c, n))) - cread[c] \in Nat
    <2> SUFFICES ASSUME c_state[c] = "WAIT_NEW_FRAME", NEW n \in MinIn(c), TagsAhead(c, n) # {}
                 PROVE  /\ Min(TagsAhead(c, n)) \in 1 .. Bursts
                        /\ FirstItem(c, Min(TagsAhead(c, n))) - cread[c] \in Nat
      OBVIOUS
    <2>1. n \in Nat \ {0} /\ cread[c] + n <= written[c]
      BY <1>1, <1>3, CallIsThere
    <2>2. /\ Min(TagsAhead(c, n)) = c_burst[c] + 1 /\ c_burst[c] + 1 \in 1 .. Bursts
          /\ cread[c] <= FirstItem(c, c_burst[c] + 1)
      BY <1>1, <2>1, NextTag
    <2>3. c_burst[c] + 1 \in Nat \ {0} /\ cread[c] \in Nat
      BY <1>1, <2>2, SearchConstants DEF SearchTypeOK
    <2>4. FirstItem(c, c_burst[c] + 1) \in Nat
      BY <2>3, FirstItems
    <2> QED
      BY <2>2, <2>3, <2>4
  <1>5. c_state[c] = "SEARCH_ACTIVE" => d_count[c] <= PreambleThresh
    BY <1>1 DEF Counter, Reads
  <1>6. SearchTypeOK'
    BY <1>1, <1>3, <1>4, <1>5, CountersKeepType
  <1>7. Counter(c)'
    BY <1>1, <1>2, WaitKeeps, FoundPeakKeeps, GiveUpKeeps, NoPeakKeeps
  <1>8. ASSUME NEW d \in Inputs, d # c
        PROVE  Counter(d)'
    <2>1. cread'[d] = cread[d]
      BY <1>1, <1>2, <1>8 DEF WaitNewFrame, FoundPeak, GiveUp, NoPeakYet, Consume, SearchTypeOK
    <2>2. c_state'[d] = c_state[d]
      BY <1>1, <1>2, <1>8 DEF WaitNewFrame, FoundPeak, GiveUp, NoPeakYet, Emit, SearchTypeOK
    <2>3. d_count'[d] = d_count[d]
      BY <1>1, <1>2, <1>8 DEF WaitNewFrame, FoundPeak, GiveUp, NoPeakYet, SearchTypeOK
    <2>4. c_burst'[d] = c_burst[d]
      BY <1>1, <1>2, <1>8 DEF WaitNewFrame, FoundPeak, GiveUp, NoPeakYet, SearchTypeOK
    <2>5. results'[d] = results[d]
      BY <1>1, <1>2, <1>8 DEF WaitNewFrame, FoundPeak, GiveUp, NoPeakYet, Emit, SearchTypeOK
    <2> QED
      BY <1>1, <1>2, <1>8, <2>1, <2>2, <2>3, <2>4, <2>5, OthersKept
  <1>9. Verdicts'
    BY <1>1, <1>2 DEF Verdicts, Highest
  <1> QED
    BY <1>6, <1>7, <1>8, <1>9 DEF SearchInv

\* More items make nothing untrue.
LEMMA ArrivalsKeep ==
    ASSUME SearchInv, NEW c \in Inputs, Write(c), UNCHANGED counters
    PROVE  SearchInv'
  <1>1. SearchTypeOK /\ Verdicts /\ \A d \in Inputs : Counter(d)
    BY DEF SearchInv
  <1>2. PICK n \in Arrivals[c] : /\ written[c] + n <= Bursts * BurstLen[c]
                                 /\ written' = [written EXCEPT ![c] = @ + n]
    BY DEF Write
  <1>3. UNCHANGED <<decided, starts, verdicts, cread, c_state, d_count, c_burst, results>>
    BY DEF Write, peak, counters
  <1>4. n \in Nat
    BY MuxAssumption
  <1>5. SearchTypeOK'
    <2>1. written[c] + n \in Nat
      BY <1>1, <1>4 DEF SearchTypeOK
    <2>2. written' \in [Inputs -> Nat]
      BY <1>1, <1>2, <2>1 DEF SearchTypeOK
    <2> QED
      BY <1>1, <1>3, <2>2 DEF SearchTypeOK
  <1>6. \A d \in Inputs : /\ written[d] \in Nat /\ written'[d] \in Nat /\ cread[d] \in Nat
                          /\ written[d] <= written'[d]
                          /\ d # c => written'[d] = written[d]
    BY <1>1, <1>2, <1>4 DEF SearchTypeOK
  <1>7. written'[c] <= FirstItem(c, Bursts + 1)
    <2>1. FirstItem(c, Bursts + 1) = Bursts * BurstLen[c]
      BY FirstItemIs, SearchConstants
    <2>2. written'[c] = written[c] + n
      BY <1>1, <1>2 DEF SearchTypeOK
    <2> QED
      BY <1>2, <2>1, <2>2
  <1>8. ASSUME NEW d \in Inputs
        PROVE  Counter(d)'
    <2>1. written'[d] <= FirstItem(d, Bursts + 1)
      BY <1>1, <1>6, <1>7 DEF Counter
    <2>2. cread[d] <= written'[d]
      BY <1>1, <1>6 DEF Counter
    <2>3. ASSUME NEW b \in Nat \ {0}, NEW x \in Nat, FirstItem(d, b) + x < written[d]
          PROVE  FirstItem(d, b) + x < written'[d]
      <3>1. FirstItem(d, b) \in Nat
        BY FirstItems
      <3> QED
        BY <1>6, <2>3, <3>1
    <2>4. ASSUME NEW r, NEW b \in Nat \ {0}, IsResultOf(r, d, b)
          PROVE  IsResultOf(r, d, b)'
      <3>1. FirstItem(d, b) + 0 = FirstItem(d, b)
        BY FirstItems
      <3>2. FirstItem(d, b) < written'[d]
        BY <2>3, <2>4, <3>1 DEF IsResultOf
      <3>3. r.peak > 0 => r.count \in PeakCounts /\ FirstItem(d, b) + r.count < written'[d]
        BY <2>3, <2>4, SearchConstants DEF IsResultOf
      <3> QED
        BY <3>2, <3>3 DEF IsResultOf
    <2>5. Reads(d)'
      <3>1. c_state[d] = "SEARCH_ACTIVE" => FirstItem(d, c_burst[d]) < written'[d]
        <4> SUFFICES ASSUME c_state[d] = "SEARCH_ACTIVE"
                     PROVE  FirstItem(d, c_burst[d]) < written'[d]
          OBVIOUS
        <4>1. c_burst[d] \in Nat \ {0} /\ FirstItem(d, c_burst[d]) < written[d]
          BY <1>1, SearchConstants DEF Counter, Reads, SearchTypeOK
        <4>2. FirstItem(d, c_burst[d]) \in Nat
          BY <4>1, FirstItems
        <4> QED
          BY <1>6, <4>1, <4>2
      <3> QED
        BY <1>1, <1>3, <3>1 DEF Counter, Reads
    <2>6. Results(d)'
      <3>1. \A i \in 1 .. Len(results[d]) : decided + i \in Nat \ {0}
        BY <1>1, ResultsCounted
      <3>2. \A i \in 1 .. Len(results[d]) : IsResultOf(results[d][i], d, decided + i)
        BY <1>1 DEF Counter, Results
      <3>3. ASSUME NEW i \in 1 .. Len(results[d])
            PROVE  IsResultOf(results[d][i], d, decided + i)'
        <4>1. results'[d][i] = results[d][i] /\ decided' + i = decided + i
          BY <1>3
        <4>2. PICK r : r = results[d][i]
          OBVIOUS
        <4>3. PICK b \in Nat \ {0} : b = decided + i
          BY <3>1
        <4>4. IsResultOf(r, d, b)
          BY <3>2, <4>2, <4>3
        <4>5. IsResultOf(r, d, b)'
          BY <2>4, <4>3, <4>4
        <4> QED
          BY <4>1, <4>2, <4>3, <4>5 DEF IsResultOf
      <3> QED
        BY <1>1, <1>3, <3>3 DEF Counter, Results
    <2> QED
      BY <1>3, <2>1, <2>2, <2>5, <2>6 DEF Counter
  <1>9. Verdicts'
    BY <1>1, <1>3 DEF Verdicts, Highest
  <1> QED
    BY <1>5, <1>8, <1>9 DEF SearchInv

-----------------------------------------------------------------------------
\* Some input's peak is as high as any other's: else there were a least number
\* of inputs of which none has.
LEMMA HighestExists ==
    ASSUME NEW h \in [Inputs -> Int]
    PROVE  \E m \in Inputs : \A c \in Inputs : h[m] >= h[c]
  <1>1. PICK n \in Nat \ {0} : Inputs = 0 .. n - 1
    BY InputFacts
  <1> DEFINE Good(k) == \E m \in 0 .. k - 1 : \A c \in 0 .. k - 1 : h[m] >= h[c]
             Bad == {k \in 1 .. n : ~Good(k)}
  <1>2. Good(1)
    <2>1. 0 \in 0 .. 1 - 1 /\ \A c \in 0 .. 1 - 1 : c = 0
      OBVIOUS
    <2>2. h[0] >= h[0]
      <3>1. 0 \in Inputs
        BY <1>1
      <3> QED
        BY <3>1
    <2> QED
      BY <2>1, <2>2
  <1>3. ASSUME NEW k \in 1 .. n, k + 1 \in 1 .. n, Good(k)
        PROVE  Good(k + 1)
    <2>1. PICK m \in 0 .. k - 1 : \A c \in 0 .. k - 1 : h[m] >= h[c]
      BY <1>3
    <2>2. /\ k \in Inputs /\ m \in Inputs /\ m \in 0 .. (k + 1) - 1 /\ k \in 0 .. (k + 1) - 1
          /\ \A c \in 0 .. (k + 1) - 1 : c \in Inputs /\ (c = k \/ c \in 0 .. k - 1)
      BY <1>1, <1>3
    <2>3. \A c \in Inputs : h[c] \in Int
      OBVIOUS
    <2>4. CASE h[m] >= h[k]
      BY <2>1, <2>2, <2>4
    <2>5. CASE h[k] >= h[m]
      <3>1. \A c \in 0 .. (k + 1) - 1 : h[k] >= h[c]
        BY <2>1, <2>2, <2>3, <2>5
      <3> QED
        BY <2>2, <3>1
    <2> QED
      BY <2>2, <2>3, <2>4, <2>5
  <1> HIDE DEF Good
  <1>4. Bad = {}
    <2> SUFFICES ASSUME Bad # {}
                 PROVE  FALSE
      OBVIOUS
    <2>1. Bad \subseteq Nat
      OBVIOUS
    <2>2. PICK k \in Bad : \A y \in Bad : k <= y
      <3>1. Min(Bad) \in Bad /\ \A y \in Bad : Min(Bad) <= y
        BY <2>1, MinIsLeast
      <3> QED
        BY <3>1
    <2>3. k \in 1 .. n /\ ~Good(k) /\ k # 1
      BY <1>2, <2>2
    <2>4. k - 1 \in 1 .. n /\ (k - 1) + 1 = k /\ ~(k <= k - 1)
      BY <1>1, <2>3
    <2>5. Good(k - 1)
      BY <2>2, <2>4
    <2>6. Good((k - 1) + 1)
      BY <1>3, <2>3, <2>4, <2>5
    <2> QED
      BY <2>3, <2>4, <2>6
  <1>5. Good(n)
    BY <1>1, <1>4
  <1> QED
    BY <1>1, <1>5 DEF Good

LEMMA BestIsHighest ==
    ASSUME NEW heads \in [Inputs -> Result]
    PROVE  BestCorrelator(heads) \in Inputs /\ Highest(heads, BestCorrelator(heads))
  <1> DEFINE S == {heads[c].peak : c \in Inputs}
  <1>1. PICK h \in [Inputs -> Int] : \A c \in Inputs : h[c] = heads[c].peak
    <2>1. [c \in Inputs |-> heads[c].peak] \in [Inputs -> Int]
      BY DEF Result
    <2> QED
      BY <2>1
  <1>2. PICK m \in Inputs : \A c \in Inputs : h[m] >= h[c]
    BY HighestExists
  <1>3. \E x \in S : \A y \in S : x >= y
    <2>1. heads[m].peak \in S /\ \A y \in S : heads[m].peak >= y
      BY <1>1, <1>2
    <2> QED
      BY <2>1
  <1>4. PICK x \in S : x = Max(S) /\ \A y \in S : x >= y
    BY <1>3 DEF Max
  <1> DEFINE T == {c \in Inputs : heads[c].peak = x}
  <1>5. T # {}
    BY <1>4
  <1>6. T \subseteq Nat
    <2>1. Inputs \subseteq Nat
      BY InputFacts
    <2> QED
      BY <2>1
  <1>7. Min(T) \in T
    BY <1>5, <1>6, MinIsLeast
  <1>8. BestCorrelator(heads) = Min(T)
    BY <1>4, Zenon DEF BestCorrelator
  <1>9. Min(T) \in Inputs /\ heads[Min(T)].peak = x
    BY <1>7
  <1>10. \A c \in Inputs : heads[c].peak \in S
    OBVIOUS
  <1> QED
    BY <1>4, <1>8, <1>9, <1>10, Zenon DEF Highest

-----------------------------------------------------------------------------
\* The results pick_peak compares, and the input and the frame it decides on.
Heads == [c \in Inputs |-> Head(results[c])]

Best == BestCorrelator(Heads)

LEMMA HeadsAreResults ==
    ASSUME SearchInv, \A c \in Inputs : results[c] # << >>
    PROVE  /\ Heads \in [Inputs -> Result] /\ Best \in Inputs /\ Highest(Heads, Best)
           /\ \A c \in Inputs : IsResultOf(Heads[c], c, decided + 1)
           /\ \A c \in Inputs : Len(results[c]) >= 1
  <1>1. SearchTypeOK /\ \A c \in Inputs : Results(c)
    BY DEF SearchInv, Counter
  <1>2. ASSUME NEW c \in Inputs
        PROVE  /\ Head(results[c]) \in Result /\ Len(results[c]) >= 1
               /\ Head(results[c]) = results[c][1]
    BY <1>1 DEF SearchTypeOK
  <1>3. Heads \in [Inputs -> Result]
    BY <1>2 DEF Heads
  <1>4. ASSUME NEW c \in Inputs
        PROVE  IsResultOf(Heads[c], c, decided + 1)
    <2>1. 1 \in 1 .. Len(results[c])
      BY <1>1, <1>2, ResultsCounted
    <2>2. IsResultOf(results[c][1], c, decided + 1)
      BY <1>1, <2>1 DEF Results
    <2> QED
      BY <1>2, <2>2 DEF Heads
  <1> QED
    BY <1>2, <1>3, <1>4, BestIsHighest DEF Best

\* What pick_peak does with the results.
LEMMA PickPeakActs ==
    ASSUME PickPeak
    PROVE  /\ pending = << >> /\ \A c \in Inputs : results[c] # << >>
           /\ results' = [c \in Inputs |-> Tail(results[c])]
           /\ decided' = decided + 1
           /\ \/ /\ Heads[Best].peak > 0
                 /\ pending' = CopyOut(Best, Heads[Best].count - SampleOffset) \o FlushAll
                 /\ starts' = Append(starts, <<Best, Heads[Best].count - SampleOffset>>)
                 /\ verdicts' = Append(verdicts, Heads)
              \/ pending' = FlushAll /\ UNCHANGED <<starts, verdicts>>
           /\ UNCHANGED <<written, nread, d_queue, call, mux, cread, c_state, d_count, c_burst>>
  BY Zenon DEF PickPeak, Heads, Best, BestIndex

LEMMA PickPeakDecides ==
    ASSUME SearchInv, PickPeak
    PROVE  Decide
  <1>1. /\ pending = << >> /\ \A c \in Inputs : results[c] # << >>
        /\ decided' = decided + 1
        /\ \/ /\ Heads[Best].peak > 0
              /\ pending' = CopyOut(Best, Heads[Best].count - SampleOffset) \o FlushAll
              /\ starts' = Append(starts, <<Best, Heads[Best].count - SampleOffset>>)
           \/ pending' = FlushAll /\ UNCHANGED starts
        /\ UNCHANGED <<written, nread, d_queue, call, mux>>
    BY PickPeakActs
  <1>2. /\ Best \in Inputs
        /\ \A c \in Inputs : IsResultOf(Heads[c], c, decided + 1)
        /\ \A c \in Inputs : Len(results[c]) >= 1
    BY <1>1, HeadsAreResults
  <1>3. SearchTypeOK
    BY DEF SearchInv
  <1>4. decided \in Nat /\ \A c \in Inputs : Len(results[c]) \in Nat
    BY <1>3, ResultsCounted, <1>2
  <1>5. decided < Bursts
    <2>1. /\ c_burst[Best] <= Bursts
          /\ c_burst[Best] = decided + Len(results[Best])
                             + (IF c_state[Best] = "SEARCH_ACTIVE" THEN 1 ELSE 0)
      BY <1>2, <1>3 DEF SearchInv, Counter, Results, SearchTypeOK
    <2>2. PICK l \in Nat : l = Len(results[Best]) /\ l >= 1
      BY <1>2, <1>4
    <2>3. decided + l <= c_burst[Best] /\ c_burst[Best] \in Nat
      <3>1. c_burst[Best] \in Nat
        BY <1>2, <1>3, SearchConstants DEF SearchTypeOK
      <3>2. \/ c_burst[Best] = decided + l + 1
            \/ c_burst[Best] = decided + l + 0
        BY <2>1, <2>2, Zenon
      <3> QED
        BY <1>4, <2>2, <3>1, <3>2
    <2>4. Bursts \in Nat /\ c_burst[Best] <= Bursts
      BY <2>1, SearchConstants
    <2> QED
      BY <1>4, <2>2, <2>3, <2>4
  <1>6. ASSUME NEW c \in Inputs, NEW n \in Nat, FirstItem(c, decided + 1) + n <= written[c]
        PROVE  Searched(c, n)
    <2>1. FirstItem(c, decided + 1) = decided * BurstLen[c]
      BY <1>4, FirstItemIs
    <2>2. decided * BurstLen[c] + n <= written[c]
      BY <1>6, <2>1, Zenon
    <2> PICK x \in Int : x = decided * BurstLen[c] + n
      <3>1. decided * BurstLen[c] \in Nat
        BY <1>4, ProductInNat, SearchConstants
      <3> QED
        BY <3>1
    <2>3. x <= written[c] /\ written[c] \in Nat
      BY <1>3, <2>2 DEF SearchTypeOK
    <2>4. written[c] >= x
      BY <2>3
    <2> QED
      BY <2>4, Zenon DEF Searched
  <1>7. \A c \in Inputs : FirstItem(c, decided + 1) \in Nat /\ written[c] \in Nat
    <2>1. decided + 1 \in Nat \ {0}
      BY <1>4
    <2> QED
      BY <1>3, <2>1, FirstItems DEF SearchTypeOK
  <1>8. \A c \in Inputs : Searched(c, 1)
    <2>1. \A c \in Inputs : FirstItem(c, decided + 1) + 1 <= written[c]
      BY <1>2, <1>7 DEF IsResultOf
    <2> QED
      BY <1>6, <2>1
  <1>9. Heads[Best].peak > 0 =>
            /\ Heads[Best].count - SampleOffset \in Starts
            /\ Searched(Best, (Heads[Best].count - SampleOffset) + Lead)
    <2> SUFFICES ASSUME Heads[Best].peak > 0
                 PROVE  /\ Heads[Best].count - SampleOffset \in Starts
                        /\ Searched(Best, (Heads[Best].count - SampleOffset) + Lead)
      OBVIOUS
    <2>1. /\ Heads[Best].count \in PeakCounts
          /\ FirstItem(Best, decided + 1) + Heads[Best].count < written[Best]
      BY <1>2 DEF IsResultOf
    <2> PICK k : k = Heads[Best].count
      OBVIOUS
    <2>2. k \in Nat /\ k - SampleOffset \in Starts /\ k - SampleOffset \in Nat
      BY <2>1, SearchConstants, MuxAssumption
    <2>3. (k - SampleOffset) + Lead \in Nat /\ (k - SampleOffset) + Lead <= k
      BY <2>2, SearchConstants
    <2>4. FirstItem(Best, decided + 1) + ((k - SampleOffset) + Lead) <= written[Best]
      BY <1>2, <1>7, <2>1, <2>2, <2>3
    <2> QED
      BY <1>2, <1>6, <2>2, <2>3, <2>4
  <1> QED
    BY <1>1, <1>2, <1>5, <1>8, <1>9 DEF Decide

LEMMA OneMoved ==
    ASSUME NEW a \in Nat, NEW b \in Nat
    PROVE  (a + 1) + (b - 1) = a + b
  OBVIOUS

LEMMA PickPeakKeeps ==
    ASSUME SearchInv, PickPeak
    PROVE  SearchInv'
  <1>1. /\ \A c \in Inputs : results[c] # << >>
        /\ results' = [c \in Inputs |-> Tail(results[c])]
        /\ decided' = decided + 1
        /\ \/ /\ Heads[Best].peak > 0
              /\ starts' = Append(starts, <<Best, Heads[Best].count - SampleOffset>>)
              /\ verdicts' = Append(verdicts, Heads)
           \/ UNCHANGED <<starts, verdicts>>
        /\ UNCHANGED <<written, cread, c_state, d_count, c_burst>>
    BY PickPeakActs
  <1>2. /\ Heads \in [Inputs -> Result] /\ Best \in Inputs /\ Highest(Heads, Best)
        /\ \A c \in Inputs : IsResultOf(Heads[c], c, decided + 1)
        /\ \A c \in Inputs : Len(results[c]) >= 1
    BY <1>1, HeadsAreResults
  <1>3. SearchTypeOK /\ Verdicts /\ \A c \in Inputs : Counter(c)
    BY DEF SearchInv
  <1>4. /\ starts \in Seq(Inputs \X Nat) /\ verdicts \in Seq([Inputs -> Result])
        /\ \A c \in Inputs : results[c] \in Seq(Result)
        /\ decided \in Nat
    BY <1>3 DEF SearchTypeOK
  <1> PICK w : w = Heads[Best].count
    OBVIOUS
  <1>5. Heads[Best].peak > 0 => /\ w - SampleOffset \in Nat /\ w \in Nat /\ SampleOffset \in Nat
    <2> SUFFICES ASSUME Heads[Best].peak > 0
                 PROVE  w - SampleOffset \in Nat /\ w \in Nat /\ SampleOffset \in Nat
      OBVIOUS
    <2>1. w \in PeakCounts
      BY <1>2 DEF IsResultOf
    <2> QED
      BY <2>1, SearchConstants, MuxAssumption
  <1>6. SearchTypeOK'
    <2>1. \A c \in Inputs : Tail(results[c]) \in Seq(Result)
      BY <1>1, <1>4
    <2>2. results' \in [Inputs -> Seq(Result)]
      BY <1>1, <2>1
    <2>3. starts' \in Seq(Inputs \X Nat) /\ verdicts' \in Seq([Inputs -> Result])
      <3>1. CASE UNCHANGED <<starts, verdicts>>
        BY <1>4, <3>1
      <3>2. CASE /\ Heads[Best].peak > 0
                 /\ starts' = Append(starts, <<Best, Heads[Best].count - SampleOffset>>)
                 /\ verdicts' = Append(verdicts, Heads)
        <4>1. <<Best, w - SampleOffset>> \in Inputs \X Nat
          BY <1>2, <1>5, <3>2
        <4>2. starts' \in Seq(Inputs \X Nat)
          BY <1>4, <3>2, <4>1
        <4>3. verdicts' \in Seq([Inputs -> Result])
          BY <1>2, <1>4, <3>2
        <4> QED
          BY <4>2, <4>3
      <3> QED
        BY <1>1, <3>1, <3>2
    <2>4. decided' \in Nat
      BY <1>1, <1>4
    <2> QED
      BY <1>1, <1>3, <2>2, <2>3, <2>4 DEF SearchTypeOK
  <1>7. ASSUME NEW c \in Inputs
        PROVE  Counter(c)'
    <2>1. Reads(c)'
      BY <1>1, <1>3 DEF Counter, Reads
    <2> PICK l \in Nat : l = Len(results[c])
      BY <1>4
    <2> PICK d \in Nat : d = decided
      BY <1>4
    <2>0. decided' = d + 1 /\ l \in Nat /\ d \in Nat
      BY <1>1
    <2>2. /\ l >= 1 /\ results'[c] = Tail(results[c]) /\ Len(results'[c]) = l - 1
          /\ \A i \in 1 .. l - 1 : results'[c][i] = results[c][i + 1]
      BY <1>1, <1>2, <1>4
    <2>3. /\ c_burst[c] = decided + l + (IF c_state[c] = "SEARCH_ACTIVE" THEN 1 ELSE 0)
          /\ \A i \in 1 .. l : IsResultOf(results[c][i], c, decided + i)
      BY <1>3 DEF Counter, Results
    <2>4. c_burst'[c] = decided' + Len(results'[c])
                        + (IF c_state'[c] = "SEARCH_ACTIVE" THEN 1 ELSE 0)
      <3>1. decided' + Len(results'[c]) = d + l
        <4>1. (d + 1) + (l - 1) = d + l
          BY <2>0, OneMoved
        <4>2. decided' = d + 1 /\ Len(results'[c]) = l - 1
          BY <2>0, <2>2, Zenon
        <4> QED
          BY <4>1, <4>2, Zenon
      <3>2. c_burst'[c] = c_burst[c] /\ c_state'[c] = c_state[c]
        BY <1>1
      <3> QED
        BY <2>3, <3>1, <3>2, Zenon
    <2>5. ASSUME NEW i \in 1 .. l - 1
          PROVE  IsResultOf(results[c][i], c, decided + i)'
      <3>1. i + 1 \in 1 .. l /\ decided' + i = decided + (i + 1)
        BY <2>0
      <3>2. IsResultOf(results'[c][i], c, decided' + i)
        BY <2>2, <2>3, <3>1, Zenon
      <3> QED
        BY <1>1, <3>2 DEF IsResultOf
    <2>6. Results(c)'
      BY <2>2, <2>4, <2>5 DEF Results
    <2> QED
      BY <1>1, <1>3, <2>1, <2>6 DEF Counter
  <1>8. Verdicts'
    <2>1. CASE UNCHANGED <<starts, verdicts>>
      BY <1>3, <2>1 DEF Verdicts, Highest
    <2>2. CASE /\ Heads[Best].peak > 0
               /\ starts' = Append(starts, <<Best, Heads[Best].count - SampleOffset>>)
               /\ verdicts' = Append(verdicts, Heads)
      <3> PICK k \in Nat : k = Len(starts)
        BY <1>4
      <3>1. Len(verdicts) = k
        BY <1>3 DEF Verdicts
      <3>2. /\ Len(starts') = k + 1 /\ Len(verdicts') = k + 1
            /\ starts'[k + 1] = <<Best, w - SampleOffset>> /\ verdicts'[k + 1] = Heads
            /\ \A f \in 1 .. k : starts'[f] = starts[f] /\ verdicts'[f] = verdicts[f]
        BY <1>4, <2>2, <3>1
      <3>3. ASSUME NEW f \in 1 .. k + 1
            PROVE  /\ Highest(verdicts[f], starts[f][1])'
                   /\ starts'[f][2] + SampleOffset = verdicts'[f][starts'[f][1]].count
        <4>1. CASE f = k + 1
          <5>1. starts'[f][1] = Best /\ starts'[f][2] = w - SampleOffset /\ verdicts'[f] = Heads
            BY <3>2, <4>1
          <5>2. (w - SampleOffset) + SampleOffset = w
            BY <1>5, <2>2
          <5>3. Highest(verdicts[f], starts[f][1])'
            BY <1>2, <5>1 DEF Highest
          <5> QED
            BY <5>1, <5>2, <5>3
        <4>2. CASE f \in 1 .. k
          <5>1. starts'[f] = starts[f] /\ verdicts'[f] = verdicts[f]
            BY <3>2, <4>2
          <5>2. /\ Highest(verdicts[f], starts[f][1])
                /\ starts[f][2] + SampleOffset = verdicts[f][starts[f][1]].count
            BY <1>3, <3>1, <4>2 DEF Verdicts
          <5> QED
            BY <5>1, <5>2 DEF Highest
        <4> QED
          BY <4>1, <4>2
      <3> QED
        BY <3>2, <3>3 DEF Verdicts
    <2> QED
      BY <1>1, <2>1, <2>2
  <1> QED
    BY <1>6, <1>7, <1>8 DEF SearchInv

-----------------------------------------------------------------------------
LEMMA MuxKeepsSearch ==
    ASSUME SearchInv, Queue \/ general_work, UNCHANGED counters
    PROVE  SearchInv'
  <1>1. UNCHANGED <<written, decided, starts, verdicts, cread, c_state, d_count, c_burst, results>>
    BY DEF Queue, general_work, BeginWork, Loop, EndWork, peak, counters
  <1> QED
    BY <1>1 DEF SearchInv, SearchTypeOK, Verdicts, Highest, Counter, Reads, Results, IsResultOf

LEMMA SearchStarts ==
    ASSUME SearchInit
    PROVE  SearchInv
  <1>1. /\ written = Zero /\ decided = 0 /\ starts = << >> /\ cread = Zero /\ d_count = Zero
        /\ c_burst = Zero /\ verdicts = << >>
        /\ c_state = [c \in Inputs |-> "WAIT_NEW_FRAME"]
        /\ results = [c \in Inputs |-> << >>]
    BY DEF SearchInit, Init
  <1>2. 0 \in 0 .. Bursts
    BY SearchConstants
  <1>3. SearchTypeOK
    BY <1>1, <1>2 DEF SearchTypeOK, Zero
  <1>4. Verdicts
    BY <1>1 DEF Verdicts
  <1>5. ASSUME NEW c \in Inputs
        PROVE  Counter(c)
    <2>1. /\ written[c] = 0 /\ cread[c] = 0 /\ c_burst[c] = 0
          /\ c_state[c] = "WAIT_NEW_FRAME" /\ results[c] = << >>
      BY <1>1 DEF Zero
    <2>2. FirstItem(c, 0 + 1) = 0 /\ 0 <= FirstItem(c, Bursts + 1)
      <3>1. Bursts + 1 \in Nat \ {0} /\ 0 + 1 = 1
        BY SearchConstants
      <3>2. FirstItem(c, 1) = 0 /\ FirstItem(c, Bursts + 1) \in Nat
        BY <3>1, FirstItems
      <3> QED
        BY <3>1, <3>2
    <2>3. Reads(c)
      BY <2>1, <2>2 DEF Reads
    <2>4. Results(c)
      BY <1>1, <2>1 DEF Results
    <2> QED
      BY <2>1, <2>2, <2>3, <2>4 DEF Counter
  <1> QED
    BY <1>3, <1>4, <1>5 DEF SearchInv

LEMMA SearchStep ==
    ASSUME SearchInv, [SearchNext]_searchVars
    PROVE  SearchInv' /\ [Next]_vars
  <1>1. CASE \E c \in Inputs : Write(c) /\ UNCHANGED counters
    BY <1>1, ArrivalsKeep DEF Next
  <1>2. CASE \E c \in Inputs : PeakCount(c)
    <2>1. UNCHANGED vars
      BY <1>2 DEF PeakCount
    <2> QED
      BY <1>2, <2>1, PeakCountKeeps
  <1>3. CASE PickPeak
    BY <1>3, PickPeakKeeps, PickPeakDecides DEF Next
  <1>4. CASE (Queue \/ general_work) /\ UNCHANGED counters
    BY <1>4, MuxKeepsSearch DEF Next
  <1>5. CASE UNCHANGED searchVars
    <2>1. UNCHANGED vars /\ UNCHANGED counters
      BY <1>5 DEF searchVars
    <2>2. UNCHANGED <<written, decided, starts, verdicts, cread, c_state, d_count, c_burst,
                      results>>
      BY <2>1 DEF vars, peak, counters
    <2> QED
      BY <2>1, <2>2 DEF SearchInv, SearchTypeOK, Verdicts, Highest, Counter, Reads, Results,
                        IsResultOf
  <1> QED
    BY <1>1, <1>2, <1>3, <1>4, <1>5 DEF SearchNext

-----------------------------------------------------------------------------
\* No counter misses a burst's tag or finds one twice, whatever the calls its
\* stream is cut into, and the results pick_peak compares are of one burst.
THEOREM CountersStayInStep == SearchSpec => []SearchInv
  <1>1. SearchInit => SearchInv
    BY SearchStarts
  <1>2. SearchInv /\ [SearchNext]_searchVars => SearchInv'
    BY SearchStep
  <1> QED
    BY <1>1, <1>2, PTL DEF SearchSpec

\* pick_peak decides once for each burst, and only when every input has begun
\* the burst and the chosen one has got to its peak: the search implements the
\* decision of the mux's model.
THEOREM SearchImplementsMux == SearchSpec => ImplementsMux
  <1>1. SearchInit => Init
    BY DEF SearchInit
  <1>2. SearchInv /\ [SearchNext]_searchVars => [Next]_vars
    BY SearchStep
  <1> QED
    BY <1>1, <1>2, CountersStayInStep, PTL DEF SearchSpec, ImplementsMux, Spec

-----------------------------------------------------------------------------
LEMMA MemberOfSeq ==
    ASSUME NEW S, NEW s \in Seq(S), NEW k \in DOMAIN s
    PROVE  s[k] \in S
  OBVIOUS

LEMMA FirstOfFrame ==
    ASSUME SearchInv, MuxInv
    PROVE  FramesBeginAtPeak
  <1> SUFFICES ASSUME NEW f \in DOMAIN verdicts, Len(out) > (f - 1) * FrameLen
               PROVE  LET first == out[(f - 1) * FrameLen + 1]
                          best == verdicts[f][first.in]
                      IN
                      /\ \A c \in Inputs : best.peak >= verdicts[f][c].peak
                      /\ ((first.item - 1) % BurstLen[first.in]) + SampleOffset = best.count
    BY Zenon DEF FramesBeginAtPeak
  <1>1. /\ verdicts \in Seq([Inputs -> Result]) /\ Verdicts /\ MuxTypeOK /\ FramesAreWhole
        /\ starts \in Seq(Inputs \X Nat)
    BY DEF SearchInv, MuxInv, SearchTypeOK
  <1>2. PICK l \in Nat : l = Len(out) /\ DOMAIN out = 1 .. l
    BY <1>1 DEF MuxTypeOK
  <1>3. f \in 1 .. Len(verdicts) /\ f \in Nat
    BY <1>1
  <1>4. PICK e \in Nat : e = f - 1 /\ f = e + 1
    <2>1. f - 1 \in Nat /\ f = (f - 1) + 1
      BY <1>1, <1>3
    <2> QED
      BY <2>1
  <1>5. PICK x \in Nat : x = e * FrameLen
    BY <1>4, LengthFacts, ProductInNat
  <1>6. (x + 1) - 1 = x /\ x + 1 \in Nat
    BY <1>5
  <1>7. x \div FrameLen = e /\ x % FrameLen = 0
    <2>1. 0 \in Nat /\ 0 < FrameLen /\ FrameLen \in Nat \ {0} /\ e * FrameLen + 0 = x
      BY <1>5, LengthFacts
    <2>2. (e * FrameLen + 0) \div FrameLen = e /\ (e * FrameLen + 0) % FrameLen = 0
      BY <1>4, <2>1, FrameAndPlace
    <2> QED
      BY <2>1, <2>2, Zenon
  <1>8. FrameOf(x + 1) = f /\ PlaceOf(x + 1) = 0
    BY <1>4, <1>6, <1>7, Zenon DEF FrameOf, PlaceOf
  <1>9. (f - 1) * FrameLen = x
    BY <1>4, <1>5, Zenon
  <1>10. x + 1 \in 1 .. l
    <2>1. l > x
      BY <1>2, <1>9, Zenon
    <2> QED
      BY <1>2, <1>5, <2>1
  <1>11. Fits(out, starts, x + 1)
    BY <1>1, <1>2, <1>10, FramesMeaning, Zenon DEF WholeUpTo
  <1> PICK first : first = out[x + 1]
    OBVIOUS
  <1>12. first.item \in Nat
    <2>1. out \in Seq([in : Inputs, item : Nat, tagged : BOOLEAN]) /\ x + 1 \in DOMAIN out
      BY <1>1, <1>2, <1>10 DEF MuxTypeOK
    <2>2. out[x + 1] \in [in : Inputs, item : Nat, tagged : BOOLEAN]
      BY <2>1, MemberOfSeq, Zenon
    <2> QED
      BY <2>2
  <1>13. first.in = starts[f][1] /\ BegunAt(first.item - 1 - 0, starts[f][1]) = starts[f][2]
    BY <1>8, <1>11, Zenon DEF Fits
  <1>14. first.item - 1 - 0 = first.item - 1
    BY <1>12
  <1>15. (first.item - 1) % BurstLen[first.in] = starts[f][2]
    BY <1>13, <1>14, Zenon DEF BegunAt
  <1>16. /\ Highest(verdicts[f], starts[f][1])
         /\ starts[f][2] + SampleOffset = verdicts[f][starts[f][1]].count
    BY <1>1, <1>3 DEF Verdicts
  <1>17. \A c \in Inputs : verdicts[f][first.in].peak >= verdicts[f][c].peak
    BY <1>13, <1>16, Zenon DEF Highest
  <1>18. ((first.item - 1) % BurstLen[first.in]) + SampleOffset = verdicts[f][first.in].count
    BY <1>13, <1>15, <1>16, Zenon
  <1> QED
    BY <1>9, <1>17, <1>18, Zenon

\* From end to end: the frame the mux copies is of an input with the highest
\* peak, and the peak is sample_offset items behind its beginning.
THEOREM FramesComeFromPeaks ==
    ASSUME WholeWrites
    PROVE  SearchSpec => []FramesBeginAtPeak
  <1>1. SearchSpec => []MuxInv
    BY SearchImplementsMux, MuxFollowsItsCommands, PTL DEF ImplementsMux
  <1>2. SearchInv /\ MuxInv => FramesBeginAtPeak
    BY FirstOfFrame
  <1> QED
    BY <1>1, <1>2, CountersStayInStep, PTL
=============================================================================
