-------------------------- MODULE ElgTiming_proofs --------------------------
(***************************************************************************)
(* Proofs that the early late gate starts every frame at its own tag,      *)
(* spaces its half symbols evenly and reads no sample outside its input,   *)
(* for every sample rate, clip of the loop filter, resolution, length and  *)
(* interpolator, and for every way in which the scheduler and the mux cut  *)
(* the stream.                                                             *)
(***************************************************************************)
EXTENDS ElgTiming, WellFoundedInduction, TLAPS

TimingTypeOK ==
    /\ written \in Int /\ nread \in Int /\ ii \in Int /\ ninput_items \in Int
    /\ d_state \in {"INIT", "SAMPLE_DELAY", "SYMBOL_TRACK"}
    /\ d_symbol_counter \in Int /\ d_delay_counter \in Int
    /\ d_po \in Nat /\ d_spb \in Nat /\ due \in Int

\* Between two calls nread alone says where the block is.
PlaceIsKept == ~working => ii = 0

\* The samples of a half symbol that are not consumed are still counted.  A
\* frame's first half symbol has no such place yet.
NextIsDue ==
    d_symbol_counter < OutputSymbolLen =>
        /\ d_state = "SYMBOL_TRACK" => At = due
        /\ d_state = "SAMPLE_DELAY" =>
              d_delay_counter >= 0 /\ At + d_delay_counter * Unit = due

TimingInv == TimingTypeOK /\ PlaceIsKept /\ NextIsDue

(***************************************************************************)
(* Where the loop is: at the first half symbol of a frame it is behind the *)
(* tag, at most match_filter_offset; from then on it is past the tag, so   *)
(* that the next one found is that of the next frame.  The mux is at most  *)
(* one frame ahead.                                                        *)
(***************************************************************************)
Place == nread + ii

CountsOK ==
    /\ ii \in Nat /\ d_po < Unit /\ found \in Nat /\ written \in Nat
    /\ d_symbol_counter \in 0 .. OutputSymbolLen
    /\ d_state = "INIT" => d_symbol_counter = 0
    /\ d_symbol_counter > 0 => found > 0

OneFrameAhead == written <= (Done + 1) * FrameLen

TagBehind ==
    found > 0 =>
        IF d_symbol_counter = OutputSymbolLen
        THEN /\ d_po = 0
             /\ TagOf(found) <= Place /\ Place <= TagOf(found) + MatchFilterOffset
             /\ d_state = "SAMPLE_DELAY" => d_delay_counter <= 0
        ELSE TagOf(found) < Place

StartInv == CountsOK /\ OneFrameAhead /\ TagBehind

-----------------------------------------------------------------------------
\* The least of a set of numbers is in it.
LEMMA MinIsMember ==
    ASSUME NEW S, S \subseteq Nat, S # {}
    PROVE  Min(S) \in S
  <1>1. PICK x \in S : \A y \in S : ~(<<y, x>> \in OpToRel(<, Nat))
    BY NatLessThanWellFounded, WFMin
  <1>2. \A y \in S : x <= y
    <2>1. ASSUME NEW y \in S
          PROVE  x <= y
      <3>1. x \in Nat /\ y \in Nat
        OBVIOUS
      <3>2. y < x => <<y, x>> \in OpToRel(<, Nat)
        BY <3>1 DEF OpToRel
      <3>3. ~(<<y, x>> \in OpToRel(<, Nat))
        BY <1>1
      <3>4. ~(y < x)
        BY <3>2, <3>3
      <3> QED
        BY <3>1, <3>4
    <2> QED
      BY <2>1
  <1> QED
    BY <1>2 DEF Min

\* The lesser of two numbers.
LEMMA MinOfTwo ==
    ASSUME NEW a \in Int, NEW b \in Int
    PROVE  Min({a, b}) = IF a <= b THEN a ELSE b
  BY DEF Min

\* The product of natural numbers is one.
LEMMA ProductInNat ==
    ASSUME NEW a \in Nat, NEW b \in Nat
    PROVE  a * b \in Nat
  OBVIOUS

\* Tags have positions.
LEMMA TagsAreNat == TagsInRange \subseteq Nat
  <1>1. FrameLen \in Nat /\ Lead \in Nat /\ Bursts \in Nat
    BY ElgAssumption DEF FrameLen
  <1>2. ASSUME NEW f \in 1 .. Bursts
        PROVE  TagOf(f) \in Nat
    <2>1. f - 1 \in Nat
      BY <1>1
    <2>2. (f - 1) * FrameLen \in Nat
      BY <1>1, <2>1, ProductInNat
    <2> QED
      BY <1>1, <2>2 DEF TagOf
  <1> QED
    BY <1>2 DEF TagsInRange

\* Whole samples and the rest of one make up the time.
LEMMA WholeAndRest ==
    ASSUME NEW t \in Nat, NEW u \in Nat \ {0}
    PROVE  /\ t \div u \in Nat /\ t % u \in Nat
           /\ t = (t \div u) * u + (t % u)
  OBVIOUS

\* Times of places.
LEMMA PlaceTimes ==
    ASSUME NEW p \in Int, NEW n \in Int, NEW u \in Int
    PROVE  (p + n) * u = p * u + n * u /\ p * u \in Int /\ n * u \in Int
  OBVIOUS

-----------------------------------------------------------------------------
\* At the start no half symbol is due.
LEMMA TimingStarts == Init => TimingInv
  <1>1. SamplesPerSymbol * Unit \in Nat
    BY ElgAssumption, ProductInNat
  <1> QED
    BY <1>1 DEF Init, TimingInv, TimingTypeOK, PlaceIsKept, NextIsDue

\* A frame found starts anew, whatever was due.
LEMMA SearchKeepsInv ==
    ASSUME TimingInv, Looping, search_tag, UNCHANGED <<written, nread, call>>
    PROVE  TimingInv'
  <1>1. TimingTypeOK
    BY DEF TimingInv
  <1>2. Min(TagsInRange) \in Nat
    <2>1. TagsInRange # {}
      BY DEF search_tag
    <2> QED
      BY <2>1, TagsAreNat, MinIsMember
  <1> DEFINE t == Min(TagsInRange)
             count == t - nread + MatchFilterOffset
  <1>3. count \in Int /\ (t + MatchFilterOffset) * Unit \in Int
    BY <1>1, <1>2, ElgAssumption DEF TimingTypeOK
  <1>4. SamplesPerSymbol * Unit \in Nat
    BY ElgAssumption, ProductInNat
  <1>5. /\ ii' \in {ninput_items, count}
        /\ d_delay_counter' \in {d_delay_counter, ninput_items - count}
        /\ d_state' \in {"SAMPLE_DELAY", "SYMBOL_TRACK"}
        /\ d_symbol_counter' = OutputSymbolLen /\ d_po' = 0
        /\ d_spb' = SamplesPerSymbol * Unit
        /\ due' = (t + MatchFilterOffset) * Unit
    BY DEF search_tag
  <1> HIDE DEF t, count
  <1>6. TimingTypeOK'
    BY <1>1, <1>3, <1>4, <1>5, ElgAssumption DEF TimingTypeOK, call
  <1>7. PlaceIsKept'
    BY DEF Looping, PlaceIsKept, call
  <1>8. NextIsDue'
    BY <1>5, <1>6, ElgAssumption DEF NextIsDue, TimingTypeOK
  <1> QED
    BY <1>6, <1>7, <1>8 DEF TimingInv

\* A half symbol taken makes the next one due d_spb later, whether or not its
\* samples are there.
LEMMA TakeKeepsInv ==
    ASSUME TimingInv, Looping, TakeHalfSymbol, UNCHANGED <<written, nread, call>>
    PROVE  TimingInv'
  <1>1. TimingTypeOK /\ working
    BY DEF TimingInv, Looping
  <1>2. PICK spb \in Nat : d_spb' = spb
    BY ElgAssumption DEF TakeHalfSymbol
  <1> DEFINE t == d_po + spb
             n == t \div Unit
             p == nread + ii
  <1>3. Unit \in Nat \ {0} /\ NTaps \in Nat
    BY ElgAssumption
  <1>4. t \in Nat /\ p \in Int
    <2>1. d_po \in Nat /\ nread \in Int /\ ii \in Int
      BY <1>1 DEF TimingTypeOK
    <2> QED
      BY <2>1
  <1>5. /\ Advance(n) /\ d_po' = t % Unit /\ due' = At + spb
        /\ d_symbol_counter' = d_symbol_counter - 1 /\ d_state = "SYMBOL_TRACK"
    BY <1>2 DEF TakeHalfSymbol
  <1>6. At = p * Unit + d_po
    BY DEF At
  <1> HIDE DEF t
  <1>7. n \in Nat /\ d_po' \in Nat /\ t = n * Unit + d_po'
    BY <1>3, <1>4, <1>5, WholeAndRest
  <1>8. t = d_po + spb
    BY DEF t
  <1> HIDE DEF n, p
  <1>9. ni \in Int
    BY <1>1, <1>3 DEF ni, TimingTypeOK
  <1>10. p * Unit \in Int /\ n * Unit \in Int /\ (p + n) * Unit = p * Unit + n * Unit
    BY <1>3, <1>4, <1>7, PlaceTimes
  <1>11. due' = (p + n) * Unit + d_po' /\ due' \in Int
    <2>1. due' = p * Unit + (d_po + spb)
      BY <1>1, <1>2, <1>5, <1>6, <1>10 DEF TimingTypeOK
    <2>2. due' = p * Unit + (n * Unit + d_po')
      BY <1>7, <1>8, <2>1
    <2> QED
      BY <1>7, <1>10, <2>2
  <1>12. nread' = nread /\ nread \in Int /\ ii \in Int
    BY <1>1 DEF TimingTypeOK
  <1>13. CASE n + ii > ni
    <2> DEFINE rest == n + ii - ni
    <2>1. d_delay_counter' = rest /\ ii' = ni /\ d_state' = "SAMPLE_DELAY"
      BY <1>5, <1>13 DEF Advance
    <2>2. rest \in Int /\ rest >= 0 /\ (nread + ni) + rest = p + n
      BY <1>7, <1>9, <1>12, <1>13 DEF p
    <2> HIDE DEF rest
    <2>3. (p + n) * Unit = (nread + ni) * Unit + rest * Unit
          /\ (nread + ni) * Unit \in Int /\ rest * Unit \in Int
      <3>1. nread + ni \in Int /\ Unit \in Int
        BY <1>3, <1>9, <1>12
      <3> QED
        BY <2>2, <3>1, PlaceTimes
    <2>4. At' = (nread + ni) * Unit + d_po'
      BY <1>12, <2>1 DEF At
    <2>5. At' + d_delay_counter' * Unit = due'
      BY <1>7, <1>11, <2>1, <2>3, <2>4
    <2>6. NextIsDue'
      BY <2>1, <2>2, <2>5 DEF NextIsDue
    <2>7. TimingTypeOK'
      BY <1>1, <1>2, <1>5, <1>7, <1>9, <1>11, <2>1, <2>2 DEF TimingTypeOK, call
    <2> QED
      BY <1>1, <2>6, <2>7 DEF TimingInv, PlaceIsKept, call
  <1>14. CASE ~(n + ii > ni)
    <2>1. ii' = ii + n /\ UNCHANGED <<d_delay_counter, d_state>>
      BY <1>5, <1>14 DEF Advance
    <2>2. nread' + ii' = p + n
      BY <1>7, <1>12, <2>1 DEF p
    <2>3. At' = due'
      BY <1>11, <2>2 DEF At
    <2>4. NextIsDue'
      BY <1>5, <2>1, <2>3 DEF NextIsDue
    <2>5. TimingTypeOK'
      BY <1>1, <1>2, <1>5, <1>7, <1>11, <2>1 DEF TimingTypeOK, call
    <2> QED
      BY <1>1, <2>4, <2>5 DEF TimingInv, PlaceIsKept, call
  <1> QED
    BY <1>13, <1>14

\* The samples consumed while waiting are those taken off the delay.
LEMMA DelayKeepsInv ==
    ASSUME TimingInv, Looping, SampleDelay, UNCHANGED <<written, nread, call>>
    PROVE  TimingInv'
  <1>1. TimingTypeOK /\ NextIsDue /\ working
    BY DEF TimingInv, Looping
  <1>2. /\ d_state = "SAMPLE_DELAY" /\ nread' = nread
        /\ UNCHANGED <<d_symbol_counter, d_po, d_spb, due>>
    BY DEF SampleDelay
  <1>3. CASE d_delay_counter > 0
    <2> DEFINE n == Min({ninput_items - ii, d_delay_counter})
    <2>1. n \in Int /\ n <= d_delay_counter
      BY <1>1, MinOfTwo DEF TimingTypeOK
    <2>2. ii' = ii + n /\ d_delay_counter' = d_delay_counter - n /\ d_state' = d_state
      BY <1>3 DEF SampleDelay
    <2> HIDE DEF n
    <2>3. TimingTypeOK'
      BY <1>1, <1>2, <2>1, <2>2 DEF TimingTypeOK, call
    <2>4. ASSUME d_symbol_counter < OutputSymbolLen
          PROVE  d_delay_counter' >= 0 /\ At' + d_delay_counter' * Unit = due'
      <3> DEFINE p == nread + ii
                 d == d_delay_counter
      <3>1. p \in Int /\ d \in Int /\ Unit \in Int /\ d_po \in Int
        BY <1>1, ElgAssumption DEF TimingTypeOK
      <3>2. (p * Unit + d_po) + d * Unit = due
        BY <1>1, <1>2, <2>4 DEF NextIsDue, At
      <3>3. nread' + ii' = p + n
        BY <1>1, <1>2, <2>1, <2>2 DEF TimingTypeOK
      <3>4. At' = (p + n) * Unit + d_po
        BY <1>2, <3>3 DEF At
      <3>5. d_delay_counter' = d - n /\ d - n >= 0
        BY <1>1, <2>1, <2>2 DEF TimingTypeOK
      <3> HIDE DEF p, d
      <3>6. (p + n) * Unit = p * Unit + n * Unit
        BY <2>1, <3>1
      <3>7. (d - n) * Unit = d * Unit - n * Unit
        BY <2>1, <3>1
      <3>8. p * Unit \in Int /\ n * Unit \in Int /\ d * Unit \in Int
        BY <2>1, <3>1
      <3>9. ((p + n) * Unit + d_po) + (d - n) * Unit = (p * Unit + d_po) + d * Unit
        BY <3>1, <3>6, <3>7, <3>8
      <3> QED
        BY <1>2, <3>2, <3>4, <3>5, <3>9
    <2>5. NextIsDue'
      BY <1>2, <2>2, <2>4 DEF NextIsDue
    <2> QED
      BY <1>1, <2>3, <2>5 DEF TimingInv, PlaceIsKept, call
  <1>4. CASE ~(d_delay_counter > 0)
    <2>1. d_state' = "SYMBOL_TRACK" /\ UNCHANGED <<ii, d_delay_counter>>
      BY <1>4 DEF SampleDelay
    <2>2. At' = At
      BY <1>2, <2>1 DEF At
    <2>3. ASSUME d_symbol_counter < OutputSymbolLen
          PROVE  At = due
      <3>1. d_delay_counter = 0 /\ At + d_delay_counter * Unit = due
        BY <1>1, <1>2, <1>4, <2>3 DEF NextIsDue, TimingTypeOK
      <3>2. At \in Int
        BY <1>1, ElgAssumption DEF At, TimingTypeOK
      <3>3. 0 * Unit = 0
        BY ElgAssumption
      <3> QED
        BY <3>1, <3>2, <3>3
    <2>4. NextIsDue'
      BY <1>2, <2>1, <2>2, <2>3 DEF NextIsDue
    <2>5. TimingTypeOK'
      BY <1>1, <1>2, <2>1 DEF TimingTypeOK, call
    <2> QED
      BY <1>1, <2>4, <2>5 DEF TimingInv, PlaceIsKept, call
  <1> QED
    BY <1>3, <1>4

\* The end of a call moves the place from ii to nread.
LEMMA CallsKeepInv ==
    ASSUME TimingInv, BeginWork \/ EndWork
    PROVE  TimingInv'
  <1>1. TimingTypeOK /\ PlaceIsKept /\ NextIsDue
    BY DEF TimingInv
  <1>2. UNCHANGED <<written, d_state, d_symbol_counter, d_delay_counter, d_po, d_spb, due>>
    BY DEF BeginWork, EndWork
  <1>3. ii' = 0 /\ nread' \in Int /\ nread' + ii' = nread + ii /\ ninput_items' \in Int
    <2>1. CASE BeginWork
      <3>1. ii = 0 /\ ii' = 0 /\ nread' = nread /\ ninput_items' = ItemsAvailable
        BY <1>1, <2>1 DEF BeginWork, PlaceIsKept
      <3>2. ItemsAvailable \in Int
        BY <1>1, ElgAssumption DEF ItemsAvailable, TimingTypeOK
      <3> QED
        BY <1>1, <3>1, <3>2 DEF TimingTypeOK
    <2>2. CASE EndWork
      BY <1>1, <2>2 DEF EndWork, TimingTypeOK
    <2> QED
      BY <2>1, <2>2
  <1>4. At' = At
    BY <1>2, <1>3 DEF At
  <1>5. TimingTypeOK'
    BY <1>1, <1>2, <1>3 DEF TimingTypeOK
  <1>6. NextIsDue'
    BY <1>1, <1>2, <1>4 DEF NextIsDue
  <1> QED
    BY <1>3, <1>5, <1>6 DEF TimingInv, PlaceIsKept

-----------------------------------------------------------------------------
\* Every step keeps the invariant.
LEMMA TimingStep == TimingInv /\ [Next]_vars => TimingInv'
  <1> SUFFICES ASSUME TimingInv, [Next]_vars
               PROVE  TimingInv'
    OBVIOUS
  <1>1. TimingTypeOK /\ PlaceIsKept /\ NextIsDue
    BY DEF TimingInv
  <1>2. CASE MuxWrites
    <2>1. written' \in Int
      BY <1>1, <1>2, ElgAssumption DEF MuxWrites, TimingTypeOK
    <2> QED
      BY <1>1, <1>2, <2>1
         DEF MuxWrites, loop, call, TimingInv, TimingTypeOK, PlaceIsKept, NextIsDue, At
  <1>3. CASE BeginWork \/ EndWork
    BY <1>3, CallsKeepInv
  <1>4. CASE Loop
    <2>1. Looping /\ UNCHANGED <<written, nread, call>>
      BY <1>4 DEF Loop
    <2>2. CASE search_tag
      BY <2>1, <2>2, SearchKeepsInv
    <2>3. CASE NoTagFound
      BY <1>1, <2>1, <2>3
         DEF NoTagFound, Looping, call, TimingInv, TimingTypeOK, PlaceIsKept, NextIsDue
    <2>4. CASE TakeHalfSymbol
      BY <2>1, <2>4, TakeKeepsInv
    <2>5. CASE FrameDone
      BY <1>1, <2>1, <2>5
         DEF FrameDone, Looping, call, TimingInv, TimingTypeOK, PlaceIsKept, NextIsDue
    <2>6. CASE SampleDelay
      BY <2>1, <2>6, DelayKeepsInv
    <2> QED
      BY <1>4, <2>2, <2>3, <2>4, <2>5, <2>6 DEF Loop
  <1>5. CASE UNCHANGED vars
    BY <1>1, <1>5 DEF vars, loop, call, TimingInv, TimingTypeOK, PlaceIsKept, NextIsDue, At
  <1> QED
    BY <1>2, <1>3, <1>4, <1>5 DEF Next, general_work

(***************************************************************************)
(* general_work of rfidbts_elg_timing_cc takes each half symbol of a frame *)
(* but the first exactly d_spb behind the one before it, however many      *)
(* calls its samples are spread over, for every rate the loop filter finds *)
(* within its clip.                                                        *)
(***************************************************************************)
THEOREM HalfSymbolsEvenlySpaced == Spec => []EvenlySpaced
  <1>1. TimingInv => EvenlySpaced
    BY DEF TimingInv, NextIsDue, EvenlySpaced, Taking
  <1> QED
    BY TimingStarts, TimingStep, <1>1, PTL DEF Spec

-----------------------------------------------------------------------------
\* Multiples keep the order.
LEMMA TimesMonotone ==
    ASSUME NEW a \in Int, NEW b \in Int, NEW n \in Nat, a <= b
    PROVE  a * n <= b * n /\ a * n \in Int /\ b * n \in Int
  OBVIOUS

LEMMA TimesOrder ==
    ASSUME NEW a \in Int, NEW b \in Int, NEW n \in Nat, a * n < b * n
    PROVE  a < b
  <1>1. a * n \in Int /\ b * n \in Int
    OBVIOUS
  <1>2. CASE b <= a
    BY <1>1, <1>2, TimesMonotone
  <1> QED
    BY <1>2

LEMMA NextMultiple ==
    ASSUME NEW a \in Int, NEW n \in Int
    PROVE  (a + 1) * n = a * n + n /\ a * n \in Int
  OBVIOUS

\* Between multiples there is none.
LEMMA WholeFramesFit ==
    ASSUME NEW w \in Nat, NEW n \in Nat \ {0}, NEW k \in Int, w % n = 0, w < k * n
    PROVE  w + n <= k * n
  <1> DEFINE q == w \div n
  <1>1. q \in Nat /\ w = q * n + (w % n)
    BY WholeAndRest
  <1> HIDE DEF q
  <1>2. q * n \in Int /\ w = q * n
    BY <1>1
  <1>3. q < k
    BY <1>1, <1>2, TimesOrder
  <1>4. (q + 1) * n <= k * n
    BY <1>1, <1>3, TimesMonotone
  <1>5. (q + 1) * n = q * n + n
    BY <1>1, NextMultiple
  <1> QED
    BY <1>1, <1>2, <1>4, <1>5

\* A frame has at least the tagged sample.
LEMMA FramesHaveLength == FrameLen \in Nat \ {0} /\ Lead < FrameLen
  BY ElgAssumption DEF FrameLen

\* At the start there is no frame.
LEMMA StartStarts == Init => StartInv
  <1> SUFFICES ASSUME Init
               PROVE  StartInv
    OBVIOUS
  <1>1. CountsOK
    BY ElgAssumption DEF Init, CountsOK
  <1>2. Done = 0 /\ 1 * FrameLen = FrameLen
    BY FramesHaveLength DEF Init, Done
  <1>3. OneFrameAhead
    BY <1>2, FramesHaveLength DEF Init, OneFrameAhead
  <1> QED
    BY <1>1, <1>3 DEF Init, StartInv, TagBehind

\* The mux writes no more than the frame it was told to.
LEMMA MuxKeepsStart ==
    ASSUME TimingInv, StartInv, MuxWrites
    PROVE  StartInv'
  <1>1. CountsOK /\ OneFrameAhead /\ TagBehind
    BY DEF StartInv
  <1>2. UNCHANGED <<nread, loop, call>>
    BY DEF MuxWrites
  <1>3. Done \in Int /\ Done' = Done
    BY <1>1, <1>2 DEF Done, CountsOK, loop
  <1> DEFINE room == (Done + 1) * FrameLen
  <1>4. room \in Int /\ written < room /\ written \in Nat
    BY <1>1, <1>3, FramesHaveLength, NextMultiple DEF MuxWrites, CountsOK
  <1>5. written' \in Nat /\ written' <= room
    <2>1. CASE LeadAtOnce /\ written % FrameLen = 0
      <3>1. written + FrameLen <= room
        <4>1. Done + 1 \in Int
          BY <1>3
        <4> QED
          BY <1>4, <2>1, <4>1, FramesHaveLength, WholeFramesFit
      <3>2. written' = written + Lead + 1
        BY <2>1 DEF MuxWrites
      <3> HIDE DEF room
      <3> QED
        BY <1>4, <3>1, <3>2, FramesHaveLength, ElgAssumption
    <2>2. CASE ~(LeadAtOnce /\ written % FrameLen = 0)
      <3>1. written' = written + 1
        BY <2>2 DEF MuxWrites
      <3> HIDE DEF room
      <3> QED
        BY <1>4, <3>1
    <2> QED
      BY <2>1, <2>2
  <1>6. OneFrameAhead'
    BY <1>3, <1>5 DEF OneFrameAhead
  <1>7. CountsOK' /\ TagBehind'
    BY <1>1, <1>2, <1>5 DEF CountsOK, TagBehind, TagOf, Place, loop
  <1> QED
    BY <1>6, <1>7 DEF StartInv

\* The tag found is that of the frame behind the last one.
LEMMA FindsTheNextTag ==
    ASSUME TimingInv, StartInv, d_state = "INIT", NEW t \in TagsInRange
    PROVE  t = TagOf(found + 1)
  <1>1. CountsOK /\ OneFrameAhead /\ TagBehind
    BY DEF StartInv
  <1>2. d_symbol_counter = 0 /\ found \in Nat /\ written \in Nat /\ OutputSymbolLen # 0
        /\ Place \in Int
    BY <1>1, ElgAssumption DEF CountsOK, TimingInv, TimingTypeOK, Place
  <1>3. PICK f \in 1 .. Bursts : t = TagOf(f)
    BY DEF TagsInRange
  <1>4. f \in Int /\ f >= 1 /\ Lead \in Nat /\ FrameLen \in Nat
    BY <1>3, ElgAssumption, FramesHaveLength
  <1>5. t < written /\ Place <= t
    BY DEF TagsInRange, Place
  <1>6. t = (f - 1) * FrameLen + Lead /\ (f - 1) * FrameLen \in Int
    BY <1>3, <1>4 DEF TagOf
  <1>7. written <= (found + 1) * FrameLen /\ (found + 1) * FrameLen \in Int
    BY <1>1, <1>2, <1>4 DEF OneFrameAhead, Done
  <1>8. (f - 1) * FrameLen < (found + 1) * FrameLen
    BY <1>2, <1>4, <1>5, <1>6, <1>7
  <1>9. f - 1 < found + 1
    BY <1>2, <1>4, <1>8, TimesOrder
  <1>10. f > found
    <2>1. CASE found = 0
      BY <1>4, <2>1
    <2>2. CASE found > 0
      <3>1. TagOf(found) < Place
        BY <1>1, <1>2, <2>2 DEF TagBehind
      <3>2. TagOf(found) = (found - 1) * FrameLen + Lead
            /\ (found - 1) * FrameLen \in Int
        BY <1>2, <1>4 DEF TagOf
      <3>3. (found - 1) * FrameLen < (f - 1) * FrameLen
        BY <1>2, <1>4, <1>5, <1>6, <3>1, <3>2
      <3>4. found - 1 < f - 1
        BY <1>2, <1>4, <3>3, TimesOrder
      <3> QED
        BY <1>2, <1>4, <3>4
    <2> QED
      BY <1>2, <2>1, <2>2
  <1>11. f = found + 1
    BY <1>2, <1>4, <1>9, <1>10
  <1> QED
    BY <1>3, <1>11

\* It starts at the tag, or behind it when the call has no more samples.
LEMMA SearchKeepsStart ==
    ASSUME TimingInv, StartInv, Looping, search_tag, UNCHANGED <<written, nread, call>>
    PROVE  StartInv'
  <1>1. CountsOK /\ OneFrameAhead /\ TagBehind /\ TimingTypeOK
    BY DEF StartInv, TimingInv
  <1>2. d_state = "INIT" /\ TagsInRange # {}
    BY DEF search_tag
  <1> DEFINE t == Min(TagsInRange)
             count == t - nread + MatchFilterOffset
  <1>3. t \in TagsInRange /\ t \in Nat
    BY <1>2, TagsAreNat, MinIsMember
  <1>4. /\ IF count > ninput_items
           THEN /\ d_delay_counter' = ninput_items - count
                /\ ii' = ninput_items
                /\ d_state' = "SAMPLE_DELAY"
           ELSE /\ ii' = count
                /\ d_state' = "SYMBOL_TRACK"
        /\ found' = found + 1
        /\ d_symbol_counter' = OutputSymbolLen /\ d_po' = 0
    BY DEF search_tag
  <1> HIDE DEF t
  <1>5. t = TagOf(found + 1)
    BY <1>2, <1>3, FindsTheNextTag
  <1>6. nread + ii <= t /\ t < nread + ninput_items
    BY <1>3 DEF TagsInRange
  <1>7. /\ nread \in Int /\ ii \in Nat /\ ninput_items \in Int
        /\ MatchFilterOffset \in Nat /\ ii < ninput_items
    BY <1>1, ElgAssumption DEF CountsOK, TimingTypeOK, Looping, ni
  <1>8. d_symbol_counter = 0 /\ found \in Nat /\ OutputSymbolLen \in Nat \ {0}
    BY <1>1, <1>2, ElgAssumption DEF CountsOK
  <1>9. nread' = nread /\ written' = written
    OBVIOUS
  <1>10. /\ ii' \in Nat
         /\ t <= nread' + ii' /\ nread' + ii' <= t + MatchFilterOffset
         /\ d_state' \in {"SAMPLE_DELAY", "SYMBOL_TRACK"}
         /\ d_state' = "SAMPLE_DELAY" => d_delay_counter' <= 0
    <2>1. CASE count > ninput_items
      BY <1>3, <1>4, <1>6, <1>7, <1>9, <2>1
    <2>2. CASE ~(count > ninput_items)
      BY <1>3, <1>4, <1>6, <1>7, <1>9, <2>2
    <2> QED
      BY <2>1, <2>2
  <1>11. CountsOK'
    BY <1>1, <1>4, <1>8, <1>9, <1>10, ElgAssumption DEF CountsOK
  <1>12. Done' = Done
    BY <1>4, <1>8 DEF Done
  <1>13. OneFrameAhead'
    BY <1>1, <1>9, <1>12 DEF OneFrameAhead
  <1>14. TagOf(found') = t
    BY <1>4, <1>5
  <1>15. TagBehind'
    BY <1>4, <1>10, <1>14 DEF TagBehind, Place, TagOf
  <1> QED
    BY <1>11, <1>13, <1>15 DEF StartInv

\* The first half symbol leads past the tag, as a half symbol is a sample long
\* or more.
LEMMA TakeKeepsStart ==
    ASSUME TimingInv, StartInv, Looping, TakeHalfSymbol, UNCHANGED <<written, nread, call>>
    PROVE  StartInv'
  <1>1. CountsOK /\ OneFrameAhead /\ TagBehind /\ TimingTypeOK
    BY DEF StartInv, TimingInv
  <1>2. PICK spb \in Rates : d_spb' = spb
    BY DEF TakeHalfSymbol
  <1>3. spb \in Nat /\ spb >= Unit /\ Unit \in Nat \ {0} /\ NTaps \in Nat
    BY <1>2, ElgAssumption
  <1> DEFINE s == d_po + spb
             n == s \div Unit
  <1>4. /\ d_symbol_counter \in 1 .. OutputSymbolLen /\ d_state = "SYMBOL_TRACK"
        /\ d_po' = s % Unit /\ Advance(n) /\ found' = found
        /\ d_symbol_counter' = d_symbol_counter - 1
    BY <1>1, <1>2 DEF TakeHalfSymbol, CountsOK
  <1>5. s \in Nat /\ s >= Unit
    BY <1>1, <1>3 DEF TimingTypeOK
  <1> HIDE DEF s
  <1>6. n \in Nat /\ n >= 1 /\ d_po' \in Nat /\ d_po' < Unit
    BY <1>3, <1>4, <1>5
  <1> HIDE DEF n
  <1>7. /\ nread \in Int /\ ii \in Nat /\ ninput_items \in Int /\ ni \in Int /\ ii < ni
        /\ found \in Nat /\ written \in Nat /\ OutputSymbolLen \in Nat
    BY <1>1, <1>3, ElgAssumption DEF CountsOK, TimingTypeOK, Looping, ni
  <1>8. ii' \in Nat /\ ii' > ii /\ d_state' \in {"SYMBOL_TRACK", "SAMPLE_DELAY"}
    <2>1. CASE n + ii > ni
      BY <1>4, <1>7, <2>1 DEF Advance
    <2>2. CASE ~(n + ii > ni)
      BY <1>4, <1>6, <1>7, <2>2 DEF Advance
    <2> QED
      BY <2>1, <2>2
  <1>9. nread' = nread /\ written' = written
    OBVIOUS
  <1>10. CountsOK'
    BY <1>1, <1>4, <1>6, <1>7, <1>8, <1>9 DEF CountsOK
  <1>11. (Done + 1) * FrameLen <= (Done' + 1) * FrameLen
         /\ (Done + 1) * FrameLen \in Int /\ (Done' + 1) * FrameLen \in Int
    <2>1. Done \in Int /\ Done' \in Int /\ Done + 1 <= Done' + 1
      BY <1>4, <1>7 DEF Done
    <2> QED
      <3>1. PICK a \in Int : a = Done
        BY <2>1, Zenon
      <3>2. PICK b \in Int : b = Done'
        BY <2>1, Zenon
      <3>3. a + 1 <= b + 1
        BY <2>1, <3>1, <3>2
      <3>4. (a + 1) * FrameLen <= (b + 1) * FrameLen
            /\ (a + 1) * FrameLen \in Int /\ (b + 1) * FrameLen \in Int
        <4>1. a + 1 \in Int /\ b + 1 \in Int
          OBVIOUS
        <4> QED
          BY <3>3, <4>1, FramesHaveLength, TimesMonotone
      <3> QED
        BY <3>1, <3>2, <3>4
  <1>12. OneFrameAhead'
    BY <1>1, <1>7, <1>9, <1>11 DEF OneFrameAhead
  <1>13. d_symbol_counter' < OutputSymbolLen
    BY <1>4, <1>7
  <1>14. found > 0 => TagOf(found) <= Place
    <2>1. TagOf(found) \in Int /\ Place \in Int
      <3>1. (found - 1) * FrameLen \in Int /\ Lead \in Int
        BY <1>7, FramesHaveLength, ElgAssumption
      <3> QED
        BY <1>7, <3>1 DEF TagOf, Place
    <2> QED
      BY <1>1, <2>1 DEF TagBehind
  <1>15. found > 0 => TagOf(found) < nread + ii'
    <2>1. TagOf(found) \in Int
      <3>1. (found - 1) * FrameLen \in Int /\ Lead \in Int
        BY <1>7, FramesHaveLength, ElgAssumption
      <3> QED
        BY <3>1 DEF TagOf
    <2> QED
      BY <1>7, <1>8, <1>14, <2>1 DEF Place
  <1>16. TagBehind'
    BY <1>4, <1>9, <1>13, <1>15 DEF TagBehind, Place, TagOf
  <1> QED
    BY <1>10, <1>12, <1>16 DEF StartInv

\* Waiting goes forward, and not at all before the first half symbol.
LEMMA DelayKeepsStart ==
    ASSUME TimingInv, StartInv, Looping, SampleDelay, UNCHANGED <<written, nread, call>>
    PROVE  StartInv'
  <1>1. CountsOK /\ OneFrameAhead /\ TagBehind /\ TimingTypeOK
    BY DEF StartInv, TimingInv
  <1>2. /\ d_state = "SAMPLE_DELAY" /\ nread' = nread /\ written' = written
        /\ UNCHANGED <<d_symbol_counter, d_po, found>>
    BY DEF SampleDelay
  <1>3. Done' = Done
    BY <1>2 DEF Done
  <1>4. OneFrameAhead'
    BY <1>1, <1>2, <1>3 DEF OneFrameAhead
  <1>5. CASE d_delay_counter > 0
    <2> DEFINE n == Min({ninput_items - ii, d_delay_counter})
    <2>1. /\ nread \in Int /\ ii \in Nat /\ ninput_items \in Int /\ found \in Nat
          /\ ii < ninput_items /\ d_delay_counter \in Int
      BY <1>1, ElgAssumption DEF CountsOK, TimingTypeOK, Looping, ni
    <2>2. n \in Nat
      BY <1>5, <2>1, MinOfTwo
    <2>3. ii' = ii + n /\ d_state' = d_state
      BY <1>5 DEF SampleDelay
    <2> HIDE DEF n
    <2>4. CountsOK'
      BY <1>1, <1>2, <2>1, <2>2, <2>3 DEF CountsOK
    <2>5. found > 0 => d_symbol_counter # OutputSymbolLen /\ TagOf(found) < Place
      BY <1>1, <1>2, <1>5, <2>1 DEF TagBehind
    <2>6. TagOf(found) \in Int
      <3>1. (found - 1) * FrameLen \in Int /\ Lead \in Int
        BY <2>1, FramesHaveLength, ElgAssumption
      <3> QED
        BY <3>1 DEF TagOf
    <2>7. found > 0 => TagOf(found) < nread + ii'
      BY <2>1, <2>2, <2>3, <2>5, <2>6 DEF Place
    <2>8. TagBehind'
      BY <1>2, <2>5, <2>7 DEF TagBehind, Place, TagOf
    <2> QED
      BY <1>4, <2>4, <2>8 DEF StartInv
  <1>6. CASE ~(d_delay_counter > 0)
    <2>1. d_state' = "SYMBOL_TRACK" /\ UNCHANGED <<ii, d_delay_counter>>
      BY <1>6 DEF SampleDelay
    <2>2. CountsOK'
      BY <1>1, <1>2, <2>1 DEF CountsOK
    <2>3. TagBehind'
      BY <1>1, <1>2, <2>1 DEF TagBehind, Place, TagOf
    <2> QED
      BY <1>4, <2>2, <2>3 DEF StartInv
  <1> QED
    BY <1>5, <1>6

\* An input without a tag, a frame done and the bounds of a call.
LEMMA RestKeepsStart ==
    ASSUME TimingInv, StartInv,
           \/ Looping /\ (NoTagFound \/ FrameDone) /\ UNCHANGED <<written, nread, call>>
           \/ BeginWork \/ EndWork
    PROVE  StartInv'
  <1>1. CountsOK /\ OneFrameAhead /\ TagBehind /\ TimingTypeOK /\ PlaceIsKept
    BY DEF StartInv, TimingInv
  <1>2. UNCHANGED <<written, d_symbol_counter, d_po, found, d_delay_counter>>
    BY DEF NoTagFound, FrameDone, BeginWork, EndWork
  <1>3. OneFrameAhead'
    BY <1>1, <1>2 DEF OneFrameAhead, Done
  <1>4. OutputSymbolLen # 0 /\ found \in Nat /\ ii \in Nat /\ nread \in Int
        /\ ninput_items \in Int
    BY <1>1, ElgAssumption DEF CountsOK, TimingTypeOK
  <1>5. TagOf(found) \in Int
    <2>1. (found - 1) * FrameLen \in Int /\ Lead \in Int
      BY <1>4, FramesHaveLength, ElgAssumption
    <2> QED
      BY <2>1 DEF TagOf
  <1>6. CASE Looping /\ NoTagFound /\ UNCHANGED <<written, nread, call>>
    <2>1. d_state = "INIT" /\ d_state' = "INIT" /\ ii' = ninput_items /\ nread' = nread
      BY <1>6 DEF NoTagFound
    <2>2. ii < ninput_items
      BY <1>4, <1>6, ElgAssumption DEF Looping, ni
    <2>3. ii' \in Nat /\ ii < ii'
      BY <1>4, <2>1, <2>2
    <2>4. CountsOK'
      BY <1>1, <1>2, <2>1, <2>3 DEF CountsOK
    <2>5. found > 0 => TagOf(found) < nread + ii'
      BY <1>1, <1>4, <1>5, <2>1, <2>3 DEF TagBehind, CountsOK, Place
    <2>6. TagBehind'
      BY <1>1, <1>2, <1>4, <2>1, <2>5 DEF TagBehind, CountsOK, Place, TagOf
    <2> QED
      BY <1>3, <2>4, <2>6 DEF StartInv
  <1>7. CASE Looping /\ FrameDone /\ UNCHANGED <<written, nread, call>>
    <2>1. d_symbol_counter = 0 /\ d_state' = "INIT" /\ UNCHANGED <<ii, nread>>
      BY <1>7 DEF FrameDone
    <2>2. CountsOK' /\ TagBehind'
      BY <1>1, <1>2, <2>1 DEF CountsOK, TagBehind, Place, TagOf
    <2> QED
      BY <1>3, <2>2 DEF StartInv
  <1>8. CASE BeginWork \/ EndWork
    <2>1. d_state' = d_state /\ ii' = 0 /\ nread' + ii' = nread + ii
      BY <1>1, <1>4, <1>8 DEF BeginWork, EndWork, PlaceIsKept
    <2>2. CountsOK'
      BY <1>1, <1>2, <2>1 DEF CountsOK
    <2>3. TagBehind'
      BY <1>1, <1>2, <2>1 DEF TagBehind, Place, TagOf
    <2> QED
      BY <1>3, <2>2, <2>3 DEF StartInv
  <1> QED
    BY <1>6, <1>7, <1>8

\* Every step keeps both invariants.
LEMMA StartStep == TimingInv /\ StartInv /\ [Next]_vars => StartInv'
  <1> SUFFICES ASSUME TimingInv, StartInv, [Next]_vars
               PROVE  StartInv'
    OBVIOUS
  <1>1. CASE MuxWrites
    BY <1>1, MuxKeepsStart
  <1>2. CASE BeginWork \/ EndWork
    BY <1>2, RestKeepsStart
  <1>3. CASE Loop
    <2>1. Looping /\ UNCHANGED <<written, nread, call>>
      BY <1>3 DEF Loop
    <2>2. CASE search_tag
      BY <2>1, <2>2, SearchKeepsStart
    <2>3. CASE NoTagFound \/ FrameDone
      BY <2>1, <2>3, RestKeepsStart
    <2>4. CASE TakeHalfSymbol
      BY <2>1, <2>4, TakeKeepsStart
    <2>5. CASE SampleDelay
      BY <2>1, <2>5, DelayKeepsStart
    <2> QED
      BY <1>3, <2>2, <2>3, <2>4, <2>5 DEF Loop
  <1>4. CASE UNCHANGED vars
    BY <1>4 DEF vars, loop, call, StartInv, CountsOK, OneFrameAhead, TagBehind, TagOf, Place,
                Done
  <1> QED
    BY <1>1, <1>2, <1>3, <1>4 DEF Next, general_work

\* Half a sample to either side of a place in a sample.
LEMMA HalfASample ==
    ASSUME NEW u \in Nat \ {0}, u % 2 = 0, NEW p \in Nat, p < u
    PROVE  /\ (p - u \div 2) \div u \in {-1, 0}
           /\ (p + u \div 2) \div u \in {0, 1}
  <1> DEFINE h == u \div 2
  <1>1. h \in Nat /\ u = 2 * h /\ h > 0
    OBVIOUS
  <1> HIDE DEF h
  <1>2. p - h >= -u /\ p - h < u /\ p + h < 2 * u /\ p + h >= 0
    BY <1>1
  <1>3. \A x \in Int : x >= -u /\ x < 0 => x \div u = -1
    OBVIOUS
  <1>4. \A x \in Int : x >= 0 /\ x < u => x \div u = 0
    OBVIOUS
  <1>5. \A x \in Int : x >= u /\ x < 2 * u => x \div u = 1
    OBVIOUS
  <1>6. p - h \in Int /\ p + h \in Int
    BY <1>1
  <1>7. (p - h) \div u \in {-1, 0}
    BY <1>2, <1>3, <1>4, <1>6
  <1>8. (p + h) \div u \in {0, 1}
    BY <1>2, <1>4, <1>5, <1>6
  <1> QED
    BY <1>7, <1>8 DEF h

-----------------------------------------------------------------------------
(***************************************************************************)
(* search_tag of rfidbts_elg_timing_cc puts the first half symbol of every *)
(* frame behind the frame's own tag, at most match_filter_offset, wherever *)
(* the tag lies in the input of a call and whatever was left of the frame  *)
(* before: that one is done, and past its tag, when the search begins.     *)
(***************************************************************************)
THEOREM FramesStartAtTheirTag == Spec => []StartsBehindTag
  <1>1. TimingInv /\ StartInv => StartsBehindTag
    <2> SUFFICES ASSUME TimingInv, StartInv, Taking, d_symbol_counter = OutputSymbolLen
                 PROVE  /\ TagOf(found) * Unit <= At
                        /\ At <= (TagOf(found) + MatchFilterOffset) * Unit
      BY DEF StartsBehindTag
    <2>1. CountsOK /\ TagBehind /\ TimingTypeOK
      BY DEF StartInv, TimingInv
    <2>2. found \in Nat /\ found > 0 /\ Place \in Int /\ MatchFilterOffset \in Nat
          /\ Unit \in Nat
      BY <2>1, ElgAssumption DEF CountsOK, TimingTypeOK, Place, Taking
    <2>3. d_po = 0 /\ TagOf(found) <= Place /\ Place <= TagOf(found) + MatchFilterOffset
      BY <2>1, <2>2 DEF TagBehind
    <2>4. TagOf(found) \in Int
      <3>1. (found - 1) * FrameLen \in Int /\ Lead \in Int
        BY <2>2, FramesHaveLength, ElgAssumption
      <3> QED
        BY <3>1 DEF TagOf
    <2>5. At = Place * Unit
      <3>1. Place * Unit \in Int
        BY <2>2
      <3>2. At = Place * Unit + 0
        BY <2>3 DEF At, Place
      <3> QED
        BY <3>1, <3>2
    <2>6. TagOf(found) * Unit <= Place * Unit
      BY <2>2, <2>3, <2>4, TimesMonotone
    <2>7. Place * Unit <= (TagOf(found) + MatchFilterOffset) * Unit
      <3>1. TagOf(found) + MatchFilterOffset \in Int
        BY <2>2, <2>4
      <3> QED
        BY <2>2, <2>3, <3>1, TimesMonotone
    <2> QED
      BY <2>5, <2>6, <2>7
  <1> QED
    BY TimingStarts, TimingStep, StartStarts, StartStep, <1>1, PTL DEF Spec

(***************************************************************************)
(* The early, the on time and the late interpolation of general_work read  *)
(* no sample outside the input of the call, for every number of taps and   *)
(* wherever in a sample the half symbol is.                                *)
(***************************************************************************)
THEOREM InterpolationsReadInside == Spec => []ReadsInside
  <1>1. TimingInv /\ StartInv => ReadsInside
    <2> DEFINE early == (d_po - Unit \div 2) \div Unit
               late == (d_po + Unit \div 2) \div Unit
    <2> SUFFICES ASSUME TimingInv, StartInv, Taking
                 PROVE  0 <= 1 + ii + early /\ 1 + ii + late + NTaps <= ninput_items
      BY DEF ReadsInside
    <2>1. CountsOK /\ TimingTypeOK /\ ii < ni
      BY DEF StartInv, TimingInv, Taking, Looping
    <2>2. ii \in Nat /\ ninput_items \in Int /\ NTaps \in Nat
      BY <2>1, ElgAssumption DEF CountsOK, TimingTypeOK
    <2>3. early \in {-1, 0} /\ late \in {0, 1}
      BY <2>1, ElgAssumption, HalfASample DEF CountsOK, TimingTypeOK
    <2> HIDE DEF early, late
    <2>4. ii < ninput_items - NTaps - 1
      BY <2>1 DEF ni
    <2> QED
      BY <2>2, <2>3, <2>4
  <1> QED
    BY TimingStarts, TimingStep, StartStarts, StartStep, <1>1, PTL DEF Spec
=============================================================================
