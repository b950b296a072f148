-------------------------- MODULE CrcStream_proofs --------------------------
(***************************************************************************)
(* Proofs that the algorithms of class Crc compute the remainder of a      *)
(* polynomial division, for every width, polynomial, initial value and     *)
(* string, and that check_file, make3_crc_5 and the generated C programs   *)
(* compute what they do.                                                   *)
(***************************************************************************)
EXTENDS CrcStream, SequenceTheorems, WellFoundedInduction, TLAPS

-----------------------------------------------------------------------------
(***************************************************************************)
(* Induction over the numbers.                                             *)
(***************************************************************************)
LEMMA LeastNumber ==
    ASSUME NEW T \in SUBSET Nat, T # {}
    PROVE  \E n \in T : \A m \in T : n <= m
  <1> DEFINE R == OpToRel(<, Nat)
  <1>1. IsWellFoundedOn(R, Nat)
    BY NatLessThanWellFounded
  <1>2. \A m, n : <<m, n>> \in R <=> m \in Nat /\ n \in Nat /\ m < n
    BY DEF OpToRel
  <1> HIDE DEF R
  <1>3. PICK n \in T : \A m \in T : ~ (<<m, n>> \in R)
    BY <1>1, WFMin
  <1>4. ASSUME NEW m \in T PROVE n <= m
    <2>1. m \in Nat /\ n \in Nat
      OBVIOUS
    <2>2. ~ (m < n)
      BY <1>2, <1>3, <2>1
    <2> QED
      BY <2>1, <2>2
  <1> QED
    BY <1>4

LEMMA SetInduction ==
    ASSUME NEW G, 0 \in G, \A n \in Nat : n \in G => n + 1 \in G
    PROVE  Nat \subseteq G
  <1> SUFFICES ASSUME Nat \ G # {} PROVE FALSE
    OBVIOUS
  <1> DEFINE T == Nat \ G
  <1>1. T \in SUBSET Nat /\ T # {}
    OBVIOUS
  <1> HIDE DEF T
  <1>2. PICK n \in T : \A m \in T : n <= m
    BY <1>1, LeastNumber
  <1>3. n \in Nat /\ n # 0
    BY DEF T
  <1>4. n - 1 \in Nat /\ (n - 1) + 1 = n
    BY <1>3
  <1>5. n - 1 \notin T
    BY <1>2, <1>3, <1>4
  <1> QED
    BY <1>4, <1>5 DEF T

-----------------------------------------------------------------------------
(***************************************************************************)
(* Times(n, f, first) is the last of n + 1 words that begin with first and *)
(* follow one another by f.                                                *)
(***************************************************************************)
Takes(n, f) == \A i \in 0 .. n - 1 : f[i] \in [Word -> Word]

Iterates(q, n, f, first) ==
    /\ q \in [0 .. n -> Word] /\ q[0] = first
    /\ \A i \in 0 .. n - 1 : q[i + 1] = f[i][q[i]]

Passes(n, f, first, g) ==
    g = [i \in 0 .. n |-> IF i = 0 THEN first ELSE f[i - 1][g[i - 1]]]

LEMMA IteratesExists ==
    ASSUME NEW n \in Nat, NEW f, Takes(n, f), NEW first \in Word
    PROVE  \E q : Iterates(q, n, f, first)
  <1> DEFINE G == {m \in Nat : \E q : /\ q \in [0 .. n -> Word] /\ q[0] = first
                                     /\ \A i \in 0 .. n - 1 : i < m => q[i + 1] = f[i][q[i]]}
  <1>1. 0 \in G
    <2>1. [i \in 0 .. n |-> first] \in [0 .. n -> Word] /\ [i \in 0 .. n |-> first][0] = first
      OBVIOUS
    <2>2. \A i \in 0 .. n - 1 : ~ (i < 0)
      OBVIOUS
    <2> QED
      BY <2>1, <2>2
  <1>2. ASSUME NEW m \in Nat, m \in G PROVE m + 1 \in G
    <2> PICK q : /\ q \in [0 .. n -> Word] /\ q[0] = first
                 /\ \A i \in 0 .. n - 1 : i < m => q[i + 1] = f[i][q[i]]
      BY <1>2
    <2> DEFINE s == [i \in 0 .. n |-> IF i = m + 1 THEN f[m][q[m]] ELSE q[i]]
    <2>1. s \in [0 .. n -> Word] /\ s[0] = first
      <3>1. ASSUME m + 1 \in 0 .. n PROVE f[m][q[m]] \in Word
        <4>1. m \in 0 .. n - 1 /\ q[m] \in Word
          BY <3>1
        <4>2. f[m] \in [Word -> Word]
          BY <4>1 DEF Takes
        <4> QED
          BY <4>1, <4>2
      <3> QED
        BY <3>1
    <2>2. ASSUME NEW i \in 0 .. n - 1, i < m + 1
          PROVE  s[i + 1] = f[i][s[i]]
      <3>1. i + 1 \in 0 .. n /\ i \in 0 .. n /\ i # m + 1
        BY <2>2
      <3>2. CASE i = m
        BY <3>1, <3>2
      <3>3. CASE i < m
        BY <3>1, <3>3
      <3> QED
        BY <2>2, <3>2, <3>3
    <2> HIDE DEF s
    <2> QED
      BY <2>1, <2>2
  <1>3. n \in G
    <2> HIDE DEF G
    <2> QED
      BY <1>1, <1>2, SetInduction
  <1> QED
    BY <1>3 DEF Iterates

\* The first n words are those f says, so any two such sequences are the same.
LEMMA IteratesAlike ==
    ASSUME NEW n \in Nat, NEW f, NEW first, NEW q, NEW s,
           Iterates(q, n, f, first), Passes(n, f, first, s)
    PROVE  q[n] = s[n]
  <1> DEFINE G == {i \in Nat : i <= n => q[i] = s[i]}
  <1>1. 0 \in G
    BY DEF Iterates, Passes
  <1>2. ASSUME NEW i \in Nat, i \in G PROVE i + 1 \in G
    <2> SUFFICES ASSUME i + 1 <= n PROVE q[i + 1] = s[i + 1]
      OBVIOUS
    <2>1. i \in 0 .. n - 1 /\ q[i] = s[i] /\ i + 1 \in 0 .. n /\ i + 1 # 0 /\ (i + 1) - 1 = i
      BY <1>2
    <2>2. s[i + 1] = f[i][s[i]]
      BY <2>1 DEF Passes
    <2> QED
      BY <2>1, <2>2 DEF Iterates
  <1>3. n \in G
    <2> HIDE DEF G
    <2> QED
      BY <1>1, <1>2, SetInduction
  <1> QED
    BY <1>3

LEMMA TimesIs ==
    ASSUME NEW n \in Nat, NEW f, Takes(n, f), NEW first \in Word,
           NEW q, Iterates(q, n, f, first)
    PROVE  Times(n, f, first) = q[n]
  <1>1. Passes(n, f, first, q)
    <2>1. q = [i \in 0 .. n |-> q[i]]
      BY DEF Iterates
    <2>2. ASSUME NEW i \in 0 .. n
          PROVE  q[i] = IF i = 0 THEN first ELSE f[i - 1][q[i - 1]]
      <3>1. CASE i = 0
        BY <3>1 DEF Iterates
      <3>2. CASE i # 0
        <4>1. i - 1 \in 0 .. n - 1 /\ (i - 1) + 1 = i
          BY <3>2
        <4> QED
          BY <3>2, <4>1 DEF Iterates
      <3> QED
        BY <3>1, <3>2
    <2> QED
      BY <2>1, <2>2 DEF Passes
  <1> DEFINE g == CHOOSE h : Passes(n, f, first, h)
  <1>2. Passes(n, f, first, g)
    BY <1>1, Zenon
  <1>3. Times(n, f, first) = g[n]
    BY Zenon DEF Times, Passes
  <1> HIDE DEF g
  <1> QED
    BY <1>2, <1>3, IteratesAlike

LEMMA TimesIterates ==
    ASSUME NEW n \in Nat, NEW f, Takes(n, f), NEW first \in Word
    PROVE  \E q : Iterates(q, n, f, first) /\ Times(n, f, first) = q[n]
  <1>1. PICK q : Iterates(q, n, f, first)
    BY IteratesExists
  <1> QED
    BY <1>1, TimesIs

LEMMA TimesWord ==
    ASSUME NEW n \in Nat, NEW f, Takes(n, f), NEW first \in Word
    PROVE  Times(n, f, first) \in Word
  <1>1. PICK q : Iterates(q, n, f, first) /\ Times(n, f, first) = q[n]
    BY TimesIterates
  <1> QED
    BY <1>1 DEF Iterates

-----------------------------------------------------------------------------
(***************************************************************************)
(* The bits of the words the operators return.                             *)
(***************************************************************************)
LEMMA SameWord ==
    ASSUME NEW a \in Word, NEW b \in Word, \A x \in Nat : x \in a <=> x \in b
    PROVE  a = b
  BY DEF Word

LEMMA InXor ==
    \A a, b, x : x \in Xor(a, b) <=> ~ (x \in a <=> x \in b)
  BY DEF Xor, SymDiff

LEMMA InXorIf ==
    ASSUME NEW t \in BOOLEAN
    PROVE  \A a, b, x : x \in XorIf(t, a, b) <=> ~ (x \in a <=> t /\ x \in b)
  BY InXor DEF XorIf

LEMMA XorWord ==
    \A a, b \in Word : Xor(a, b) \in Word
  BY DEF Xor, SymDiff, Word

LEMMA XorIfWord ==
    \A t \in BOOLEAN, a, b \in Word : XorIf(t, a, b) \in Word
  BY XorWord DEF XorIf

LEMMA CapWord ==
    \A a \in Word : \A b : a \cap b \in Word
  BY DEF Word

LEMMA InLeft ==
    ASSUME NEW a \in Word, NEW n \in Int, NEW x \in Int
    PROVE  x \in ShiftLeft(a, n) <=> x - n \in a
  <1>1. ASSUME x \in ShiftLeft(a, n) PROVE x - n \in a
    <2>1. PICK i \in a : x = i + n
      BY <1>1 DEF ShiftLeft
    <2>2. i \in Int
      BY DEF Word
    <2>3. x - n = i
      BY <2>1, <2>2
    <2> QED
      BY <2>3
  <1>2. ASSUME x - n \in a PROVE x \in ShiftLeft(a, n)
    <2>1. x = (x - n) + n
      OBVIOUS
    <2> QED
      BY <1>2, <2>1 DEF ShiftLeft
  <1> QED
    BY <1>1, <1>2

LEMMA LeftWord ==
    ASSUME NEW a \in Word, NEW n \in Nat
    PROVE  ShiftLeft(a, n) \in Word
  BY DEF ShiftLeft, Word

LEMMA InRight ==
    ASSUME NEW a \in Word, NEW n \in Nat, NEW x \in Int
    PROVE  x \in ShiftRight(a, n) <=> x >= 0 /\ x + n \in a
  <1>1. ASSUME x \in ShiftRight(a, n) PROVE x >= 0 /\ x + n \in a
    <2>1. PICK i \in a : x = i - n /\ i >= n
      BY <1>1 DEF ShiftRight
    <2>2. i \in Int
      BY DEF Word
    <2>3. x + n = i /\ x >= 0
      BY <2>1, <2>2
    <2> QED
      BY <2>3
  <1>2. ASSUME x >= 0, x + n \in a PROVE x \in ShiftRight(a, n)
    <2>1. x = (x + n) - n /\ x + n >= n
      BY <1>2
    <2> QED
      BY <1>2, <2>1 DEF ShiftRight
  <1> QED
    BY <1>1, <1>2

LEMMA RightWord ==
    ASSUME NEW a \in Word, NEW n \in Nat
    PROVE  ShiftRight(a, n) \in Word
  BY DEF ShiftRight, Word

LEMMA InReflect ==
    ASSUME NEW a \in Word, NEW n \in Nat, NEW x \in Int
    PROVE  x \in reflect(a, n) <=> x \in 0 .. n - 1 /\ n - 1 - x \in a
  <1>1. ASSUME x \in reflect(a, n) PROVE x \in 0 .. n - 1 /\ n - 1 - x \in a
    <2>1. PICK i \in a \cap (0 .. n - 1) : x = n - 1 - i
      BY <1>1 DEF reflect, Ones
    <2>2. n - 1 - x = i /\ x \in 0 .. n - 1
      BY <2>1
    <2> QED
      BY <2>2
  <1>2. ASSUME x \in 0 .. n - 1, n - 1 - x \in a PROVE x \in reflect(a, n)
    <2>1. n - 1 - x \in a \cap (0 .. n - 1) /\ x = n - 1 - (n - 1 - x)
      BY <1>2
    <2> QED
      BY <2>1 DEF reflect, Ones
  <1> QED
    BY <1>1, <1>2

LEMMA ReflectWord ==
    ASSUME NEW a \in Word, NEW n \in Nat
    PROVE  reflect(a, n) \in Word
  BY DEF reflect, Ones, Word

LEMMA ReflectIfWord ==
    ASSUME NEW t \in BOOLEAN, NEW a \in Word, NEW n \in Nat
    PROVE  ReflectIf(t, a, n) \in Word
  BY ReflectWord DEF ReflectIf

-----------------------------------------------------------------------------
(***************************************************************************)
(* Polynomial division.  The dividend may be taken to have any length that *)
(* it fits in, the remainder is a word of w bits, and a bit appended to    *)
(* the dividend is one step of a shift register.                           *)
(***************************************************************************)
Generator(w, poly) == w \in Nat \ {0} /\ poly \in Word /\ poly \subseteq Ones(w)

Step(w, poly, r, t) == XorIf((w - 1 \in r) # t, ShiftLeft(r, 1), poly) \cap Ones(w)

Cancel(t, w, poly) ==
    [k \in 0 .. t - w |-> [r \in Word |->
        XorIf(t - k \in r, r, ShiftLeft(poly \cup {w}, t - k - w))]]

Divide(a, t, w, poly) == Times(t - w + 1, Cancel(t, w, poly), a)

LEMMA StepWord ==
    ASSUME NEW w, NEW poly, Generator(w, poly), NEW r \in Word, NEW t \in BOOLEAN
    PROVE  Step(w, poly, r, t) \in Word /\ Step(w, poly, r, t) \subseteq Ones(w)
  <1>1. ((w - 1 \in r) # t) \in BOOLEAN
    OBVIOUS
  <1>2. ShiftLeft(r, 1) \in Word
    BY LeftWord
  <1>3. XorIf((w - 1 \in r) # t, ShiftLeft(r, 1), poly) \in Word
    BY <1>1, <1>2, XorIfWord DEF Generator
  <1> QED
    BY <1>3, CapWord DEF Step

LEMMA InStep ==
    ASSUME NEW w, NEW poly, Generator(w, poly), NEW r \in Word, NEW t \in BOOLEAN,
           NEW x \in Int
    PROVE  x \in Step(w, poly, r, t)
             <=> x \in 0 .. w - 1 /\ ~ (x - 1 \in r <=> ~ (w - 1 \in r <=> t) /\ x \in poly)
  <1>1. ((w - 1 \in r) # t) \in BOOLEAN
    OBVIOUS
  <1>2. ((w - 1 \in r) # t) <=> ~ (w - 1 \in r <=> t)
    OBVIOUS
  <1>3. x \in ShiftLeft(r, 1) <=> x - 1 \in r
    BY InLeft
  <1>4. x \in XorIf((w - 1 \in r) # t, ShiftLeft(r, 1), poly)
          <=> ~ (x \in ShiftLeft(r, 1) <=> ((w - 1 \in r) # t) /\ x \in poly)
    BY InXor DEF XorIf
  <1>5. x \in Step(w, poly, r, t)
          <=> x \in XorIf((w - 1 \in r) # t, ShiftLeft(r, 1), poly) /\ x \in 0 .. w - 1
    BY DEF Step, Ones
  <1> QED
    BY <1>2, <1>3, <1>4, <1>5, Zenon

LEMMA GeneratorWord ==
    ASSUME NEW w, NEW poly, Generator(w, poly), NEW n \in Nat
    PROVE  /\ ShiftLeft(poly \cup {w}, n) \in Word
           /\ \A x \in Int : x \in ShiftLeft(poly \cup {w}, n) <=> x - n \in poly \/ x - n = w
  <1>1. poly \cup {w} \in Word
    BY DEF Generator, Word
  <1>2. ShiftLeft(poly \cup {w}, n) \in Word
    BY <1>1, LeftWord
  <1>3. \A x \in Int : x \in ShiftLeft(poly \cup {w}, n) <=> x - n \in poly \cup {w}
    BY <1>1, InLeft
  <1> QED
    BY <1>2, <1>3

LEMMA CancelTakes ==
    ASSUME NEW w, NEW poly, Generator(w, poly), NEW t \in Nat, t >= w
    PROVE  Takes(t - w + 1, Cancel(t, w, poly))
  <1> SUFFICES ASSUME NEW k \in 0 .. (t - w + 1) - 1
               PROVE  Cancel(t, w, poly)[k] \in [Word -> Word]
    BY DEF Takes
  <1>1. w \in Nat /\ k \in 0 .. t - w /\ t - k - w \in Nat
    BY DEF Generator
  <1>2. Cancel(t, w, poly)[k] = [r \in Word |->
            XorIf(t - k \in r, r, ShiftLeft(poly \cup {w}, t - k - w))]
    BY <1>1 DEF Cancel
  <1>3. ASSUME NEW r \in Word
        PROVE  XorIf(t - k \in r, r, ShiftLeft(poly \cup {w}, t - k - w)) \in Word
    <2>1. (t - k \in r) \in BOOLEAN
      OBVIOUS
    <2>2. ShiftLeft(poly \cup {w}, t - k - w) \in Word
      BY <1>1, GeneratorWord
    <2> QED
      BY <2>1, <2>2, XorIfWord
  <1> QED
    BY <1>2, <1>3

LEMMA InCancel ==
    ASSUME NEW w, NEW poly, Generator(w, poly), NEW t \in Nat, t >= w,
           NEW k \in 0 .. t - w, NEW r \in Word, NEW x \in Int
    PROVE  x \in Cancel(t, w, poly)[k][r]
             <=> ~ (x \in r <=> t - k \in r /\ (x - (t - k - w) \in poly \/ x = t - k))
  <1>1. w \in Nat /\ t - k - w \in Nat
    BY DEF Generator
  <1>2. Cancel(t, w, poly)[k][r] = XorIf(t - k \in r, r, ShiftLeft(poly \cup {w}, t - k - w))
    BY DEF Cancel
  <1>3. x \in ShiftLeft(poly \cup {w}, t - k - w)
          <=> x - (t - k - w) \in poly \/ x - (t - k - w) = w
    BY <1>1, GeneratorWord
  <1>4. x - (t - k - w) = w <=> x = t - k
    BY <1>1
  <1>5. (t - k \in r) \in BOOLEAN
    OBVIOUS
  <1>6. x \in XorIf(t - k \in r, r, ShiftLeft(poly \cup {w}, t - k - w))
          <=> ~ (x \in r <=> t - k \in r /\ x \in ShiftLeft(poly \cup {w}, t - k - w))
    BY InXor DEF XorIf
  <1> QED
    BY <1>2, <1>3, <1>4, <1>6

\* The division of a, with every remainder on the way below what is cancelled.
Division(q, a, t, w, poly) ==
    /\ Iterates(q, t - w + 1, Cancel(t, w, poly), a)
    /\ \A k \in 0 .. t - w + 1 : q[k] \subseteq 0 .. t - k
    /\ Divide(a, t, w, poly) = q[t - w + 1]

LEMMA DivisionExists ==
    ASSUME NEW w, NEW poly, Generator(w, poly), NEW t \in Nat, t >= w,
           NEW a \in Word, a \subseteq 0 .. t
    PROVE  \E q : Division(q, a, t, w, poly)
  <1> DEFINE n == t - w + 1
  <1>1. w \in Nat \ {0} /\ n \in Nat /\ poly \subseteq 0 .. w - 1
    BY DEF Generator, Ones
  <1>2. PICK q : /\ Iterates(q, n, Cancel(t, w, poly), a)
                 /\ Times(n, Cancel(t, w, poly), a) = q[n]
    BY <1>1, CancelTakes, TimesIterates
  <1> DEFINE G == {k \in Nat : k <= n => q[k] \subseteq 0 .. t - k}
  <1>3. 0 \in G
    <2>1. q[0] = a /\ t - 0 = t
      BY <1>2 DEF Iterates
    <2> QED
      BY <2>1
  <1>4. ASSUME NEW k \in Nat, k \in G PROVE k + 1 \in G
    <2> SUFFICES ASSUME k + 1 <= n PROVE q[k + 1] \subseteq 0 .. t - (k + 1)
      OBVIOUS
    <2>1. k \in 0 .. t - w /\ k \in 0 .. n - 1 /\ k + 1 \in 0 .. n /\ k \in 0 .. n
      BY <1>1
    <2>2. q[k] \subseteq 0 .. t - k /\ q[k] \in Word /\ q[k + 1] \in Word
      BY <1>2, <1>4, <2>1 DEF Iterates
    <2>3. q[k + 1] = Cancel(t, w, poly)[k][q[k]]
      BY <1>2, <2>1 DEF Iterates
    <2>4. ASSUME NEW x \in q[k + 1] PROVE x <= t - (k + 1)
      <3>1. x \in Nat
        BY <2>2 DEF Word
      <3>2. ~ (x \in q[k] <=> t - k \in q[k] /\ (x - (t - k - w) \in poly \/ x = t - k))
        BY <2>1, <2>2, <2>3, <3>1, InCancel
      <3>3. x # t - k
        <4>1. t - k - (t - k - w) = w /\ ~ (w \in poly)
          BY <1>1
        <4> QED
          BY <3>2, <4>1
      <3>4. x <= t - k
        <4>1. CASE x \in q[k]
          BY <2>2, <4>1
        <4>2. CASE x - (t - k - w) \in poly
          <5>1. x - (t - k - w) \in 0 .. w - 1
            BY <1>1, <4>2
          <5> QED
            BY <1>1, <3>1, <5>1
        <4> QED
          BY <3>2, <3>3, <4>1, <4>2
      <3> QED
        BY <3>1, <3>3, <3>4
    <2> QED
      BY <2>2, <2>4 DEF Word
  <1>5. Nat \subseteq G
    <2> HIDE DEF G
    <2> QED
      BY <1>3, <1>4, SetInduction
  <1>6. \A k \in 0 .. n : q[k] \subseteq 0 .. t - k
    BY <1>1, <1>5
  <1> QED
    BY <1>2, <1>6 DEF Division, Divide

LEMMA DivideWord ==
    ASSUME NEW w, NEW poly, Generator(w, poly), NEW t \in Nat, t >= w,
           NEW a \in Word, a \subseteq 0 .. t
    PROVE  Divide(a, t, w, poly) \in Word /\ Divide(a, t, w, poly) \subseteq Ones(w)
  <1>1. PICK q : Division(q, a, t, w, poly)
    BY DivisionExists
  <1>2. w \in Nat /\ t - w + 1 \in 0 .. t - w + 1 /\ t - (t - w + 1) = w - 1
    BY DEF Generator
  <1>3. q[t - w + 1] \in Word /\ q[t - w + 1] \subseteq 0 .. t - (t - w + 1)
    BY <1>1, <1>2 DEF Division, Iterates
  <1> QED
    BY <1>1, <1>2, <1>3 DEF Division, Ones

\* A longer dividend with a 0 first.
LEMMA DivideHigher ==
    ASSUME NEW w, NEW poly, Generator(w, poly), NEW t \in Nat, t >= w,
           NEW a \in Word, a \subseteq 0 .. t
    PROVE  Divide(a, t + 1, w, poly) = Divide(a, t, w, poly)
  <1> DEFINE n == t - w + 1
             f == Cancel(t, w, poly)
             h == Cancel(t + 1, w, poly)
  <1>1. w \in Nat \ {0} /\ n \in Nat /\ t + 1 \in Nat /\ t + 1 >= w /\ (t + 1) - w + 1 = n + 1
    BY DEF Generator
  <1>2. PICK q : Division(q, a, t, w, poly)
    BY DivisionExists
  <1>3. Iterates(q, n, f, a) /\ Divide(a, t, w, poly) = q[n]
    BY <1>2 DEF Division
  <1> DEFINE s == [k \in 0 .. n + 1 |-> IF k = 0 THEN a ELSE q[k - 1]]
  <1>4. s \in [0 .. n + 1 -> Word] /\ s[0] = a
    <2>1. \A k \in 0 .. n + 1 : k # 0 => k - 1 \in 0 .. n
      BY <1>1
    <2> QED
      BY <1>1, <1>3, <2>1 DEF Iterates
  <1>5. ASSUME NEW k \in 0 .. n PROVE s[k + 1] = h[k][s[k]]
    <2>1. k \in 0 .. (t + 1) - w /\ k \in 0 .. n + 1 /\ k + 1 \in 0 .. n + 1
          /\ k + 1 # 0 /\ (k + 1) - 1 = k
      BY <1>1
    <2>2. s[k + 1] = q[k] /\ q[k] \in Word
      BY <1>3, <2>1 DEF Iterates
    <2>3. CASE k = 0
      <3>1. s[k + 1] = a /\ s[k] = a
        BY <1>3, <1>4, <2>2, <2>3 DEF Iterates
      <3>2. ~ ((t + 1) - k \in a)
        BY <2>3
      <3>3. h[k][a] = a
        <4>1. h[k][a] \in Word
          <5>1. Takes((t + 1) - w + 1, h)
            BY <1>1, CancelTakes
          <5> QED
            BY <1>1, <5>1 DEF Takes
        <4>2. \A x \in Nat : x \in h[k][a] <=> x \in a
          BY <1>1, <2>1, <3>2, InCancel
        <4> HIDE DEF h
        <4> QED
          BY <4>1, <4>2, SameWord
      <3> QED
        BY <3>1, <3>3
    <2>4. CASE k # 0
      <3>1. k - 1 \in 0 .. n - 1 /\ (k - 1) + 1 = k /\ k - 1 \in 0 .. n
        BY <1>1, <2>4
      <3>2. s[k] = q[k - 1] /\ q[k - 1] \in Word
        BY <1>3, <2>1, <2>4, <3>1 DEF Iterates
      <3>3. q[k] = f[k - 1][q[k - 1]]
        BY <1>3, <3>1 DEF Iterates
      <3>4. f[k - 1] = h[k]
        <4>1. k - 1 \in 0 .. t - w /\ t - (k - 1) = (t + 1) - k
          BY <1>1, <3>1
        <4>2. f[k - 1] = [r \in Word |->
                XorIf(t - (k - 1) \in r, r, ShiftLeft(poly \cup {w}, t - (k - 1) - w))]
          BY <4>1 DEF Cancel
        <4>3. h[k] = [r \in Word |->
                XorIf((t + 1) - k \in r, r, ShiftLeft(poly \cup {w}, (t + 1) - k - w))]
          BY <2>1 DEF Cancel
        <4> QED
          BY <4>1, <4>2, <4>3
      <3> QED
        BY <2>2, <3>2, <3>3, <3>4
    <2> QED
      BY <2>3, <2>4
  <1>6. Iterates(s, n + 1, h, a)
    <2>1. (n + 1) - 1 = n
      BY <1>1
    <2>2. \A k \in 0 .. (n + 1) - 1 : s[k + 1] = h[k][s[k]]
      <3> HIDE DEF s, h, n
      <3> QED
        BY <1>5, <2>1
    <2> QED
      BY <1>4, <2>2 DEF Iterates
  <1>7. Takes(n + 1, h)
    BY <1>1, CancelTakes
  <1>8. Times(n + 1, h, a) = s[n + 1]
    <2> HIDE DEF s, h
    <2> QED
      BY <1>1, <1>6, <1>7, TimesIs
  <1>9. s[n + 1] = q[n]
    BY <1>1
  <1> QED
    BY <1>1, <1>3, <1>8, <1>9 DEF Divide

LEMMA LargestNumber ==
    ASSUME NEW t \in Nat, NEW S, S \subseteq 0 .. t, S # {}
    PROVE  Max(S) \in S /\ \A y \in S : Max(S) >= y
  <1> DEFINE T == {i \in Nat : t - i \in S}
  <1>1. T # {}
    <2>1. PICK x \in S : TRUE
      OBVIOUS
    <2>2. t - x \in Nat /\ t - (t - x) = x
      BY <2>1
    <2> QED
      BY <2>1, <2>2
  <1>2. PICK n \in T : \A m \in T : n <= m
    BY <1>1, LeastNumber
  <1>3. ASSUME NEW y \in S PROVE t - n >= y
    <2>1. y \in Nat /\ t - y \in Nat /\ t - (t - y) = y
      OBVIOUS
    <2>2. n <= t - y
      BY <1>2, <2>1
    <2> QED
      BY <2>1, <2>2
  <1>4. \E x \in S : \A y \in S : x >= y
    BY <1>3
  <1> QED
    BY <1>4, Zenon DEF Max

LEMMA RemainderDivides ==
    ASSUME NEW w, NEW poly, Generator(w, poly), NEW t \in Nat, t >= w,
           NEW a \in Word, a \subseteq 0 .. t
    PROVE  Remainder(a, w, poly) = Divide(a, t, w, poly)
  <1> DEFINE top == IF a = {} THEN w ELSE Max(a \cup {w})
  <1>1. Remainder(a, w, poly) = Divide(a, top, w, poly)
    BY Zenon DEF Remainder, Divide, Cancel
  <1>2. top \in w .. t /\ a \subseteq 0 .. top
    <2>1. w \in Nat
      BY DEF Generator
    <2>2. CASE a = {}
      BY <2>1, <2>2
    <2>3. CASE a # {}
      <3>1. a \cup {w} \subseteq 0 .. t /\ a \cup {w} # {}
        BY <2>1
      <3>2. Max(a \cup {w}) \in a \cup {w} /\ \A y \in a \cup {w} : Max(a \cup {w}) >= y
        BY <3>1, LargestNumber
      <3> DEFINE m == Max(a \cup {w})
      <3>3. top = m
        BY <2>3
      <3>4. m \in a \cup {w} /\ \A y \in a \cup {w} : m >= y
        BY <3>2
      <3> HIDE DEF m, top
      <3>5. a \subseteq 0 .. m
        BY <2>1, <3>1, <3>4 DEF Word
      <3>6. m \in w .. t
        BY <2>1, <3>1, <3>4
      <3> QED
        BY <3>3, <3>5, <3>6
    <2> QED
      BY <2>2, <2>3
  <1> HIDE DEF top
  <1> DEFINE G == {k \in Nat : Divide(a, top + k, w, poly) = Divide(a, top, w, poly)}
  <1>3. top \in Nat /\ top >= w
    BY <1>2 DEF Generator
  <1>4. 0 \in G
    <2>1. top + 0 = top
      BY <1>3
    <2> QED
      BY <2>1
  <1>5. ASSUME NEW k \in Nat, k \in G PROVE k + 1 \in G
    <2>1. top + k \in Nat /\ top + k >= w /\ a \subseteq 0 .. top + k /\ top + (k + 1) = (top + k) + 1
      BY <1>2, <1>3 DEF Generator
    <2>2. Divide(a, (top + k) + 1, w, poly) = Divide(a, top + k, w, poly)
      BY ONLY <2>1, DivideHigher, Generator(w, poly), a \in Word
    <2> QED
      BY <1>5, <2>1, <2>2
  <1>6. Nat \subseteq G
    <2> HIDE DEF G
    <2> QED
      BY <1>4, <1>5, SetInduction
  <1>7. t - top \in Nat /\ top + (t - top) = t
    BY <1>2, <1>3
  <1>8. t - top \in G
    BY <1>6, <1>7
  <1> QED
    BY <1>1, <1>7, <1>8

\* The remainder of a word that is too short to divide.
LEMMA RemainderShort ==
    ASSUME NEW w, NEW poly, Generator(w, poly), NEW a \in Word, a \subseteq Ones(w)
    PROVE  Remainder(a, w, poly) = a
  <1>1. w \in Nat \ {0} /\ a \subseteq 0 .. w /\ w - w + 1 = 1 /\ w >= w
    BY DEF Generator, Ones
  <1>2. Remainder(a, w, poly) = Times(1, Cancel(w, w, poly), a)
    BY <1>1, RemainderDivides DEF Divide
  <1> DEFINE f == Cancel(w, w, poly)
             q == [i \in 0 .. 1 |-> a]
  <1>3. Takes(1, f)
    BY <1>1, CancelTakes
  <1>4. f[0][a] = a
    <2>1. ~ (w - 0 \in a) /\ 0 \in 0 .. w - w
      BY <1>1 DEF Ones
    <2>2. \A x \in Nat : x \in f[0][a] <=> x \in a
      BY <1>1, <2>1, InCancel
    <2>3. f[0][a] \in Word
      BY <1>3 DEF Takes
    <2> HIDE DEF f
    <2> QED
      BY <2>2, <2>3, SameWord
  <1>5. Iterates(q, 1, f, a)
    <2>1. q \in [0 .. 1 -> Word] /\ q[0] = a /\ q[1] = a
      OBVIOUS
    <2>2. \A i \in 0 .. 1 - 1 : i = 0 /\ i + 1 = 1
      OBVIOUS
    <2> HIDE DEF q, f
    <2> QED
      BY <1>4, <2>1, <2>2 DEF Iterates
  <1>6. q[1] = a
    OBVIOUS
  <1> HIDE DEF q, f
  <1>7. Times(1, f, a) = q[1]
    BY <1>3, <1>5, TimesIs
  <1> QED
    BY <1>2, <1>6, <1>7 DEF f

\* a, and a bit at position w after it.
Appended(w, a, t) == XorIf(t, ShiftLeft(a, 1), {w})

LEMMA InAppended ==
    ASSUME NEW w \in Nat, NEW a \in Word, NEW t \in BOOLEAN
    PROVE  /\ Appended(w, a, t) \in Word
           /\ \A x \in Int : x \in Appended(w, a, t) <=> ~ (x - 1 \in a <=> t /\ x = w)
  <1>1. ShiftLeft(a, 1) \in Word /\ {w} \in Word
    BY LeftWord DEF Word
  <1>2. Appended(w, a, t) \in Word
    BY <1>1, XorIfWord DEF Appended
  <1>3. ASSUME NEW x \in Int PROVE x \in Appended(w, a, t) <=> ~ (x - 1 \in a <=> t /\ x = w)
    <2>1. x \in ShiftLeft(a, 1) <=> x - 1 \in a
      BY InLeft
    <2>2. x \in Appended(w, a, t) <=> ~ (x \in ShiftLeft(a, 1) <=> t /\ x \in {w})
      BY InXorIf DEF Appended
    <2> QED
      BY <2>1, <2>2
  <1> QED
    BY <1>2, <1>3

LEMMA AppendedRemainder ==
    ASSUME NEW w, NEW poly, Generator(w, poly), NEW t \in Nat, t >= w,
           NEW a \in Word, a \subseteq 0 .. t, NEW b \in BOOLEAN
    PROVE  Remainder(Appended(w, a, b), w, poly) = Step(w, poly, Remainder(a, w, poly), b)
  <1> DEFINE n == t - w + 1
             f == Cancel(t, w, poly)
             h == Cancel(t + 1, w, poly)
             c == Appended(w, a, b)
  <1>1. /\ w \in Nat \ {0} /\ n \in Nat /\ t + 1 \in Nat /\ t + 1 >= w
        /\ (t + 1) - w + 1 = n + 1 /\ (t + 1) - w = n /\ (n + 1) - 1 = n
        /\ t - n = w - 1 /\ (t + 1) - n = w
        /\ poly \in Word /\ poly \subseteq 0 .. w - 1
    BY DEF Generator, Ones
  <1>2. c \in Word /\ c \subseteq 0 .. t + 1
    <2>1. c \in Word /\ \A x \in Int : x \in c <=> ~ (x - 1 \in a <=> b /\ x = w)
      BY <1>1, InAppended
    <2>2. ASSUME NEW x \in c PROVE x \in 0 .. t + 1
      <3>1. x \in Nat /\ x \in Int
        BY <2>1 DEF Word
      <3>2. x - 1 \in a \/ x = w
        BY <2>1, <3>1
      <3>3. x - 1 \in a => x - 1 \in 0 .. t
        OBVIOUS
      <3> QED
        BY <1>1, <3>1, <3>2, <3>3
    <2> QED
      BY <2>1, <2>2
  <1>3. PICK q : Division(q, a, t, w, poly)
    BY DivisionExists
  <1>4. /\ q \in [0 .. n -> Word] /\ q[0] = a
        /\ \A k \in 0 .. n - 1 : q[k + 1] = f[k][q[k]]
        /\ \A k \in 0 .. n : q[k] \subseteq 0 .. t - k
        /\ Remainder(a, w, poly) = q[n]
    BY <1>3, RemainderDivides DEF Division, Iterates
  <1> DEFINE s == [k \in 0 .. n + 1 |->
                    IF k <= n THEN Appended(w, q[k], b) ELSE Step(w, poly, q[n], b)]
  <1>5. s \in [0 .. n + 1 -> Word]
    <2>1. \A k \in 0 .. n : Appended(w, q[k], b) \in Word
      BY <1>1, <1>4, InAppended
    <2>2. Step(w, poly, q[n], b) \in Word
      BY <1>1, <1>4, StepWord
    <2>3. \A k \in 0 .. n + 1 : k <= n => k \in 0 .. n
      BY <1>1
    <2> QED
      BY <2>1, <2>2, <2>3
  <1>6. s[0] = c /\ s[n + 1] = Step(w, poly, q[n], b)
    <2>1. 0 \in 0 .. n + 1 /\ 0 <= n /\ n + 1 \in 0 .. n + 1 /\ ~ (n + 1 <= n)
      BY <1>1
    <2> QED
      BY <1>4, <2>1
  <1>7. \A k \in 0 .. n : s[k] = Appended(w, q[k], b)
    <2>1. \A k \in 0 .. n : k \in 0 .. n + 1 /\ k <= n
      BY <1>1
    <2> QED
      BY <2>1
  <1> HIDE DEF s, c
  <1>8. ASSUME NEW k \in 0 .. n PROVE s[k + 1] = h[k][s[k]]
    <2>1. k + 1 \in 0 .. n + 1 /\ k \in 0 .. n + 1 /\ k \in 0 .. (t + 1) - w
      BY <1>1
    <2>2. s[k] = Appended(w, q[k], b) /\ s[k] \in Word /\ q[k] \in Word /\ s[k + 1] \in Word
      BY <1>4, <1>5, <1>7, <2>1
    <2>3. h[k][s[k]] \in Word
      <3>1. Takes(n + 1, h)
        BY <1>1, CancelTakes
      <3>2. h[k] \in [Word -> Word]
        BY <1>1, <3>1 DEF Takes
      <3> HIDE DEF h
      <3> QED
        BY <2>2, <3>2
    <2>4. \A x \in Int : x \in s[k] <=> ~ (x - 1 \in q[k] <=> b /\ x = w)
      BY <1>1, <2>2, InAppended
    <2>5. \A x \in Int : x \in h[k][s[k]]
             <=> ~ (x \in s[k] <=> /\ (t + 1) - k \in s[k]
                                   /\ x - ((t + 1) - k - w) \in poly \/ x = (t + 1) - k)
      BY <1>1, <2>1, <2>2, InCancel
    <2>6. (t + 1) - k \in s[k] <=> ~ (t - k \in q[k] <=> b /\ k = n)
      <3>1. (t + 1) - k \in Int /\ ((t + 1) - k) - 1 = t - k /\ ((t + 1) - k = w <=> k = n)
        BY <1>1
      <3> QED
        BY <2>4, <3>1
    <2>7. ASSUME NEW x \in Nat PROVE x \in s[k + 1] <=> x \in h[k][s[k]]
      <3>1. CASE k = n
        <4>1. s[k + 1] = Step(w, poly, q[n], b)
          BY <1>6, <3>1
        <4>2. x \in s[k + 1] <=> /\ x \in 0 .. w - 1
                                 /\ ~ (x - 1 \in q[n] <=> ~ (w - 1 \in q[n] <=> b) /\ x \in poly)
          <5> DEFINE r == q[n]
          <5>1. r \in Word
            BY <2>2, <3>1
          <5> HIDE DEF r
          <5>2. x \in Step(w, poly, r, b) <=> /\ x \in 0 .. w - 1
                                             /\ ~ (x - 1 \in r <=> ~ (w - 1 \in r <=> b) /\ x \in poly)
            BY <5>1, InStep
          <5> QED
            BY <4>1, <5>2 DEF r
        <4>3. (t + 1) - k = w /\ x - ((t + 1) - k - w) = x /\ t - k = w - 1
          BY <1>1, <3>1
        <4>4. x \in h[k][s[k]] <=> ~ (x \in s[k] <=> w \in s[k] /\ (x \in poly \/ x = w))
          <5> DEFINE g == h[k][s[k]]
                     y == (t + 1) - k
          <5>1. x \in g <=> ~ (x \in s[k] <=> y \in s[k] /\ (x - (y - w) \in poly \/ x = y))
            BY <2>5
          <5>2. y = w /\ x - (y - w) = x
            BY <4>3
          <5> HIDE DEF g, y
          <5>3. x \in g <=> ~ (x \in s[k] <=> w \in s[k] /\ (x \in poly \/ x = w))
            BY <5>1, <5>2
          <5> QED
            BY <5>3 DEF g
        <4>5. w \in s[k] <=> ~ (w - 1 \in q[n] <=> b)
          BY <2>6, <3>1, <4>3
        <4>6. x \in s[k] <=> ~ (x - 1 \in q[n] <=> b /\ x = w)
          BY <2>4, <3>1
        <4>7. x - 1 \in q[n] => x - 1 <= w - 1
          BY <1>1, <1>4
        <4>8. CASE x = w
          BY <4>2, <4>4, <4>5, <4>6, <4>8, <1>1
        <4>9. CASE x # w /\ x \in 0 .. w - 1
          BY <4>2, <4>4, <4>5, <4>6, <4>9
        <4>10. CASE x # w /\ ~ (x \in 0 .. w - 1)
          <5>1. ~ (x - 1 \in q[n]) /\ ~ (x \in poly)
            BY <1>1, <4>7, <4>10
          <5> QED
            BY <4>2, <4>4, <4>6, <4>10, <5>1
        <4> QED
          BY <4>8, <4>9, <4>10
      <3>2. CASE k # n
        <4>1. k \in 0 .. n - 1 /\ k + 1 \in 0 .. n /\ k \in 0 .. t - w
          BY <1>1, <3>2
        <4>2. s[k + 1] = Appended(w, f[k][q[k]], b) /\ f[k][q[k]] \in Word
          <5>1. q[k + 1] = f[k][q[k]] /\ q[k + 1] \in Word
            BY <1>4, <4>1
          <5> QED
            BY <1>7, <4>1, <5>1
        <4>3. x \in s[k + 1] <=> ~ (x - 1 \in f[k][q[k]] <=> b /\ x = w)
          <5> HIDE DEF f
          <5> QED
            BY <1>1, <4>2, InAppended
        <4>4. x - 1 \in f[k][q[k]]
                <=> ~ (x - 1 \in q[k] <=> /\ t - k \in q[k]
                                          /\ (x - 1) - (t - k - w) \in poly \/ x - 1 = t - k)
          BY <2>2, <4>1, InCancel
        <4>5. (x - 1) - (t - k - w) = x - ((t + 1) - k - w) /\ (x - 1 = t - k <=> x = (t + 1) - k)
          BY <1>1
        <4>6. x \in s[k] <=> ~ (x - 1 \in q[k] <=> b /\ x = w)
          BY <2>4
        <4>7. (t + 1) - k \in s[k] <=> t - k \in q[k]
          BY <2>6, <3>2
        <4>8. x \in h[k][s[k]]
             <=> ~ (x \in s[k] <=> /\ (t + 1) - k \in s[k]
                                   /\ x - ((t + 1) - k - w) \in poly \/ x = (t + 1) - k)
          BY <2>5
        <4> QED
          BY ONLY <4>3, <4>4, <4>5, <4>6, <4>7, <4>8
      <3> QED
        BY <3>1, <3>2
    <2> HIDE DEF h
    <2> QED
      BY <2>2, <2>3, <2>7, SameWord
  <1>9. Iterates(s, n + 1, h, c)
    <2>1. \A k \in 0 .. (n + 1) - 1 : s[k + 1] = h[k][s[k]]
      <3> HIDE DEF h, n
      <3> QED
        BY <1>1, <1>8
    <2> QED
      BY <1>5, <1>6, <2>1 DEF Iterates
  <1>10. Takes(n + 1, h)
    BY <1>1, CancelTakes
  <1>11. Times(n + 1, h, c) = s[n + 1]
    <2> HIDE DEF h
    <2> QED
      BY <1>1, <1>2, <1>9, <1>10, TimesIs
  <1>12. Remainder(c, w, poly) = Divide(c, t + 1, w, poly)
    BY <1>1, <1>2, RemainderDivides
  <1> QED
    BY <1>1, <1>4, <1>6, <1>11, <1>12 DEF Divide, c

LEMMA RemainderWord ==
    ASSUME NEW w, NEW poly, Generator(w, poly), NEW t \in Nat,
           NEW a \in Word, a \subseteq 0 .. t
    PROVE  Remainder(a, w, poly) \in Word /\ Remainder(a, w, poly) \subseteq Ones(w)
  <1>1. t + w \in Nat /\ t + w >= w /\ a \subseteq 0 .. t + w
    BY DEF Generator
  <1> QED
    BY <1>1, RemainderDivides, DivideWord

-----------------------------------------------------------------------------
(***************************************************************************)
(* An octet appended to the dividend is eight steps of the register.       *)
(***************************************************************************)
\* a, and the first k bits of an octet at position w after it.
Extended(a, w, o, k) == {x \in Nat : ~ (x - k \in a <=> x >= w /\ x - w + 8 - k \in o)}

Stepping(F, w, poly, o) ==
    /\ F \in [0 .. 8 -> Word]
    /\ \A k \in 0 .. 8 : F[k] \subseteq Ones(w)
    /\ \A k \in 0 .. 7 : F[k + 1] = Step(w, poly, F[k], 7 - k \in o)

LEMMA ExtendedBits ==
    ASSUME NEW w \in Nat \ {0}, NEW t \in Nat, t >= w, NEW a \in Word, a \subseteq 0 .. t,
           NEW o \in Octet
    PROVE  /\ Extended(a, w, o, 0) = a
           /\ \A k \in 0 .. 8 : /\ Extended(a, w, o, k) \in Word
                                /\ Extended(a, w, o, k) \subseteq 0 .. t + 8
           /\ \A k \in 0 .. 7 :
                Extended(a, w, o, k + 1) = Appended(w, Extended(a, w, o, k), 7 - k \in o)
  <1>1. o \subseteq 0 .. 7
    BY DEF Octet, Ones
  <1>2. Extended(a, w, o, 0) = a
    <2>1. \A x \in Nat : x - 0 = x /\ ~ (x >= w /\ x - w + 8 - 0 \in o)
      <3>1. ASSUME NEW x \in Nat, x >= w PROVE ~ (x - w + 8 - 0 \in 0 .. 7)
        BY <3>1
      <3> QED
        BY <1>1, <3>1
    <2>2. \A x \in Nat : x \in Extended(a, w, o, 0) <=> x \in a
      BY <2>1 DEF Extended
    <2>3. Extended(a, w, o, 0) \in Word
      BY DEF Extended, Word
    <2> QED
      BY <2>2, <2>3, SameWord
  <1>3. ASSUME NEW k \in 0 .. 8
        PROVE  Extended(a, w, o, k) \in Word /\ Extended(a, w, o, k) \subseteq 0 .. t + 8
    <2>1. ASSUME NEW x \in Nat, ~ (x - k \in a <=> x >= w /\ x - w + 8 - k \in o)
          PROVE  x <= t + 8
      <3>1. CASE x - k \in a
        <4>1. x - k \in 0 .. t
          BY <3>1
        <4> QED
          BY <4>1
      <3>2. CASE x - w + 8 - k \in o
        <4>1. x - w + 8 - k \in 0 .. 7
          BY <1>1, <3>2
        <4> QED
          BY <4>1
      <3> QED
        BY <2>1, <3>1, <3>2
    <2> QED
      BY <2>1 DEF Extended, Word
  <1>4. ASSUME NEW k \in 0 .. 7
        PROVE  Extended(a, w, o, k + 1) = Appended(w, Extended(a, w, o, k), 7 - k \in o)
    <2> DEFINE e == Extended(a, w, o, k)
               b == 7 - k \in o
    <2>1. k \in 0 .. 8 /\ k + 1 \in 0 .. 8 /\ w \in Nat
      OBVIOUS
    <2>2. e \in Word /\ Extended(a, w, o, k + 1) \in Word
      BY <1>3, <2>1
    <2>3. b \in BOOLEAN
      OBVIOUS
    <2>4. ASSUME NEW x \in Nat
          PROVE  x \in Extended(a, w, o, k + 1) <=> x \in Appended(w, e, b)
      <3>1. x \in Appended(w, e, b) <=> ~ (x - 1 \in e <=> b /\ x = w)
        <4> HIDE DEF e, b
        <4> QED
          BY <2>1, <2>2, <2>3, InAppended
      <3>2. x \in Extended(a, w, o, k + 1)
              <=> ~ (x - (k + 1) \in a <=> x >= w /\ x - w + 8 - (k + 1) \in o)
        BY DEF Extended
      <3>3. x - 1 \in e <=> x - 1 \in Nat /\ ~ (x - 1 - k \in a <=> x - 1 >= w /\ x - 1 - w + 8 - k \in o)
        BY DEF Extended
      <3>4. x - 1 - k = x - (k + 1) /\ x - 1 - w + 8 - k = x - w + 8 - (k + 1)
        OBVIOUS
      <3>5. CASE x - 1 \in Nat
        <4>1. CASE x = w
          <5>1. x - w + 8 - (k + 1) = 7 - k /\ ~ (x - 1 >= w) /\ x >= w
            BY <4>1
          <5> HIDE DEF e
          <5> QED
            BY <3>1, <3>2, <3>3, <3>4, <3>5, <4>1, <5>1
        <4>2. CASE x # w
          <5>1. x - 1 >= w <=> x >= w
            BY <4>2
          <5> HIDE DEF e
          <5> QED
            BY <3>1, <3>2, <3>3, <3>4, <3>5, <4>2, <5>1
        <4> QED
          BY <4>1, <4>2
      <3>6. CASE ~ (x - 1 \in Nat)
        <4>1. x = 0 /\ x # w /\ ~ (x >= w)
          BY <3>6
        <4>2. ~ (x - (k + 1) \in a)
          BY <4>1 DEF Word
        <4> HIDE DEF e
        <4> QED
          BY <3>1, <3>2, <3>3, <3>6, <4>1, <4>2
      <3> QED
        BY <3>5, <3>6
    <2>5. Appended(w, e, b) \in Word
      <3> HIDE DEF e, b
      <3> QED
        BY <2>1, <2>2, <2>3, InAppended
    <2> QED
      BY <2>2, <2>4, <2>5, SameWord
  <1> QED
    BY <1>2, <1>3, <1>4

LEMMA ExtendedRemainder ==
    ASSUME NEW w, NEW poly, Generator(w, poly), NEW t \in Nat, t >= w,
           NEW a \in Word, a \subseteq 0 .. t, NEW o \in Octet
    PROVE  \E F : /\ Stepping(F, w, poly, o)
                  /\ F[0] = Remainder(a, w, poly)
                  /\ F[8] = Remainder(Extended(a, w, o, 8), w, poly)
  <1> DEFINE e(k) == Extended(a, w, o, k)
             F == [k \in 0 .. 8 |-> Remainder(e(k), w, poly)]
  <1>1. w \in Nat \ {0} /\ w \in Nat /\ t + 8 \in Nat /\ t + 8 >= w
    BY DEF Generator
  <1>2. /\ e(0) = a
        /\ \A k \in 0 .. 8 : e(k) \in Word /\ e(k) \subseteq 0 .. t + 8
        /\ \A k \in 0 .. 7 : e(k + 1) = Appended(w, e(k), 7 - k \in o)
    BY <1>1, ExtendedBits
  <1> HIDE DEF e
  <1>3. \A k \in 0 .. 8 : /\ Remainder(e(k), w, poly) \in Word
                          /\ Remainder(e(k), w, poly) \subseteq Ones(w)
    BY <1>1, <1>2, RemainderWord
  <1>4. ASSUME NEW k \in 0 .. 7
        PROVE  Remainder(e(k + 1), w, poly) = Step(w, poly, Remainder(e(k), w, poly), 7 - k \in o)
    <2> DEFINE b == 7 - k \in o
    <2>1. b \in BOOLEAN /\ k \in 0 .. 8 /\ e(k + 1) = Appended(w, e(k), b)
      BY <1>2
    <2>2. e(k) \in Word /\ e(k) \subseteq 0 .. t + 8
      BY <1>2, <2>1
    <2> HIDE DEF b
    <2>3. Remainder(Appended(w, e(k), b), w, poly) = Step(w, poly, Remainder(e(k), w, poly), b)
      BY <1>1, <2>1, <2>2, AppendedRemainder
    <2> QED
      BY <2>1, <2>3 DEF b
  <1>5. \A k \in 0 .. 7 : k \in 0 .. 8 /\ k + 1 \in 0 .. 8
    OBVIOUS
  <1>6. Stepping(F, w, poly, o)
    BY <1>3, <1>4, <1>5 DEF Stepping
  <1>7. F[0] = Remainder(a, w, poly) /\ F[8] = Remainder(e(8), w, poly)
    BY <1>2
  <1> QED
    BY <1>6, <1>7 DEF e

\* An octet may be given reflected.
LEMMA ReflectOctet ==
    ASSUME NEW c \in Octet, NEW t \in BOOLEAN
    PROVE  /\ c \in Word
           /\ ReflectIf(t, c, 8) \in Octet
           /\ \A x \in Int : x \in ReflectIf(t, c, 8) <=> IF t THEN 7 - x \in c ELSE x \in c
  <1>1. c \in Word /\ c \subseteq 0 .. 7
    BY DEF Octet, Ones, Word
  <1>2. \A x \in Int : x \in reflect(c, 8) <=> x \in 0 .. 8 - 1 /\ 8 - 1 - x \in c
    BY <1>1, InReflect
  <1>3. \A x \in Int : x \in reflect(c, 8) <=> 7 - x \in c
    <2>1. \A x \in Int : 8 - 1 - x = 7 - x /\ (7 - x \in 0 .. 7 => x \in 0 .. 8 - 1)
      OBVIOUS
    <2> QED
      BY <1>1, <1>2, <2>1
  <1>4. reflect(c, 8) \in Octet
    <2>1. reflect(c, 8) \in Word
      BY <1>1, ReflectWord
    <2> QED
      BY <1>2, <2>1 DEF Octet, Ones, Word
  <1> QED
    BY <1>1, <1>3, <1>4 DEF ReflectIf

\* So may the bits of a table's index.
LEMMA ReflectNarrow ==
    ASSUME NEW n \in Nat, NEW c \in SUBSET Ones(n), NEW t \in BOOLEAN
    PROVE  /\ c \in Word /\ ReflectIf(t, c, n) \in Word
           /\ \A x \in Int : x \in ReflectIf(t, c, n) <=> IF t THEN n - 1 - x \in c ELSE x \in c
  <1>1. c \in Word /\ c \subseteq 0 .. n - 1
    BY DEF Ones, Word
  <1>2. \A x \in Int : x \in reflect(c, n) <=> x \in 0 .. n - 1 /\ n - 1 - x \in c
    BY <1>1, InReflect
  <1>3. \A x \in Int : x \in reflect(c, n) <=> n - 1 - x \in c
    <2>1. \A x \in Int : n - 1 - x \in 0 .. n - 1 => x \in 0 .. n - 1
      OBVIOUS
    <2> QED
      BY <1>1, <1>2, <2>1
  <1> QED
    BY <1>1, <1>3, ReflectWord DEF ReflectIf

Params(ps) ==
    /\ Generator(ps.width, ps.poly)
    /\ ps.xor_in \in Word /\ ps.xor_in \subseteq Ones(ps.width)
    /\ ps.reflect_in \in BOOLEAN

\* The loop over the bits of an octet in bit_by_bit_fast and check_file.
FastPass(ps, o) ==
    [i \in 0 .. 7 |-> [r \in Word |->
        XorIf((MSB(ps) \in r) # (7 - i \in o), ShiftLeft(r, 1), ps.poly)]]

LEMMA FastTakes ==
    ASSUME NEW ps, Params(ps), NEW o
    PROVE  /\ Takes(8, FastPass(ps, o))
           /\ \A i \in 0 .. 7, r \in Word, x \in Int :
                x \in FastPass(ps, o)[i][r]
                  <=> ~ (x - 1 \in r <=> ~ (ps.width - 1 \in r <=> 7 - i \in o) /\ x \in ps.poly)
  <1> DEFINE b(i, r) == (MSB(ps) \in r) # (7 - i \in o)
  <1>1. \A i, r : b(i, r) \in BOOLEAN /\ (b(i, r) <=> ~ (ps.width - 1 \in r <=> 7 - i \in o))
    BY DEF MSB
  <1>2. \A i \in 0 .. 7, r \in Word :
          FastPass(ps, o)[i][r] = XorIf(b(i, r), ShiftLeft(r, 1), ps.poly)
    BY DEF FastPass
  <1>3. \A i \in 0 .. 7 :
          FastPass(ps, o)[i] = [r \in Word |-> XorIf(b(i, r), ShiftLeft(r, 1), ps.poly)]
    BY DEF FastPass
  <1> HIDE DEF b
  <1>4. \A i : \A r \in Word : XorIf(b(i, r), ShiftLeft(r, 1), ps.poly) \in Word
    BY <1>1, LeftWord, XorIfWord DEF Params, Generator
  <1>5. ASSUME NEW i \in 0 .. 7 PROVE FastPass(ps, o)[i] \in [Word -> Word]
    <2> DEFINE h(r) == XorIf(b(i, r), ShiftLeft(r, 1), ps.poly)
    <2>1. \A r \in Word : h(r) \in Word
      BY <1>4
    <2>2. FastPass(ps, o)[i] = [r \in Word |-> h(r)]
      BY <1>3
    <2> HIDE DEF h
    <2> QED
      BY <2>1, <2>2
  <1>6. ASSUME NEW i \in 0 .. 7, NEW r \in Word, NEW x \in Int
        PROVE  x \in FastPass(ps, o)[i][r]
                  <=> ~ (x - 1 \in r <=> ~ (ps.width - 1 \in r <=> 7 - i \in o) /\ x \in ps.poly)
    <2>1. x \in ShiftLeft(r, 1) <=> x - 1 \in r
      BY InLeft
    <2>2. x \in XorIf(b(i, r), ShiftLeft(r, 1), ps.poly)
            <=> ~ (x \in ShiftLeft(r, 1) <=> b(i, r) /\ x \in ps.poly)
      BY <1>1, InXorIf
    <2> QED
      BY <1>1, <1>2, <2>1, <2>2
  <1>7. Takes(8, FastPass(ps, o))
    <2>1. \A i \in 0 .. 8 - 1 : i \in 0 .. 7
      OBVIOUS
    <2> QED
      BY <1>5, <2>1 DEF Takes
  <1> QED
    BY <1>6, <1>7

LEMMA FastSteps ==
    ASSUME NEW ps, Params(ps), NEW o \in Octet, NEW F, Stepping(F, ps.width, ps.poly, o)
    PROVE  Times(8, FastPass(ps, o), F[0]) \cap Mask(ps) = F[8]
  <1> DEFINE w == ps.width
             f == FastPass(ps, o)
  <1>1. w \in Nat \ {0} /\ ps.poly \in Word /\ Mask(ps) = 0 .. w - 1
    BY DEF Params, Generator, Mask, Ones
  <1>2. F[0] \in Word /\ F[0] \subseteq 0 .. w - 1
    BY DEF Stepping, Ones
  <1>3. PICK q : Iterates(q, 8, f, F[0]) /\ Times(8, f, F[0]) = q[8]
    BY <1>2, FastTakes, TimesIterates
  <1>4. q \in [0 .. 8 -> Word] /\ q[0] = F[0] /\ \A i \in 0 .. 7 : q[i + 1] = f[i][q[i]]
    BY <1>3 DEF Iterates
  <1> DEFINE G == {k \in Nat : k <= 8 => q[k] \cap (0 .. w - 1) = F[k]}
  <1>5. 0 \in G
    BY <1>2, <1>4
  <1>6. ASSUME NEW k \in Nat, k \in G PROVE k + 1 \in G
    <2> SUFFICES ASSUME k + 1 <= 8 PROVE q[k + 1] \cap (0 .. w - 1) = F[k + 1]
      OBVIOUS
    <2>1. k \in 0 .. 7 /\ k \in 0 .. 8 /\ k + 1 \in 0 .. 8
      OBVIOUS
    <2>2. q[k] \cap (0 .. w - 1) = F[k] /\ q[k] \in Word /\ q[k + 1] \in Word
      BY <1>4, <1>6, <2>1
    <2>3. F[k] \in Word /\ F[k + 1] \in Word /\ F[k + 1] = Step(w, ps.poly, F[k], 7 - k \in o)
      BY <2>1 DEF Stepping
    <2>4. ASSUME NEW x \in Nat
          PROVE  x \in q[k + 1] \cap (0 .. w - 1) <=> x \in F[k + 1]
      <3>1. x \in q[k + 1]
              <=> ~ (x - 1 \in q[k] <=> ~ (w - 1 \in q[k] <=> 7 - k \in o) /\ x \in ps.poly)
        BY <1>4, <2>1, <2>2, FastTakes
      <3>2. x \in F[k + 1] <=> /\ x \in 0 .. w - 1
                               /\ ~ (x - 1 \in F[k] <=> ~ (w - 1 \in F[k] <=> 7 - k \in o) /\ x \in ps.poly)
        <4> DEFINE b == 7 - k \in o
        <4>1. b \in BOOLEAN
          OBVIOUS
        <4>2. F[k + 1] = Step(w, ps.poly, F[k], b)
          BY <2>3
        <4> HIDE DEF b
        <4>3. x \in F[k + 1] <=> /\ x \in 0 .. w - 1
                                 /\ ~ (x - 1 \in F[k] <=> ~ (w - 1 \in F[k] <=> b) /\ x \in ps.poly)
          BY <2>3, <4>1, <4>2, InStep DEF Params
        <4> QED
          BY <4>3 DEF b
      <3>3. w - 1 \in F[k] <=> w - 1 \in q[k]
        BY <1>1, <2>2
      <3>4. x \in 0 .. w - 1 => (x - 1 \in F[k] <=> x - 1 \in q[k])
        <4>1. ASSUME x - 1 \in q[k], x \in 0 .. w - 1 PROVE x - 1 \in 0 .. w - 1
          BY <2>2, <4>1, <1>1 DEF Word
        <4> QED
          BY <2>2, <4>1
      <3> QED
        BY <3>1, <3>2, <3>3, <3>4
    <2>5. q[k + 1] \cap (0 .. w - 1) \in Word
      BY <2>2, CapWord
    <2> QED
      BY <2>3, <2>4, <2>5, SameWord
  <1>7. 8 \in G
    <2> HIDE DEF G
    <2> QED
      BY <1>5, <1>6, SetInduction
  <1> QED
    BY <1>1, <1>3, <1>7

-----------------------------------------------------------------------------
(***************************************************************************)
(* The table driven algorithm keeps the register CrcShift bits higher, and *)
(* reflected where the input is.                                           *)
(***************************************************************************)
Steps(n, F, w, poly, o) ==
    /\ F \in [0 .. n -> Word]
    /\ \A k \in 0 .. n : F[k] \subseteq Ones(w)
    /\ \A k \in 0 .. n - 1 : F[k + 1] = Step(w, poly, F[k], n - 1 - k \in o)

TablePass(ps, n) ==
    [j \in 0 .. n - 1 |-> [r \in Word |->
        XorIf(MSB(ps) + CrcShift(ps) \in r, ShiftLeft(r, 1), ShiftLeft(ps.poly, CrcShift(ps)))]]

Tabled(ps, r) ==
    IF ps.reflect_in THEN ShiftLeft(reflect(r, ps.width), CrcShift(ps))
                     ELSE ShiftLeft(r, CrcShift(ps))

LEMMA ShiftBounds ==
    ASSUME NEW ps, Params(ps)
    PROVE  /\ ps.width \in Nat \ {0} /\ CrcShift(ps) \in Nat /\ ps.width + CrcShift(ps) \in Nat
           /\ ps.width + CrcShift(ps) >= 8
           /\ CrcShift(ps) # 0 => ps.width + CrcShift(ps) = 8
  BY DEF Params, Generator, CrcShift

LEMMA TableTakes ==
    ASSUME NEW ps, Params(ps), NEW n \in 1 .. 8
    PROVE  /\ Takes(n, TablePass(ps, n))
           /\ \A j \in 0 .. n - 1, r \in Word, x \in Int :
                x \in TablePass(ps, n)[j][r]
                  <=> ~ (x - 1 \in r <=> /\ ps.width + CrcShift(ps) - 1 \in r
                                         /\ x - CrcShift(ps) \in ps.poly)
  <1> DEFINE s == CrcShift(ps)
             b(r) == MSB(ps) + s \in r
  <1>1. ps.width \in Nat /\ s \in Nat /\ ps.poly \in Word
    BY ShiftBounds DEF Params, Generator
  <1>2. MSB(ps) + s = ps.width + s - 1
    BY <1>1 DEF MSB
  <1>3. \A r : b(r) \in BOOLEAN /\ (b(r) <=> ps.width + s - 1 \in r)
    BY <1>2
  <1>4. \A j \in 0 .. n - 1 :
          TablePass(ps, n)[j] = [r \in Word |-> XorIf(b(r), ShiftLeft(r, 1), ShiftLeft(ps.poly, s))]
    BY DEF TablePass
  <1> HIDE DEF b, s
  <1>5. ShiftLeft(ps.poly, s) \in Word /\ \A x \in Int : x \in ShiftLeft(ps.poly, s) <=> x - s \in ps.poly
    BY <1>1, LeftWord, InLeft
  <1>6. \A r \in Word : XorIf(b(r), ShiftLeft(r, 1), ShiftLeft(ps.poly, s)) \in Word
    BY <1>3, <1>5, LeftWord, XorIfWord
  <1>7. ASSUME NEW j \in 0 .. n - 1 PROVE TablePass(ps, n)[j] \in [Word -> Word]
    BY <1>4, <1>6
  <1>8. ASSUME NEW j \in 0 .. n - 1, NEW r \in Word, NEW x \in Int
        PROVE  x \in TablePass(ps, n)[j][r]
                  <=> ~ (x - 1 \in r <=> ps.width + s - 1 \in r /\ x - s \in ps.poly)
    <2>1. x \in ShiftLeft(r, 1) <=> x - 1 \in r
      BY InLeft
    <2>2. x \in XorIf(b(r), ShiftLeft(r, 1), ShiftLeft(ps.poly, s))
            <=> ~ (x \in ShiftLeft(r, 1) <=> b(r) /\ x \in ShiftLeft(ps.poly, s))
      BY <1>3, InXorIf
    <2>3. TablePass(ps, n)[j][r] = XorIf(b(r), ShiftLeft(r, 1), ShiftLeft(ps.poly, s))
      BY <1>4
    <2> QED
      BY <1>3, <1>5, <2>1, <2>2, <2>3
  <1> QED
    BY <1>7, <1>8 DEF Takes, s

\* Where the register and the octet begin in a word of the table, and what
\* has become of them after k passes.
Begins(n, first, F, w, s, o) ==
    \A x \in Int : x \in first <=> /\ x \in w + s - n .. w + s - 1
                                   /\ ~ (x - s \in F[0] <=> x - (w + s - n) \in o)

Passed(n, q, k, F, w, s, o) ==
    \A x \in Int : x <= w + s - 1 =>
        (x \in q[k] <=> ~ (x - s \in F[k] <=> ~ (x - (w + s - n + k) \in o
                                                 <=> x - k - s \in F[0] /\ x - k <= w + s - n - 1)))

LEMMA TablePasses ==
    ASSUME NEW ps, Params(ps), NEW n \in 1 .. 8, NEW o \in SUBSET Ones(n), NEW F,
           Steps(n, F, ps.width, ps.poly, o),
           NEW first \in Word, Begins(n, first, F, ps.width, CrcShift(ps), o)
    PROVE  \E q : /\ Times(n, TablePass(ps, n), first) = q[n] /\ q[n] \in Word
                  /\ Passed(n, q, n, F, ps.width, CrcShift(ps), o)
  <1> DEFINE w == ps.width
             s == CrcShift(ps)
             f == TablePass(ps, n)
             g == ps.poly
  <1>1. w \in Nat \ {0} /\ s \in Nat /\ w + s >= n /\ g \subseteq 0 .. w - 1 /\ o \subseteq 0 .. n - 1
    BY ShiftBounds DEF Params, Generator, Ones
  <1>2. /\ \A k \in 0 .. n : F[k] \in Word /\ F[k] \subseteq 0 .. w - 1
        /\ \A k \in 0 .. n - 1 : F[k + 1] = Step(w, g, F[k], n - 1 - k \in o)
    BY DEF Steps, Ones
  <1>3. PICK q : Iterates(q, n, f, first) /\ Times(n, f, first) = q[n]
    BY TableTakes, TimesIterates
  <1>4. q \in [0 .. n -> Word] /\ q[0] = first /\ \A i \in 0 .. n - 1 : q[i + 1] = f[i][q[i]]
    BY <1>3 DEF Iterates
  <1>5. \A j \in 0 .. n - 1, r \in Word, x \in Int :
          x \in f[j][r] <=> ~ (x - 1 \in r <=> w + s - 1 \in r /\ x - s \in g)
    BY TableTakes
  <1>6. Generator(w, g)
    BY DEF Params
  <1> HIDE DEF f, s, w, g
  <1> DEFINE G == {k \in Nat : k <= n => Passed(n, q, k, F, w, s, o)}
  <1>7. 0 \in G
    <2> SUFFICES ASSUME NEW x \in Int, x <= w + s - 1
                 PROVE  x \in q[0] <=> ~ (x - s \in F[0]
                           <=> ~ (x - (w + s - n + 0) \in o <=> x - 0 - s \in F[0] /\ x - 0 <= w + s - n - 1))
      BY DEF Passed
    <2>1. x \in q[0] <=> x \in w + s - n .. w + s - 1 /\ ~ (x - s \in F[0] <=> x - (w + s - n) \in o)
      BY <1>4 DEF Begins, w, s
    <2>2. x - (w + s - n + 0) = x - (w + s - n) /\ x - 0 - s = x - s /\ x - 0 = x
      BY <1>1
    <2>3. CASE x >= w + s - n
      <3>1. x \in w + s - n .. w + s - 1 /\ ~ (x <= w + s - n - 1)
        BY <1>1, <2>3
      <3> QED
        BY <2>1, <2>2, <3>1
    <2>4. CASE x < w + s - n
      <3>1. ~ (x \in w + s - n .. w + s - 1) /\ x <= w + s - n - 1
        BY <1>1, <2>4
      <3>2. ~ (x - (w + s - n) \in o)
        BY <1>1, <2>4
      <3> QED
        BY <2>1, <2>2, <3>1, <3>2
    <2> QED
      BY <1>1, <2>3, <2>4
  <1>8. ASSUME NEW k \in Nat, k \in G PROVE k + 1 \in G
    <2> SUFFICES ASSUME k + 1 <= n, NEW x \in Int, x <= w + s - 1
                 PROVE  x \in q[k + 1] <=> ~ (x - s \in F[k + 1]
                           <=> ~ (x - (w + s - n + (k + 1)) \in o
                                  <=> x - (k + 1) - s \in F[0] /\ x - (k + 1) <= w + s - n - 1))
      BY DEF Passed
    <2>1. k \in 0 .. n - 1 /\ k \in 0 .. n /\ k + 1 \in 0 .. n
      OBVIOUS
    <2>2. Passed(n, q, k, F, w, s, o)
      BY <1>8
    <2>3. x \in q[k + 1] <=> ~ (x - 1 \in q[k] <=> w + s - 1 \in q[k] /\ x - s \in g)
      <3>1. q[k + 1] = f[k][q[k]] /\ q[k] \in Word
        BY <1>4, <2>1
      <3> QED
        BY <1>5, <2>1, <3>1
    <2>4. w + s - 1 \in q[k] <=> ~ (w - 1 \in F[k] <=> n - 1 - k \in o)
      <3>1. PICK y \in Int : y = w + s - 1
        BY <1>1
      <3>2. y \in q[k]
              <=> ~ (y - s \in F[k] <=> ~ (y - (w + s - n + k) \in o
                                           <=> y - k - s \in F[0] /\ y - k <= w + s - n - 1))
        BY <2>2, <3>1 DEF Passed
      <3>3. y - s = w - 1 /\ y - (w + s - n + k) = n - 1 - k /\ ~ (y - k <= w + s - n - 1)
        BY <1>1, <2>1, <3>1
      <3>4. y \in q[k] <=> ~ (w - 1 \in F[k] <=> n - 1 - k \in o)
        BY ONLY <3>2, <3>3
      <3> QED
        BY <3>1, <3>4
    <2>5. x - 1 \in q[k]
            <=> ~ (x - 1 - s \in F[k]
                   <=> ~ (x - (w + s - n + (k + 1)) \in o
                          <=> x - (k + 1) - s \in F[0] /\ x - (k + 1) <= w + s - n - 1))
      <3>1. x - 1 \in Int /\ x - 1 <= w + s - 1
        BY <1>1
      <3>2. x - 1 \in q[k]
            <=> ~ (x - 1 - s \in F[k]
                   <=> ~ (x - 1 - (w + s - n + k) \in o
                          <=> x - 1 - k - s \in F[0] /\ x - 1 - k <= w + s - n - 1))
        BY <2>2, <3>1 DEF Passed
      <3>3. /\ x - 1 - (w + s - n + k) = x - (w + s - n + (k + 1))
            /\ x - 1 - k - s = x - (k + 1) - s /\ x - 1 - k = x - (k + 1)
        BY <1>1
      <3> QED
        BY <3>2, <3>3
    <2>6. x - s \in F[k + 1]
            <=> ~ (x - s - 1 \in F[k] <=> ~ (w - 1 \in F[k] <=> n - 1 - k \in o) /\ x - s \in g)
      <3> DEFINE b == n - 1 - k \in o
      <3>1. b \in BOOLEAN /\ F[k + 1] = Step(w, g, F[k], b) /\ F[k] \in Word /\ x - s \in Int
        BY <1>1, <1>2, <2>1
      <3> HIDE DEF b
      <3>2. x - s \in F[k + 1]
              <=> /\ x - s \in 0 .. w - 1
                  /\ ~ (x - s - 1 \in F[k] <=> ~ (w - 1 \in F[k] <=> b) /\ x - s \in g)
        BY <1>6, <3>1, InStep
      <3>3. CASE x - s \in 0 .. w - 1
        BY <3>2, <3>3 DEF b
      <3>4. CASE ~ (x - s \in 0 .. w - 1)
        <4>1. x - s < 0
          BY <1>1, <3>4
        <4>2. ~ (x - s - 1 \in F[k]) /\ ~ (x - s \in g)
          BY <1>1, <1>2, <2>1, <4>1
        <4> QED
          BY <3>2, <3>4, <4>2
      <3> QED
        BY <3>3, <3>4
    <2>7. x - s - 1 = x - 1 - s
      BY <1>1
    <2> QED
      BY ONLY <2>3, <2>4, <2>5, <2>6, <2>7
  <1>9. n \in G
    <2> HIDE DEF G
    <2> QED
      BY <1>7, <1>8, SetInduction
  <1>10. Passed(n, q, n, F, w, s, o) /\ q[n] \in Word
    BY <1>4, <1>9
  <1> QED
    BY <1>3, <1>10 DEF f, w, s

LEMMA InTabled ==
    ASSUME NEW ps, Params(ps), NEW r \in Word, r \subseteq Ones(ps.width)
    PROVE  /\ Tabled(ps, r) \in Word
           /\ \A x \in Int :
                x \in Tabled(ps, r)
                  <=> IF ps.reflect_in
                      THEN x - CrcShift(ps) \in 0 .. ps.width - 1
                           /\ ps.width - 1 - (x - CrcShift(ps)) \in r
                      ELSE x - CrcShift(ps) \in r
  <1> DEFINE w == ps.width
             s == CrcShift(ps)
  <1>1. w \in Nat /\ s \in Nat
    BY ShiftBounds
  <1> HIDE DEF w, s
  <1>2. reflect(r, w) \in Word /\ ShiftLeft(reflect(r, w), s) \in Word /\ ShiftLeft(r, s) \in Word
    BY <1>1, ReflectWord, LeftWord
  <1>3. ASSUME NEW x \in Int
        PROVE  /\ x \in ShiftLeft(r, s) <=> x - s \in r
               /\ x \in ShiftLeft(reflect(r, w), s) <=> x - s \in 0 .. w - 1 /\ w - 1 - (x - s) \in r
    <2>1. x - s \in Int
      BY <1>1
    <2>2. x \in ShiftLeft(reflect(r, w), s) <=> x - s \in reflect(r, w)
      BY <1>1, <1>2, InLeft
    <2>3. x \in ShiftLeft(r, s) <=> x - s \in r
      BY <1>1, InLeft
    <2> QED
      BY <1>1, <2>1, <2>2, <2>3, InReflect
  <1> QED
    BY <1>2, <1>3 DEF Tabled, w, s

EntryOf(ps, last) ==
    (IF ps.reflect_in
     THEN ShiftLeft(reflect(ShiftRight(last, CrcShift(ps)), ps.width), CrcShift(ps))
     ELSE last) \cap ShiftLeft(Mask(ps), CrcShift(ps))

LEMMA InEntry ==
    ASSUME NEW ps, Params(ps), NEW last \in Word
    PROVE  /\ EntryOf(ps, last) \in Word
           /\ \A x \in Int :
                x \in EntryOf(ps, last)
                  <=> /\ x - CrcShift(ps) \in 0 .. ps.width - 1
                      /\ IF ps.reflect_in
                         THEN ps.width - 1 - (x - CrcShift(ps)) + CrcShift(ps) \in last
                         ELSE x \in last
  <1> DEFINE w == ps.width
             s == CrcShift(ps)
             v == ShiftRight(last, s)
  <1>1. w \in Nat /\ s \in Nat
    BY ShiftBounds
  <1>2. Mask(ps) \in Word
    BY <1>1 DEF Mask, Ones, Word
  <1>m. Mask(ps) = 0 .. w - 1
    BY DEF Mask, Ones
  <1> HIDE DEF w, s
  <1>3. v \in Word /\ \A x \in Int : x \in v <=> x >= 0 /\ x + s \in last
    BY <1>1, RightWord, InRight
  <1> HIDE DEF v
  <1>4. reflect(v, w) \in Word /\ ShiftLeft(reflect(v, w), s) \in Word
    BY <1>1, <1>3, ReflectWord, LeftWord
  <1>5. ASSUME NEW x \in Int
        PROVE  /\ x \in ShiftLeft(Mask(ps), s) <=> x - s \in 0 .. w - 1
               /\ x - s \in 0 .. w - 1 =>
                    (x \in ShiftLeft(reflect(v, w), s) <=> w - 1 - (x - s) + s \in last)
    <2>1. x \in ShiftLeft(Mask(ps), s) <=> x - s \in 0 .. w - 1
      <3>1. x \in ShiftLeft(Mask(ps), s) <=> x - s \in Mask(ps)
        BY <1>1, <1>2, InLeft
      <3> QED
        BY <1>m, <3>1
    <2>2. x \in ShiftLeft(reflect(v, w), s) <=> x - s \in reflect(v, w)
      BY <1>1, <1>4, InLeft
    <2>3. x - s \in reflect(v, w) <=> x - s \in 0 .. w - 1 /\ w - 1 - (x - s) \in v
      BY <1>1, <1>3, InReflect
    <2>4. ASSUME x - s \in 0 .. w - 1
          PROVE  w - 1 - (x - s) \in v <=> w - 1 - (x - s) + s \in last
      <3>1. w - 1 - (x - s) \in Int /\ w - 1 - (x - s) >= 0
        BY <1>1, <2>4
      <3> QED
        BY <1>3, <3>1
    <2> QED
      BY <2>1, <2>2, <2>3, <2>4
  <1>6. EntryOf(ps, last) = (IF ps.reflect_in THEN ShiftLeft(reflect(v, w), s) ELSE last)
                              \cap ShiftLeft(Mask(ps), s)
    BY DEF EntryOf, v, s, w
  <1>7. EntryOf(ps, last) \in Word
    BY <1>4, <1>6, CapWord
  <1>8. ASSUME NEW x \in Int
        PROVE  x \in EntryOf(ps, last)
                  <=> /\ x - s \in 0 .. w - 1
                      /\ IF ps.reflect_in THEN w - 1 - (x - s) + s \in last ELSE x \in last
    BY <1>5, <1>6
  <1> QED
    BY <1>7, <1>8 DEF s, w

EntryFirst(ps, n, i) ==
    ShiftLeft(ReflectIf(ps.reflect_in, i, n), ps.width - n + CrcShift(ps))

LEMMA TableEntryIs ==
    ASSUME NEW ps, NEW n, NEW i
    PROVE  TableEntry(ps, n, i) = EntryOf(ps, Times(n, TablePass(ps, n), EntryFirst(ps, n, i)))
  BY Zenon DEF TableEntry, EntryOf, TablePass, EntryFirst

LEMMA InEntryFirst ==
    ASSUME NEW ps, Params(ps), NEW n \in 1 .. 8, NEW i \in SUBSET Ones(n)
    PROVE  /\ EntryFirst(ps, n, i) \in Word
           /\ \A x \in Int :
                x \in EntryFirst(ps, n, i)
                  <=> IF ps.reflect_in THEN n - 1 - (x - (ps.width + CrcShift(ps) - n)) \in i
                                       ELSE x - (ps.width + CrcShift(ps) - n) \in i
  <1> DEFINE m == ps.width - n + CrcShift(ps)
             c == ReflectIf(ps.reflect_in, i, n)
  <1>1. m \in Nat /\ m = ps.width + CrcShift(ps) - n /\ n \in Nat
    BY ShiftBounds
  <1>2. /\ c \in Word
        /\ \A x \in Int : x \in c <=> IF ps.reflect_in THEN n - 1 - x \in i ELSE x \in i
    BY <1>1, ReflectNarrow DEF Params
  <1>3. EntryFirst(ps, n, i) = ShiftLeft(c, m)
    BY DEF EntryFirst
  <1> HIDE DEF m, c
  <1>4. ShiftLeft(c, m) \in Word
    BY <1>1, <1>2, LeftWord
  <1>5. \A x \in Int : x \in ShiftLeft(c, m) <=> x - m \in c
    BY <1>1, <1>2, InLeft
  <1>6. \A x \in Int : x \in ShiftLeft(c, m) <=> IF ps.reflect_in THEN n - 1 - (x - m) \in i ELSE x - m \in i
    BY <1>1, <1>2, <1>5
  <1> QED
    BY <1>1, <1>3, <1>4, <1>6

\* What is taken from the register to index the table with.
TableIdx(ps, n, register_, c) ==
    Xor(ShiftRight(register_, IF ps.reflect_in THEN CrcShift(ps) ELSE ps.width - n + CrcShift(ps)), c)
        \cap Ones(n)

LEMMA InTableIdx ==
    ASSUME NEW ps, Params(ps), NEW n \in 1 .. 8, NEW r \in Word, NEW c
    PROVE  /\ TableIdx(ps, n, r, c) \in SUBSET Ones(n)
           /\ \A x \in Int :
                x \in TableIdx(ps, n, r, c)
                  <=> /\ x \in 0 .. n - 1
                      /\ ~ (x + (IF ps.reflect_in THEN CrcShift(ps)
                                                  ELSE ps.width + CrcShift(ps) - n) \in r <=> x \in c)
  <1> DEFINE m == IF ps.reflect_in THEN CrcShift(ps) ELSE ps.width - n + CrcShift(ps)
  <1>1. m \in Nat /\ m = IF ps.reflect_in THEN CrcShift(ps) ELSE ps.width + CrcShift(ps) - n
    BY ShiftBounds
  <1>2. TableIdx(ps, n, r, c) = Xor(ShiftRight(r, m), c) \cap Ones(n)
    BY DEF TableIdx
  <1> HIDE DEF m
  <1>3. ASSUME NEW x \in Int
        PROVE  x \in TableIdx(ps, n, r, c) <=> x \in 0 .. n - 1 /\ ~ (x + m \in r <=> x \in c)
    <2>1. x \in ShiftRight(r, m) <=> x >= 0 /\ x + m \in r
      BY <1>1, InRight
    <2>2. x \in TableIdx(ps, n, r, c) <=> x \in 0 .. n - 1 /\ ~ (x \in ShiftRight(r, m) <=> x \in c)
      BY <1>2, InXor DEF Ones
    <2> QED
      BY <2>1, <2>2
  <1>4. TableIdx(ps, n, r, c) \in SUBSET Ones(n)
    BY <1>2
  <1> QED
    BY <1>1, <1>3, <1>4

LEMMA TableEntryWord ==
    ASSUME NEW ps, Params(ps), NEW n \in 1 .. 8, NEW i \in SUBSET Ones(n)
    PROVE  TableEntry(ps, n, i) \in Word
  <1>1. EntryFirst(ps, n, i) \in Word
    BY InEntryFirst
  <1>2. Times(n, TablePass(ps, n), EntryFirst(ps, n, i)) \in Word
    <2>1. n \in Nat /\ Takes(n, TablePass(ps, n))
      BY TableTakes
    <2> QED
      BY <1>1, <2>1, TimesWord
  <1> QED
    BY <1>2, InEntry, TableEntryIs

TableNext(ps, r, c) ==
    Xor(IF ps.reflect_in THEN ShiftRight(r, 8) ELSE ShiftLeft(r, 8 - CrcShift(ps)),
        TableEntry(ps, 8, TableIdx(ps, 8, r, c)))
      \cap ShiftLeft(Mask(ps), CrcShift(ps))

LEMMA TableNextIs ==
    ASSUME NEW ps, Params(ps), NEW r \in Word, NEW c \in Octet
    PROVE  /\ TableDrivenOctet(ps, gen_table(ps, 8), r, c) = TableNext(ps, r, c)
           /\ TableNext(ps, r, c) \in Word
  <1>1. TableIdx(ps, 8, r, c) \in Octet
    BY InTableIdx DEF Octet
  <1>2. gen_table(ps, 8)[TableIdx(ps, 8, r, c)] = TableEntry(ps, 8, TableIdx(ps, 8, r, c))
    BY <1>1 DEF gen_table, Octet
  <1>5. TableNext(ps, r, c) \in Word
    <2>1. TableEntry(ps, 8, TableIdx(ps, 8, r, c)) \in Word
      BY <1>1, TableEntryWord DEF Octet
    <2>2. 8 - CrcShift(ps) \in Nat
      BY DEF CrcShift, Params, Generator
    <2>3. ShiftRight(r, 8) \in Word /\ ShiftLeft(r, 8 - CrcShift(ps)) \in Word
      BY <2>2, LeftWord, RightWord
    <2> QED
      BY <2>1, <2>3, XorWord, CapWord DEF TableNext
  <1>3. CASE ps.reflect_in
    <2> DEFINE i == Xor(ShiftRight(r, CrcShift(ps)), c) \cap Ones(8)
    <2>1. TableIdx(ps, 8, r, c) = i
      BY <1>3 DEF TableIdx
    <2>2. TableDrivenOctet(ps, gen_table(ps, 8), r, c)
            = Xor(ShiftRight(r, 8), gen_table(ps, 8)[i]) \cap ShiftLeft(Mask(ps), CrcShift(ps))
      BY <1>3, Zenon DEF TableDrivenOctet
    <2>3. TableNext(ps, r, c) = Xor(ShiftRight(r, 8), TableEntry(ps, 8, TableIdx(ps, 8, r, c)))
                                  \cap ShiftLeft(Mask(ps), CrcShift(ps))
      BY <1>3, Zenon DEF TableNext
    <2> HIDE DEF i
    <2> QED
      BY <1>2, <1>5, <2>1, <2>2, <2>3
  <1>4. CASE ~ ps.reflect_in
    <2> DEFINE i == Xor(ShiftRight(r, ps.width - 8 + CrcShift(ps)), c) \cap Ones(8)
    <2>1. TableIdx(ps, 8, r, c) = i
      BY <1>4 DEF TableIdx
    <2>2. TableDrivenOctet(ps, gen_table(ps, 8), r, c)
            = Xor(ShiftLeft(r, 8 - CrcShift(ps)), gen_table(ps, 8)[i])
                \cap ShiftLeft(Mask(ps), CrcShift(ps))
      BY <1>4, Zenon DEF TableDrivenOctet
    <2>3. TableNext(ps, r, c)
            = Xor(ShiftLeft(r, 8 - CrcShift(ps)), TableEntry(ps, 8, TableIdx(ps, 8, r, c)))
                \cap ShiftLeft(Mask(ps), CrcShift(ps))
      BY <1>4, Zenon DEF TableNext
    <2> HIDE DEF i
    <2> QED
      BY <1>2, <1>5, <2>1, <2>2, <2>3
  <1> QED
    BY <1>3, <1>4, <1>5

LEMMA InTableNext ==
    ASSUME NEW ps, Params(ps), NEW r \in Word, NEW c \in Octet, NEW x \in Int,
           x - CrcShift(ps) \in 0 .. ps.width - 1
    PROVE  x \in TableNext(ps, r, c)
             <=> ~ ((IF ps.reflect_in THEN x + 8 \in r ELSE x - 8 + CrcShift(ps) \in r)
                     <=> x \in TableEntry(ps, 8, TableIdx(ps, 8, r, c)))
  <1> DEFINE s == CrcShift(ps)
             e == TableEntry(ps, 8, TableIdx(ps, 8, r, c))
  <1>1. s \in Nat /\ 8 - s \in Nat /\ ps.width \in Nat
    BY DEF CrcShift, Params, Generator
  <1>2. Mask(ps) \in Word
    BY <1>1 DEF Mask, Ones, Word
  <1>m. Mask(ps) = 0 .. ps.width - 1
    BY DEF Mask, Ones
  <1> HIDE DEF s, e
  <1>3. x \in ShiftLeft(Mask(ps), s)
    <2>1. x \in ShiftLeft(Mask(ps), s) <=> x - s \in Mask(ps)
      BY <1>1, <1>2, InLeft
    <2> QED
      BY <1>m, <2>1 DEF s
  <1>4. x \in ShiftRight(r, 8) <=> x + 8 \in r
    <2>1. x >= 0
      BY <1>1 DEF s
    <2> QED
      BY <2>1, InRight
  <1>5. x \in ShiftLeft(r, 8 - s) <=> x - 8 + s \in r
    <2>1. x - (8 - s) = x - 8 + s /\ 8 - s \in Int
      BY <1>1
    <2>2. x \in ShiftLeft(r, 8 - s) <=> x - (8 - s) \in r
      BY <2>1, InLeft
    <2> QED
      BY <2>1, <2>2
  <1>6. TableNext(ps, r, c) = Xor(IF ps.reflect_in THEN ShiftRight(r, 8) ELSE ShiftLeft(r, 8 - s), e)
                                \cap ShiftLeft(Mask(ps), s)
    BY DEF TableNext, s, e
  <1>7. CASE ps.reflect_in
    BY <1>3, <1>4, <1>6, <1>7, InXor DEF s, e
  <1>8. CASE ~ ps.reflect_in
    BY <1>3, <1>5, <1>6, <1>8, InXor DEF s, e
  <1> QED
    BY <1>7, <1>8

\* A register that agrees with that of table_driven where its bits are still
\* to be used: above crc_shift if it is shifted right, below the highest bit of
\* the CRC if it is shifted left.
Near(ps, R, r) ==
    \A x \in Int : (IF ps.reflect_in THEN x >= CrcShift(ps) ELSE x < ps.width + CrcShift(ps))
                     => (x \in R <=> x \in Tabled(ps, r))

\* The n bits of o are those of c, or c has them the other way round.
Ordered(n, t, c, o) ==
    o \in SUBSET Ones(n) /\ \A x \in 0 .. n - 1 : x \in o <=> IF t THEN n - 1 - x \in c ELSE x \in c

\* The first word of an entry, indexed by a register and n bits.
LEMMA EntryBegins ==
    ASSUME NEW ps, Params(ps), NEW n \in 1 .. 8, NEW c, NEW o, Ordered(n, ps.reflect_in, c, o),
           NEW F, Steps(n, F, ps.width, ps.poly, o), NEW R \in Word, Near(ps, R, F[0])
    PROVE  Begins(n, EntryFirst(ps, n, TableIdx(ps, n, R, c)), F, ps.width, CrcShift(ps), o)
  <1> DEFINE w == ps.width
             s == CrcShift(ps)
             T == Tabled(ps, F[0])
             i == TableIdx(ps, n, R, c)
  <1>1. /\ w \in Nat \ {0} /\ s \in Nat /\ w + s >= 8 /\ w + s - n \in Nat
        /\ ps.reflect_in \in BOOLEAN
    BY ShiftBounds DEF Params
  <1>2. F[0] \in Word /\ F[0] \subseteq 0 .. w - 1 /\ F[0] \subseteq Ones(w)
    BY DEF Steps, Ones
  <1>3. /\ T \in Word
        /\ \A x \in Int : x \in T <=> IF ps.reflect_in
                                      THEN x - s \in 0 .. w - 1 /\ w - 1 - (x - s) \in F[0]
                                      ELSE x - s \in F[0]
    BY <1>2, InTabled
  <1>r. \A x \in Int : (IF ps.reflect_in THEN x >= s ELSE x < w + s) => (x \in R <=> x \in T)
    BY DEF Near
  <1>4. /\ o \subseteq 0 .. n - 1
        /\ \A x \in 0 .. n - 1 : x \in o <=> IF ps.reflect_in THEN n - 1 - x \in c ELSE x \in c
    BY DEF Ordered, Ones
  <1> HIDE DEF T
  <1>5. /\ i \in SUBSET Ones(n)
        /\ \A x \in Int :
             x \in i <=> /\ x \in 0 .. n - 1
                         /\ ~ (x + (IF ps.reflect_in THEN s ELSE w + s - n) \in R <=> x \in c)
    BY InTableIdx
  <1> HIDE DEF i
  <1>6. \A x \in Int :
          x \in EntryFirst(ps, n, i)
            <=> IF ps.reflect_in THEN n - 1 - (x - (w + s - n)) \in i ELSE x - (w + s - n) \in i
    BY <1>5, InEntryFirst
  <1> HIDE DEF w, s
  <1>7. ASSUME NEW x \in Int
        PROVE  x \in EntryFirst(ps, n, i) <=> /\ x \in w + s - n .. w + s - 1
                                              /\ ~ (x - s \in F[0] <=> x - (w + s - n) \in o)
    <2>1. PICK y \in Int : y = x - (w + s - n)
      BY <1>1
    <2>2. x \in w + s - n .. w + s - 1 <=> y \in 0 .. n - 1
      BY <1>1, <2>1
    <2>3. CASE ps.reflect_in
      <3>1. PICK z \in Int : z = n - 1 - y
        OBVIOUS
      <3>2. x \in EntryFirst(ps, n, i) <=> z \in i
        BY <1>6, <2>1, <2>3, <3>1
      <3>3. z \in i <=> z \in 0 .. n - 1 /\ ~ (z + s \in R <=> z \in c)
        BY <1>5, <2>3
      <3>4. z \in 0 .. n - 1 => (z + s \in R <=> z \in 0 .. w - 1 /\ x - s \in F[0])
        <4>1. PICK u \in Int : u = z + s
          BY <1>1
        <4>2. u \in T <=> u - s \in 0 .. w - 1 /\ w - 1 - (u - s) \in F[0]
          BY <1>3, <2>3
        <4>3. u - s = z /\ w - 1 - (u - s) = x - s
          BY <1>1, <2>1, <3>1, <4>1
        <4>4. u \in T <=> z \in 0 .. w - 1 /\ x - s \in F[0]
          BY ONLY <4>2, <4>3
        <4>5. z \in 0 .. n - 1 => u >= s
          BY <1>1, <4>1
        <4>6. u >= s => (u \in R <=> u \in T)
          BY <1>r, <2>3
        <4> QED
          BY <4>1, <4>4, <4>5, <4>6
      <3>6. z \in 0 .. n - 1 /\ x - s \in F[0] => z \in 0 .. w - 1
        <4>1. x - s \in F[0] => x - s \in 0 .. w - 1
          BY <1>2
        <4> QED
          BY <1>1, <2>1, <3>1, <4>1
      <3>7. y \in 0 .. n - 1 => (y \in o <=> z \in c)
        BY <1>4, <2>3, <3>1
      <3>8. z \in 0 .. n - 1 <=> y \in 0 .. n - 1
        BY <3>1
      <3> QED
        BY ONLY <2>1, <2>2, <3>2, <3>3, <3>6, <3>7, <3>8, <3>4
    <2>4. CASE ~ ps.reflect_in
      <3>1. x \in EntryFirst(ps, n, i) <=> y \in i
        BY <1>6, <2>1, <2>4
      <3>2. y \in i <=> y \in 0 .. n - 1 /\ ~ (y + (w + s - n) \in R <=> y \in c)
        BY <1>5, <2>4
      <3>3. y + (w + s - n) = x /\ (y \in 0 .. n - 1 => x < w + s)
        BY <1>1, <2>1
      <3>4. x \in T <=> x - s \in F[0]
        BY <1>3, <2>4
      <3>5. y \in 0 .. n - 1 => (y \in o <=> y \in c)
        BY <1>4, <2>4
      <3>6. x < w + s => (x \in R <=> x \in T)
        BY <1>r, <2>4
      <3> QED
        BY ONLY <2>1, <2>2, <3>1, <3>2, <3>3, <3>4, <3>5, <3>6
    <2> QED
      BY <2>3, <2>4
  <1> QED
    BY <1>7 DEF Begins, i, w, s

\* The entry is what n steps of the register make of its n highest bits and
\* those of the data.
LEMMA InEntryTaken ==
    ASSUME NEW ps, Params(ps), NEW n \in 1 .. 8, NEW c, NEW o, Ordered(n, ps.reflect_in, c, o),
           NEW F, Steps(n, F, ps.width, ps.poly, o), NEW R \in Word, Near(ps, R, F[0]),
           NEW x \in Int
    PROVE  x \in TableEntry(ps, n, TableIdx(ps, n, R, c))
             <=> /\ x - CrcShift(ps) \in 0 .. ps.width - 1
                 /\ ~ IF ps.reflect_in
                      THEN ps.width - 1 - (x - CrcShift(ps)) \in F[n]
                             <=> ps.width - 1 - (x - CrcShift(ps)) - n \in F[0]
                      ELSE x - CrcShift(ps) \in F[n] <=> x - CrcShift(ps) - n \in F[0]
  <1> DEFINE w == ps.width
             s == CrcShift(ps)
             i == TableIdx(ps, n, R, c)
             e == TableEntry(ps, n, i)
  <1>1. w \in Nat \ {0} /\ s \in Nat /\ w + s >= 8
    BY ShiftBounds
  <1>2. i \in SUBSET Ones(n) /\ o \in SUBSET Ones(n) /\ o \subseteq 0 .. n - 1
    BY InTableIdx DEF Ordered, Ones
  <1>3. PICK q : /\ Times(n, TablePass(ps, n), EntryFirst(ps, n, i)) = q[n] /\ q[n] \in Word
                 /\ Passed(n, q, n, F, w, s, o)
    <2>1. EntryFirst(ps, n, i) \in Word
      BY <1>2, InEntryFirst
    <2>2. Begins(n, EntryFirst(ps, n, i), F, w, s, o)
      BY EntryBegins
    <2> HIDE DEF i
    <2> QED
      BY <1>2, <2>1, <2>2, TablePasses
  <1>4. x \in e <=> /\ x - s \in 0 .. w - 1
                    /\ IF ps.reflect_in THEN w - 1 - (x - s) + s \in q[n] ELSE x \in q[n]
    <2>1. e = EntryOf(ps, q[n])
      BY <1>3, TableEntryIs
    <2> HIDE DEF e
    <2> QED
      BY <1>3, <2>1, InEntry
  <1> HIDE DEF w, s, i, e
  <1>5. ASSUME NEW y \in Int, y <= w + s - 1
        PROVE  y \in q[n] <=> ~ (y - s \in F[n] <=> y - n - s \in F[0])
    <2>1. y \in q[n] <=> ~ (y - s \in F[n] <=> ~ (y - (w + s - n + n) \in o
                                                 <=> y - n - s \in F[0] /\ y - n <= w + s - n - 1))
      BY <1>3, <1>5 DEF Passed
    <2>2. y - (w + s - n + n) < 0 /\ y - n <= w + s - n - 1
      BY <1>1, <1>5
    <2>3. ~ (y - (w + s - n + n) \in o)
      BY <1>1, <1>2, <2>2
    <2> QED
      BY ONLY <2>1, <2>2, <2>3
  <1>6. CASE ~ (x - s \in 0 .. w - 1)
    BY <1>4, <1>6 DEF e, w, s, i
  <1>7. CASE x - s \in 0 .. w - 1 /\ ps.reflect_in
    <2>1. PICK y \in Int : y = w - 1 - (x - s) + s
      BY <1>1
    <2>2. y <= w + s - 1 /\ y - s = w - 1 - (x - s) /\ y - n - s = w - 1 - (x - s) - n
      BY <1>1, <1>7, <2>1
    <2>3. y \in q[n] <=> ~ (w - 1 - (x - s) \in F[n] <=> w - 1 - (x - s) - n \in F[0])
      BY <1>5, <2>2
    <2>4. x \in e <=> ~ (w - 1 - (x - s) \in F[n] <=> w - 1 - (x - s) - n \in F[0])
      BY <1>4, <1>7, <2>1, <2>3
    <2> QED
      BY <1>7, <2>4 DEF e, w, s, i
  <1>8. CASE x - s \in 0 .. w - 1 /\ ~ ps.reflect_in
    <2>1. x <= w + s - 1 /\ x - n - s = x - s - n
      BY <1>1, <1>8
    <2>2. x \in e <=> ~ (x - s \in F[n] <=> x - s - n \in F[0])
      BY <1>4, <1>5, <1>8, <2>1
    <2> QED
      BY <1>8, <2>2 DEF e, w, s, i
  <1> QED
    BY <1>6, <1>7, <1>8

LEMMA TableNextBelow ==
    ASSUME NEW ps, Params(ps), NEW r, NEW c, NEW x \in Int, x \in TableNext(ps, r, c)
    PROVE  x - CrcShift(ps) \in 0 .. ps.width - 1
  <1>1. Mask(ps) \in Word /\ CrcShift(ps) \in Nat
    BY ShiftBounds DEF Mask, Ones, Word
  <1>2. Mask(ps) = 0 .. ps.width - 1
    BY DEF Mask, Ones
  <1>3. x \in ShiftLeft(Mask(ps), CrcShift(ps))
    BY DEF TableNext
  <1>4. x - CrcShift(ps) \in Mask(ps)
    BY <1>1, <1>3, InLeft
  <1> QED
    BY <1>2, <1>4

LEMMA OctetOrdered ==
    ASSUME NEW t \in BOOLEAN, NEW c \in Octet
    PROVE  Ordered(8, t, c, ReflectIf(t, c, 8))
  <1>1. /\ ReflectIf(t, c, 8) \in SUBSET Ones(8)
        /\ \A x \in Int : x \in ReflectIf(t, c, 8) <=> IF t THEN 7 - x \in c ELSE x \in c
    BY ReflectOctet DEF Octet
  <1>2. \A x \in 0 .. 8 - 1 : x \in Int /\ 8 - 1 - x = 7 - x
    OBVIOUS
  <1> QED
    BY <1>1, <1>2, Zenon DEF Ordered

LEMMA SteppingSteps ==
    ASSUME NEW F, NEW w, NEW poly, NEW o, Stepping(F, w, poly, o)
    PROVE  Steps(8, F, w, poly, o)
  <1>1. \A k \in 0 .. 8 - 1 : k \in 0 .. 7 /\ 8 - 1 - k = 7 - k
    OBVIOUS
  <1>2. \A k \in 0 .. 8 - 1 : F[k + 1] = Step(w, poly, F[k], 8 - 1 - k \in o)
    BY <1>1 DEF Stepping
  <1> QED
    BY <1>2 DEF Steps, Stepping

LEMMA TableSteps ==
    ASSUME NEW ps, Params(ps), NEW c \in Octet, NEW F,
           Stepping(F, ps.width, ps.poly, ReflectIf(ps.reflect_in, c, 8))
    PROVE  TableDrivenOctet(ps, gen_table(ps, 8), Tabled(ps, F[0]), c) = Tabled(ps, F[8])
  <1> DEFINE w == ps.width
             s == CrcShift(ps)
             o == ReflectIf(ps.reflect_in, c, 8)
             T == Tabled(ps, F[0])
             i == TableIdx(ps, 8, T, c)
             e == TableEntry(ps, 8, i)
             N == TableNext(ps, T, c)
             U == Tabled(ps, F[8])
  <1>1. /\ w \in Nat \ {0} /\ s \in Nat /\ w + s >= 8 /\ ps.reflect_in \in BOOLEAN
        /\ s # 0 => w + s = 8
    BY ShiftBounds DEF Params
  <1>2. /\ F[0] \in Word /\ F[0] \subseteq 0 .. w - 1 /\ F[0] \subseteq Ones(w)
        /\ F[8] \in Word /\ F[8] \subseteq 0 .. w - 1 /\ F[8] \subseteq Ones(w)
    BY DEF Stepping, Ones
  <1>3. /\ T \in Word /\ U \in Word
        /\ \A x \in Int : x \in T <=> IF ps.reflect_in
                                      THEN x - s \in 0 .. w - 1 /\ w - 1 - (x - s) \in F[0]
                                      ELSE x - s \in F[0]
        /\ \A x \in Int : x \in U <=> IF ps.reflect_in
                                      THEN x - s \in 0 .. w - 1 /\ w - 1 - (x - s) \in F[8]
                                      ELSE x - s \in F[8]
    BY <1>2, InTabled
  <1>4. o \in Octet /\ o \subseteq 0 .. 7
    BY <1>1, ReflectOctet DEF Octet, Ones
  <1>5. /\ TableDrivenOctet(ps, gen_table(ps, 8), T, c) = N /\ N \in Word
    BY <1>3, TableNextIs
  <1>6. Near(ps, T, F[0]) /\ Ordered(8, ps.reflect_in, c, o) /\ Steps(8, F, w, ps.poly, o)
    BY <1>1, OctetOrdered, SteppingSteps DEF Near
  <1>7. \A x \in Int : x \in e <=> /\ x - s \in 0 .. w - 1
                                   /\ ~ IF ps.reflect_in
                                        THEN w - 1 - (x - s) \in F[8] <=> w - 1 - (x - s) - 8 \in F[0]
                                        ELSE x - s \in F[8] <=> x - s - 8 \in F[0]
    <2>1. 8 \in 1 .. 8
      OBVIOUS
    <2> HIDE DEF T, o
    <2> QED
      BY <1>3, <1>6, <2>1, InEntryTaken
  <1>9. ASSUME NEW x \in Int, x - s \in 0 .. w - 1
        PROVE  x \in N <=> ~ ((IF ps.reflect_in THEN x + 8 \in T ELSE x - 8 + s \in T) <=> x \in e)
    BY <1>3, <1>9, InTableNext
  <1>10. ASSUME NEW x \in Int, x \in N \/ x \in U PROVE x - s \in 0 .. w - 1
    <2>1. CASE x \in N
      BY <2>1, TableNextBelow
    <2>2. CASE x \in U
      BY <1>1, <1>2, <1>3, <2>2
    <2> QED
      BY <1>10, <2>1, <2>2
  <1> HIDE DEF w, s, o, T, i, e, N, U
  <1>11. ASSUME NEW x \in Nat, x - s \in 0 .. w - 1
         PROVE  x \in N <=> x \in U
    <2>1. CASE ps.reflect_in
      <3>1. PICK z \in Int : z = x + 8
        BY <1>1
      <3>2. w - 1 - (x - s) - 8 = w - 1 - (z - s)
        BY <1>1, <3>1
      <3>5. x \in e <=> ~ (w - 1 - (x - s) \in F[8] <=> w - 1 - (z - s) \in F[0])
        BY <1>7, <1>11, <2>1, <3>2
      <3>6. z \in T <=> z - s \in 0 .. w - 1 /\ w - 1 - (z - s) \in F[0]
        BY <1>3, <2>1
      <3>7. x \in N <=> ~ (z \in T <=> x \in e)
        BY <1>9, <1>11, <2>1, <3>1
      <3>8. x \in U <=> w - 1 - (x - s) \in F[8]
        BY <1>3, <1>11, <2>1
      <3>9. w - 1 - (z - s) \in F[0] => z - s \in 0 .. w - 1
        <4>1. ASSUME w - 1 - (z - s) \in 0 .. w - 1 PROVE z - s \in 0 .. w - 1
          BY <1>1, <1>11, <3>1, <4>1
        <4> QED
          BY <1>2, <4>1
      <3> QED
        BY ONLY <3>5, <3>6, <3>7, <3>8, <3>9
    <2>2. CASE ~ ps.reflect_in
      <3>1. x <= w + s - 1 /\ x - s - 8 = x - 8 - s
        BY <1>1, <1>11
      <3>2. x \in e <=> ~ (x - s \in F[8] <=> x - 8 - s \in F[0])
        BY <1>7, <1>11, <2>2, <3>1
      <3>4. PICK z \in Int : z = x - 8 + s
        BY <1>1
      <3>5. z \in T <=> z - s \in F[0]
        BY <1>3, <2>2
      <3>6. x \in N <=> ~ (z \in T <=> x \in e)
        BY <1>9, <1>11, <2>2, <3>4
      <3>7. x \in U <=> x - s \in F[8]
        BY <1>3, <2>2
      <3>8. z - s \in F[0] <=> x - 8 - s \in F[0]
        <4>1. CASE s = 0
          BY <3>4, <4>1
        <4>2. CASE s # 0
          <5>1. z - s < 0 /\ x - 8 - s < 0
            BY <1>1, <3>1, <3>4, <4>2
          <5> QED
            BY <1>2, <5>1
        <4> QED
          BY <4>1, <4>2
      <3> QED
        BY ONLY <3>2, <3>5, <3>6, <3>7, <3>8
    <2> QED
      BY <2>1, <2>2
  <1>12. \A x \in Nat : x \in N <=> x \in U
    BY <1>10, <1>11
  <1>13. N = U
    BY <1>3, <1>5, <1>12, SameWord
  <1> QED
    BY <1>5, <1>13 DEF T, U

\* Where table_driven starts and what it returns.
LEMMA TableEnds ==
    ASSUME NEW ps, Params(ps)
    PROVE  /\ TableInit(ps) = Tabled(ps, ps.xor_in)
           /\ \A r \in Word : r \subseteq Ones(ps.width)
                => TableDrivenEnd(ps, Tabled(ps, r)) = Finish(ps, r)
  <1> DEFINE w == ps.width
             s == CrcShift(ps)
  <1>1. w \in Nat /\ s \in Nat /\ w + s \in Nat
    BY ShiftBounds
  <1>2. TableInit(ps) = Tabled(ps, ps.xor_in)
    <2> DEFINE a == ps.xor_in
               v == ShiftLeft(a, s)
    <2>1. a \in Word /\ a \subseteq 0 .. w - 1
      BY DEF Params, Ones
    <2>2. TableInit(ps) = IF ps.reflect_in THEN ShiftLeft(reflect(v, w + s), s) ELSE v
      BY DEF TableInit
    <2>3. reflect(v, w + s) = reflect(a, w)
      <3> HIDE DEF w, s, a
      <3>1. v \in Word /\ \A x \in Int : x \in v <=> x - s \in a
        BY <1>1, <2>1, LeftWord, InLeft
      <3> HIDE DEF v
      <3>2. reflect(v, w + s) \in Word /\ reflect(a, w) \in Word
        BY <1>1, <2>1, <3>1, ReflectWord
      <3>3. ASSUME NEW x \in Nat PROVE x \in reflect(v, w + s) <=> x \in reflect(a, w)
        <4>1. x \in reflect(v, w + s) <=> x \in 0 .. w + s - 1 /\ w + s - 1 - x \in v
          BY <1>1, <3>1, InReflect
        <4>2. x \in reflect(a, w) <=> x \in 0 .. w - 1 /\ w - 1 - x \in a
          BY <1>1, <2>1, InReflect
        <4>3. w + s - 1 - x \in v <=> w - 1 - x \in a
          <5>1. PICK y \in Int : y = w + s - 1 - x
            BY <1>1
          <5>2. y - s = w - 1 - x
            BY <1>1, <5>1
          <5>3. y \in v <=> w - 1 - x \in a
            BY <3>1, <5>2
          <5> QED
            BY <5>1, <5>3
        <4>4. w - 1 - x \in a => x \in 0 .. w - 1
          <5>1. ASSUME w - 1 - x \in 0 .. w - 1 PROVE x \in 0 .. w - 1
            BY <1>1, <5>1
          <5> QED
            BY <2>1, <5>1
        <4>5. x \in 0 .. w - 1 => x \in 0 .. w + s - 1
          BY <1>1
        <4> QED
          BY ONLY <4>1, <4>2, <4>3, <4>4, <4>5
      <3> QED
        BY <3>2, <3>3, SameWord
    <2> QED
      BY <2>2, <2>3 DEF Tabled
  <1>3. ASSUME NEW r \in Word, r \subseteq Ones(w)
        PROVE  TableDrivenEnd(ps, Tabled(ps, r)) = Finish(ps, r)
    <2> DEFINE T == Tabled(ps, r)
    <2>1. /\ T \in Word
          /\ \A x \in Int : x \in T <=> IF ps.reflect_in
                                        THEN x - s \in 0 .. w - 1 /\ w - 1 - (x - s) \in r
                                        ELSE x - s \in r
      BY <1>3, InTabled
    <2>2. r \subseteq 0 .. w - 1
      BY <1>3 DEF Ones
    <2>m. Mask(ps) = 0 .. w - 1
      BY DEF Mask, Ones
    <2>3. TableDrivenEnd(ps, T)
            = Finish(ps, IF ps.reflect_in THEN reflect(T, w + s) \cap Mask(ps) ELSE ShiftRight(T, s))
      BY Zenon DEF TableDrivenEnd
    <2> HIDE DEF T, w, s
    <2>4. reflect(T, w + s) \in Word /\ ShiftRight(T, s) \in Word
          /\ reflect(T, w + s) \cap Mask(ps) \in Word
      BY <1>1, <2>1, ReflectWord, RightWord, CapWord
    <2>5. CASE ps.reflect_in
      <3>1. ASSUME NEW x \in Nat PROVE x \in reflect(T, w + s) \cap Mask(ps) <=> x \in r
        <4>1. x \in reflect(T, w + s) <=> x \in 0 .. w + s - 1 /\ w + s - 1 - x \in T
          BY <1>1, <2>1, InReflect
        <4>2. PICK y \in Int : y = w + s - 1 - x
          BY <1>1
        <4>3. y - s = w - 1 - x /\ w - 1 - (y - s) = x
          BY <1>1, <4>2
        <4>4. y \in T <=> y - s \in 0 .. w - 1 /\ w - 1 - (y - s) \in r
          BY <2>1, <2>5
        <4>5. y \in T <=> w - 1 - x \in 0 .. w - 1 /\ x \in r
          BY ONLY <4>3, <4>4
        <4>6. x \in r => x \in 0 .. w - 1 /\ w - 1 - x \in 0 .. w - 1 /\ x \in 0 .. w + s - 1
          BY <1>1, <2>2
        <4>7. x \in 0 .. w - 1 => w - 1 - x \in 0 .. w - 1
          BY <1>1
        <4>8. x \in reflect(T, w + s) <=> x \in 0 .. w + s - 1 /\ y \in T
          BY <4>1, <4>2
        <4> QED
          BY <2>m, <4>5, <4>6, <4>7, <4>8
      <3>2. reflect(T, w + s) \cap Mask(ps) = r
        BY <2>4, <3>1, SameWord
      <3> QED
        BY <2>3, <2>5, <3>2 DEF T
    <2>6. CASE ~ ps.reflect_in
      <3>1. ASSUME NEW x \in Nat PROVE x \in ShiftRight(T, s) <=> x \in r
        <4>1. x \in ShiftRight(T, s) <=> x >= 0 /\ x + s \in T
          BY <1>1, <2>1, InRight
        <4>2. PICK y \in Int : y = x + s
          BY <1>1
        <4>3. y \in T <=> y - s \in r
          BY <2>1, <2>6
        <4>4. y - s = x /\ x >= 0
          BY <1>1, <4>2
        <4>5. x \in ShiftRight(T, s) <=> y \in T
          BY <4>1, <4>2, <4>4
        <4> QED
          BY ONLY <4>3, <4>4, <4>5
      <3>2. ShiftRight(T, s) = r
        BY <2>4, <3>1, SameWord
      <3> QED
        BY <2>3, <2>6, <3>2 DEF T
    <2> QED
      BY <2>5, <2>6 DEF Params
  <1> QED
    BY <1>2, <1>3

-----------------------------------------------------------------------------
(***************************************************************************)
(* bit_by_bit is width bits behind: its register leads to the remainder    *)
(* when the augmented bits have passed.                                    *)
(***************************************************************************)
BitOf(t) == IF t THEN {0} ELSE {}

BitPass(ps, o) ==
    [i \in 0 .. 7 |-> [r \in Word |-> BitByBitBit(ps, r, IF 7 - i \in o THEN {0} ELSE {})]]

EndPass(ps) == [i \in 0 .. ps.width - 1 |-> [r \in Word |-> BitByBitBit(ps, r, {})]]

Leads(ps, B, F) == Times(ps.width, EndPass(ps), B) = F

LEMMA InBit ==
    ASSUME NEW ps, Params(ps), NEW r \in Word, NEW t \in BOOLEAN
    PROVE  /\ BitByBitBit(ps, r, BitOf(t)) \in Word
           /\ BitByBitBit(ps, r, BitOf(t)) \subseteq Ones(ps.width)
           /\ \A x \in Int :
                x \in BitByBitBit(ps, r, BitOf(t))
                  <=> ~ ((x \in 0 .. ps.width - 1 /\ x - 1 \in r) \/ (t /\ x = 0)
                          <=> ps.width - 1 \in r /\ x \in ps.poly)
  <1> DEFINE w == ps.width
             v == (ShiftLeft(r, 1) \cap Mask(ps)) \cup BitOf(t)
             b == MSB(ps) \in r
  <1>1. w \in Nat \ {0} /\ ps.poly \in Word /\ ps.poly \subseteq 0 .. w - 1 /\ Mask(ps) = 0 .. w - 1
    BY DEF Params, Generator, Mask, Ones
  <1>2. BitByBitBit(ps, r, BitOf(t)) = XorIf(b, v, ps.poly)
    BY DEF BitByBitBit
  <1>3. v \subseteq 0 .. w - 1 /\ v \in Word
    <2>1. BitOf(t) \subseteq 0 .. w - 1
      BY <1>1 DEF BitOf
    <2>2. v \subseteq 0 .. w - 1
      BY <1>1, <2>1
    <2> HIDE DEF v
    <2> QED
      BY <1>1, <2>2 DEF Word
  <1>4. \A x \in Int : x \in v <=> (x \in 0 .. w - 1 /\ x - 1 \in r) \/ (t /\ x = 0)
    <2>1. \A x \in Int : x \in ShiftLeft(r, 1) <=> x - 1 \in r
      BY InLeft
    <2>2. \A x \in Int : x \in BitOf(t) <=> t /\ x = 0
      BY DEF BitOf
    <2>3. \A x : x \in v <=> (x \in ShiftLeft(r, 1) /\ x \in Mask(ps)) \/ x \in BitOf(t)
      OBVIOUS
    <2> HIDE DEF v
    <2> QED
      BY <1>1, <2>1, <2>2, <2>3
  <1>5. b \in BOOLEAN /\ (b <=> w - 1 \in r)
    BY DEF MSB
  <1> HIDE DEF v, b
  <1>6. \A x : x \in XorIf(b, v, ps.poly) <=> ~ (x \in v <=> b /\ x \in ps.poly)
    BY <1>5, InXorIf
  <1>7. XorIf(b, v, ps.poly) \in Word
    BY <1>1, <1>3, <1>5, XorIfWord
  <1>8. XorIf(b, v, ps.poly) \subseteq 0 .. w - 1
    BY <1>1, <1>3, <1>6
  <1> QED
    BY <1>2, <1>4, <1>5, <1>6, <1>7, <1>8 DEF Ones

LEMMA EndTakes ==
    ASSUME NEW ps, Params(ps)
    PROVE  /\ ps.width \in Nat \ {0}
           /\ Takes(ps.width, EndPass(ps))
           /\ \A i \in 0 .. ps.width - 1, r \in Word :
                EndPass(ps)[i][r] = BitByBitBit(ps, r, BitOf(FALSE))
  <1>1. \A r \in Word : BitByBitBit(ps, r, {}) \in Word
    BY InBit DEF BitOf
  <1>2. \A i \in 0 .. ps.width - 1 : EndPass(ps)[i] = [r \in Word |-> BitByBitBit(ps, r, {})]
    BY DEF EndPass
  <1>3. \A i \in 0 .. ps.width - 1 : EndPass(ps)[i] \in [Word -> Word]
    BY <1>1, <1>2
  <1> QED
    BY <1>2, <1>3 DEF Takes, Params, Generator, BitOf

LEMMA LeadsStep ==
    ASSUME NEW ps, Params(ps), NEW B \in Word, NEW F, Leads(ps, B, F), NEW t \in BOOLEAN
    PROVE  /\ F \in Word
           /\ Leads(ps, BitByBitBit(ps, B, BitOf(t)), Step(ps.width, ps.poly, F, t))
  <1> DEFINE w == ps.width
             g == ps.poly
             f == EndPass(ps)
             Z(r) == BitByBitBit(ps, r, BitOf(FALSE))
             C == BitByBitBit(ps, B, BitOf(t))
             S == Step(w, g, F, t)
  <1>1. /\ w \in Nat \ {0} /\ w \in Nat /\ Takes(w, f) /\ g \in Word /\ g \subseteq 0 .. w - 1
        /\ Generator(w, g)
        /\ \A i \in 0 .. w - 1, r \in Word : f[i][r] = Z(r)
    BY EndTakes DEF Params, Generator, Ones
  <1>2. ASSUME NEW r \in Word
        PROVE  /\ Z(r) \in Word
               /\ \A x \in Int : x \in Z(r) <=> ~ (x \in 0 .. w - 1 /\ x - 1 \in r <=> w - 1 \in r /\ x \in g)
    <2>1. PICK u \in BOOLEAN : u = FALSE
      OBVIOUS
    <2>2. /\ BitByBitBit(ps, r, BitOf(u)) \in Word
          /\ \A x \in Int :
               x \in BitByBitBit(ps, r, BitOf(u))
                 <=> ~ ((x \in 0 .. w - 1 /\ x - 1 \in r) \/ (u /\ x = 0) <=> w - 1 \in r /\ x \in g)
      BY InBit
    <2>3. Z(r) = BitByBitBit(ps, r, BitOf(u))
      BY <2>1
    <2> HIDE DEF Z
    <2> QED
      BY <2>1, <2>2, <2>3
  <1>3. /\ C \in Word
        /\ \A x \in Int : x \in C <=> ~ ((x \in 0 .. w - 1 /\ x - 1 \in B) \/ (t /\ x = 0)
                                          <=> w - 1 \in B /\ x \in g)
    BY InBit
  <1>4. PICK z : Iterates(z, w, f, B) /\ Times(w, f, B) = z[w]
    BY <1>1, TimesIterates
  <1>5. F = z[w]
    BY <1>4 DEF Leads
  <1> HIDE DEF f, Z, C, w, g
  <1>6. /\ z \in [0 .. w -> Word] /\ z[0] = B
        /\ \A i \in 0 .. w - 1 : z[i + 1] = Z(z[i])
    <2>1. ASSUME NEW i \in 0 .. w - 1 PROVE z[i + 1] = Z(z[i])
      <3>1. i \in 0 .. w /\ z[i] \in Word /\ z[i + 1] = f[i][z[i]]
        BY <1>1, <1>4 DEF Iterates
      <3> QED
        BY <1>1, <3>1
    <2> QED
      BY <1>4, <2>1 DEF Iterates
  <1>7. F \in Word
    BY <1>1, <1>5, <1>6
  <1>8. /\ S \in Word
        /\ \A x \in Int : x \in S <=> /\ x \in 0 .. w - 1
                                      /\ ~ (x - 1 \in F <=> ~ (w - 1 \in F <=> t) /\ x \in g)
    BY <1>1, <1>7, StepWord, InStep
  <1> HIDE DEF S
  <1> DEFINE y == [i \in 0 .. w |-> IF i = w THEN S ELSE XorIf(t, z[i + 1], {i})]
  <1>9. ASSUME NEW i \in 0 .. w - 1
        PROVE  /\ y[i] \in Word /\ z[i + 1] \in Word
               /\ \A x \in Int : x \in y[i] <=> ~ (x \in z[i + 1] <=> t /\ x = i)
    <2>1. i \in 0 .. w /\ i # w /\ i + 1 \in 0 .. w /\ i \in Nat
      BY <1>1
    <2>2. y[i] = XorIf(t, z[i + 1], {i}) /\ z[i + 1] \in Word /\ {i} \in Word
      BY <1>6, <2>1 DEF Word
    <2> HIDE DEF y
    <2>3. y[i] \in Word
      BY <2>2, XorIfWord
    <2>4. \A x \in Int : x \in y[i] <=> ~ (x \in z[i + 1] <=> t /\ x = i)
      BY <2>2, InXorIf
    <2> QED
      BY <2>2, <2>3, <2>4
  <1>10. y[w] = S /\ y = [i \in 0 .. w |-> y[i]]
    BY <1>1
  <1> HIDE DEF y
  <1>11. y \in [0 .. w -> Word]
    <2>1. \A i \in 0 .. w : i = w \/ i \in 0 .. w - 1
      BY <1>1
    <2>2. \A i \in 0 .. w : y[i] \in Word
      BY <1>8, <1>9, <1>10, <2>1
    <2> QED
      BY <1>10, <2>2
  <1>12. y[0] = C
    <2>1. 0 \in 0 .. w - 1 /\ 0 + 1 = 1
      BY <1>1
    <2>2. z[1] = Z(B)
      BY <1>6, <2>1
    <2>3. ASSUME NEW x \in Nat PROVE x \in y[0] <=> x \in C
      <3>1. x \in y[0] <=> ~ (x \in Z(B) <=> t /\ x = 0)
        BY <1>9, <2>1, <2>2
      <3>2. x \in Z(B) <=> ~ (x \in 0 .. w - 1 /\ x - 1 \in B <=> w - 1 \in B /\ x \in g)
        BY <1>2
      <3>3. x \in C <=> ~ ((x \in 0 .. w - 1 /\ x - 1 \in B) \/ (t /\ x = 0)
                            <=> w - 1 \in B /\ x \in g)
        BY <1>3
      <3>4. x = 0 => ~ (x - 1 \in B)
        BY DEF Word
      <3> QED
        BY <3>1, <3>2, <3>3, <3>4
    <2> QED
      BY <1>3, <1>9, <2>1, <2>3, SameWord
  <1>13. ASSUME NEW i \in 0 .. w - 1 PROVE y[i + 1] = Z(y[i])
    <2>1. y[i] \in Word /\ z[i + 1] \in Word /\ Z(y[i]) \in Word
      BY <1>2, <1>9
    <2>2. i + 1 \in 0 .. w /\ y[i + 1] \in Word
      BY <1>1, <1>11
    <2>3. ASSUME NEW x \in Nat PROVE x \in y[i + 1] <=> x \in Z(y[i])
      <3>1. x \in Z(y[i]) <=> ~ (x \in 0 .. w - 1 /\ x - 1 \in y[i] <=> w - 1 \in y[i] /\ x \in g)
        BY <1>2, <2>1
      <3>2. x - 1 \in y[i] <=> ~ (x - 1 \in z[i + 1] <=> t /\ x - 1 = i)
        BY <1>9
      <3>3. w - 1 \in y[i] <=> ~ (w - 1 \in z[i + 1] <=> t /\ w - 1 = i)
        <4>1. w - 1 \in Int
          BY <1>1
        <4> QED
          BY <1>9, <4>1
      <3>4. CASE i + 1 = w
        <4>1. y[i + 1] = S /\ z[i + 1] = F
          BY <1>5, <1>10, <3>4
        <4>2. x \in S <=> /\ x \in 0 .. w - 1
                          /\ ~ (x - 1 \in F <=> ~ (w - 1 \in F <=> t) /\ x \in g)
          BY <1>8
        <4>3. w - 1 = i /\ (x \in 0 .. w - 1 => x - 1 # i)
          BY <1>1, <3>4
        <4>4. x \in g => x \in 0 .. w - 1
          BY <1>1
        <4> QED
          BY ONLY <3>1, <3>2, <3>3, <4>1, <4>2, <4>3, <4>4
      <3>5. CASE i + 1 # w
        <4>1. i + 1 \in 0 .. w - 1 /\ w - 1 # i
          BY <1>1, <3>5
        <4>2. x \in y[i + 1] <=> ~ (x \in z[(i + 1) + 1] <=> t /\ x = i + 1)
          BY <1>9, <4>1
        <4>3. z[(i + 1) + 1] = Z(z[i + 1])
          BY <1>6, <4>1
        <4>4. x \in Z(z[i + 1])
                <=> ~ (x \in 0 .. w - 1 /\ x - 1 \in z[i + 1] <=> w - 1 \in z[i + 1] /\ x \in g)
          BY <1>2, <2>1
        <4>5. (x = i + 1 <=> x - 1 = i) /\ (x = i + 1 => x \in 0 .. w - 1)
          BY <4>1
        <4> QED
          BY ONLY <3>1, <3>2, <3>3, <4>1, <4>2, <4>3, <4>4, <4>5
      <3> QED
        BY <3>4, <3>5
    <2> QED
      BY <2>1, <2>2, <2>3, SameWord
  <1>14. Iterates(y, w, f, C)
    <2>1. ASSUME NEW i \in 0 .. w - 1 PROVE y[i + 1] = f[i][y[i]]
      BY <1>1, <1>9, <1>13
    <2> QED
      BY <1>11, <1>12, <2>1 DEF Iterates
  <1>15. Times(w, f, C) = S
    BY <1>1, <1>3, <1>10, <1>14, TimesIs
  <1> QED
    BY <1>7, <1>15 DEF Leads, S, C, f, w, g

LEMMA BitTakes ==
    ASSUME NEW ps, Params(ps), NEW o
    PROVE  /\ Takes(8, BitPass(ps, o))
           /\ \A i \in 0 .. 7, r \in Word :
                BitPass(ps, o)[i][r] = BitByBitBit(ps, r, BitOf(7 - i \in o))
  <1>1. ASSUME NEW i \in 0 .. 7
        PROVE  /\ BitPass(ps, o)[i] \in [Word -> Word]
               /\ \A r \in Word : BitPass(ps, o)[i][r] = BitByBitBit(ps, r, BitOf(7 - i \in o))
    <2> DEFINE b == 7 - i \in o
    <2>1. BitOf(b) = IF 7 - i \in o THEN {0} ELSE {}
      BY DEF BitOf
    <2>2. BitPass(ps, o)[i] = [r \in Word |-> BitByBitBit(ps, r, BitOf(b))]
      BY <2>1 DEF BitPass
    <2>3. b \in BOOLEAN
      OBVIOUS
    <2> HIDE DEF b
    <2>4. \A r \in Word : BitByBitBit(ps, r, BitOf(b)) \in Word
      BY <2>3, InBit
    <2>5. /\ BitPass(ps, o)[i] \in [Word -> Word]
          /\ \A r \in Word : BitPass(ps, o)[i][r] = BitByBitBit(ps, r, BitOf(b))
      BY <2>2, <2>4
    <2> QED
      BY <2>5 DEF b
  <1>2. Takes(8, BitPass(ps, o))
    <2>1. \A i \in 0 .. 8 - 1 : i \in 0 .. 7
      OBVIOUS
    <2> QED
      BY <1>1, <2>1 DEF Takes
  <1> QED
    BY <1>1, <1>2, Zenon

LEMMA BitSteps ==
    ASSUME NEW ps, Params(ps), NEW c \in Octet, NEW F,
           Stepping(F, ps.width, ps.poly, ReflectIf(ps.reflect_in, c, 8)),
           NEW B \in Word
    PROVE  /\ BitByBitOctet(ps, B, c) \in Word
           /\ Leads(ps, B, F[0]) => Leads(ps, BitByBitOctet(ps, B, c), F[8])
  <1> DEFINE o == ReflectIf(ps.reflect_in, c, 8)
             f == BitPass(ps, o)
  <1>1. BitByBitOctet(ps, B, c) = Times(8, f, B)
    BY Zenon DEF BitByBitOctet, BitPass
  <1>2. \A k \in 0 .. 7 : F[k + 1] = Step(ps.width, ps.poly, F[k], 7 - k \in o)
    BY DEF Stepping
  <1> HIDE DEF o
  <1>3. PICK q : Iterates(q, 8, f, B) /\ Times(8, f, B) = q[8]
    BY BitTakes, TimesIterates
  <1>4. q \in [0 .. 8 -> Word] /\ q[0] = B /\ \A i \in 0 .. 7 : q[i + 1] = f[i][q[i]]
    BY <1>3 DEF Iterates
  <1> SUFFICES ASSUME Leads(ps, B, F[0]) PROVE Leads(ps, q[8], F[8])
    BY <1>1, <1>3, <1>4
  <1> DEFINE G == {k \in Nat : k <= 8 => Leads(ps, q[k], F[k])}
  <1>5. 0 \in G
    BY <1>4
  <1>6. ASSUME NEW k \in Nat, k \in G PROVE k + 1 \in G
    <2> SUFFICES ASSUME k + 1 <= 8 PROVE Leads(ps, q[k + 1], F[k + 1])
      OBVIOUS
    <2> DEFINE b == 7 - k \in o
    <2>1. k \in 0 .. 7 /\ k \in 0 .. 8 /\ Leads(ps, q[k], F[k])
      BY <1>6
    <2>2. q[k] \in Word /\ q[k + 1] = BitByBitBit(ps, q[k], BitOf(b))
      BY <1>4, <2>1, BitTakes
    <2>3. F[k + 1] = Step(ps.width, ps.poly, F[k], b) /\ b \in BOOLEAN
      BY <1>2, <2>1
    <2> HIDE DEF b
    <2> QED
      BY <2>1, <2>2, <2>3, LeadsStep
  <1>7. 8 \in G
    <2> HIDE DEF G
    <2> QED
      BY <1>5, <1>6, SetInduction
  <1> QED
    BY <1>7

\* __get_nondirect_init turns a step of the register back.
BackPass(ps) ==
    [i \in 0 .. ps.width - 1 |-> [crc_ \in Word |->
        IF 0 \in crc_ THEN ShiftRight(Xor(crc_, ps.poly), 1) \cup {MSB(ps)}
                      ELSE ShiftRight(crc_, 1)]]

Turned(ps, r) ==
    IF 0 \in r THEN ShiftRight(Xor(r, ps.poly), 1) \cup {MSB(ps)} ELSE ShiftRight(r, 1)

LEMMA InTurned ==
    ASSUME NEW ps, Params(ps), NEW r \in Word
    PROVE  /\ Turned(ps, r) \in Word
           /\ \A x \in Int :
                x \in Turned(ps, r)
                  <=> IF 0 \in r
                      THEN (x >= 0 /\ ~ (x + 1 \in r <=> x + 1 \in ps.poly)) \/ x = ps.width - 1
                      ELSE x >= 0 /\ x + 1 \in r
  <1> DEFINE v == Xor(r, ps.poly)
             w == ps.width
  <1>1. w \in Nat \ {0} /\ ps.poly \in Word /\ v \in Word
    BY XorWord DEF Params, Generator
  <1>2. \A x \in Int : x + 1 \in v <=> ~ (x + 1 \in r <=> x + 1 \in ps.poly)
    BY InXor
  <1> HIDE DEF v
  <1>3. ShiftRight(v, 1) \in Word /\ ShiftRight(r, 1) \in Word
    BY <1>1, RightWord
  <1>4. \A x \in Int : /\ x \in ShiftRight(v, 1) <=> x >= 0 /\ x + 1 \in v
                       /\ x \in ShiftRight(r, 1) <=> x >= 0 /\ x + 1 \in r
    BY <1>1, InRight
  <1>5. Turned(ps, r) = IF 0 \in r THEN ShiftRight(v, 1) \cup {w - 1} ELSE ShiftRight(r, 1)
    BY DEF Turned, v, MSB
  <1>6. w - 1 \in Nat
    BY <1>1
  <1> HIDE DEF w
  <1>7. Turned(ps, r) \in Word
    BY <1>3, <1>5, <1>6 DEF Word
  <1>8. \A x \in Int : x \in Turned(ps, r)
                  <=> IF 0 \in r
                      THEN (x >= 0 /\ ~ (x + 1 \in r <=> x + 1 \in ps.poly)) \/ x = w - 1
                      ELSE x >= 0 /\ x + 1 \in r
    BY <1>2, <1>4, <1>5
  <1> QED
    BY <1>7, <1>8 DEF w

LEMMA TurnedBack ==
    ASSUME NEW ps, Params(ps), NEW r \in Word, r \subseteq Ones(ps.width)
    PROVE  /\ Turned(ps, r) \subseteq Ones(ps.width)
           /\ r = {} => Turned(ps, r) = {}
           /\ 0 \in ps.poly \/ r = {} => BitByBitBit(ps, Turned(ps, r), BitOf(FALSE)) = r
  <1> DEFINE w == ps.width
             g == ps.poly
             T == Turned(ps, r)
             Z == BitByBitBit(ps, T, BitOf(FALSE))
  <1>1. w \in Nat \ {0} /\ g \subseteq 0 .. w - 1 /\ r \subseteq 0 .. w - 1
    BY DEF Params, Generator, Ones
  <1>2. /\ T \in Word
        /\ \A x \in Int : x \in T <=> IF 0 \in r
                      THEN (x >= 0 /\ ~ (x + 1 \in r <=> x + 1 \in g)) \/ x = w - 1
                      ELSE x >= 0 /\ x + 1 \in r
    BY InTurned
  <1>3. /\ Z \in Word
        /\ \A x \in Int : x \in Z <=> ~ (x \in 0 .. w - 1 /\ x - 1 \in T <=> w - 1 \in T /\ x \in g)
    <2>1. PICK u \in BOOLEAN : u = FALSE
      OBVIOUS
    <2>2. Z = BitByBitBit(ps, T, BitOf(u))
      BY <2>1
    <2> HIDE DEF T, Z
    <2>3. /\ BitByBitBit(ps, T, BitOf(u)) \in Word
          /\ \A x \in Int :
               x \in BitByBitBit(ps, T, BitOf(u))
                 <=> ~ ((x \in 0 .. w - 1 /\ x - 1 \in T) \/ (u /\ x = 0) <=> w - 1 \in T /\ x \in g)
      BY <1>2, InBit
    <2> QED
      BY <2>1, <2>2, <2>3
  <1> HIDE DEF T, Z, w, g
  <1>4. T \subseteq 0 .. w - 1
    <2>1. ASSUME NEW x \in T PROVE x \in 0 .. w - 1
      <3>1. x \in Nat
        BY <1>2 DEF Word
      <3>2. x = w - 1 \/ x + 1 \in r \/ x + 1 \in g
        BY <1>2, <3>1
      <3> QED
        BY <1>1, <3>1, <3>2
    <2> QED
      BY <2>1
  <1>5. ASSUME r = {} PROVE T = {}
    <2>1. \A x \in Nat : ~ (x \in T)
      BY <1>2, <1>5
    <2> QED
      BY <1>2, <2>1 DEF Word
  <1>6. ASSUME 0 \in g \/ r = {} PROVE Z = r
    <2>1. w - 1 \in Int /\ ~ (w - 1 + 1 \in r) /\ ~ (w - 1 + 1 \in g)
      BY <1>1
    <2>2. w - 1 \in T <=> 0 \in r
      BY <1>1, <1>2, <2>1
    <2>3. ASSUME NEW x \in Nat PROVE x \in Z <=> x \in r
      <3>1. x \in Z <=> ~ (x \in 0 .. w - 1 /\ x - 1 \in T <=> 0 \in r /\ x \in g)
        BY <1>3, <2>2
      <3>2. CASE ~ (x \in 0 .. w - 1)
        BY <1>1, <3>1, <3>2
      <3>3. CASE x \in 0 .. w - 1 /\ x # 0
        <4>1. PICK y \in Int : y = x - 1
          BY <3>3
        <4>2. y >= 0 /\ y # w - 1 /\ y + 1 = x
          BY <1>1, <3>3, <4>1
        <4>3. y \in T <=> IF 0 \in r THEN ~ (x \in r <=> x \in g) ELSE x \in r
          BY <1>2, <4>2
        <4>4. x - 1 \in T <=> IF 0 \in r THEN ~ (x \in r <=> x \in g) ELSE x \in r
          BY <4>1, <4>3
        <4> QED
          BY <3>1, <3>3, <4>4
      <3>4. CASE x = 0
        <4>1. ~ (x - 1 \in T)
          BY <1>2, <3>4 DEF Word
        <4> QED
          BY <1>6, <3>1, <3>4, <4>1
      <3> QED
        BY <3>2, <3>3, <3>4
    <2> QED
      BY <1>3, <2>3, SameWord
  <1> QED
    BY <1>4, <1>5, <1>6 DEF T, Z, w, g, Ones

LEMMA StartLeads ==
    ASSUME NEW ps, Params(ps)
    PROVE  /\ NonDirectInit(ps) \in Word
           /\ 0 \in ps.poly \/ ps.xor_in = {} => Leads(ps, NonDirectInit(ps), ps.xor_in)
  <1> DEFINE w == ps.width
             a == ps.xor_in
             f == BackPass(ps)
             Z(r) == BitByBitBit(ps, r, BitOf(FALSE))
  <1>1. /\ w \in Nat \ {0} /\ w \in Nat /\ a \in Word /\ a \subseteq 0 .. w - 1
        /\ Mask(ps) = 0 .. w - 1
    BY DEF Params, Generator, Ones, Mask
  <1>2. NonDirectInit(ps) = Times(w, f, a) \cap Mask(ps)
    BY Zenon DEF NonDirectInit, BackPass
  <1>3. \A i \in 0 .. w - 1, r \in Word : f[i][r] = Turned(ps, r)
    BY DEF BackPass, Turned
  <1>4. Takes(w, f)
    <2>1. \A i \in 0 .. w - 1 : f[i] = [r \in Word |-> Turned(ps, r)]
      BY DEF BackPass, Turned
    <2>2. \A r \in Word : Turned(ps, r) \in Word
      BY InTurned
    <2> HIDE DEF f
    <2>3. \A i \in 0 .. w - 1 : f[i] \in [Word -> Word]
      BY <2>1, <2>2
    <2> QED
      BY <2>3 DEF Takes
  <1> HIDE DEF f
  <1>5. PICK q : Iterates(q, w, f, a) /\ Times(w, f, a) = q[w]
    BY <1>1, <1>4, TimesIterates
  <1>6. /\ q \in [0 .. w -> Word] /\ q[0] = a
        /\ \A i \in 0 .. w - 1 : q[i + 1] = Turned(ps, q[i])
    <2>1. ASSUME NEW i \in 0 .. w - 1 PROVE q[i + 1] = Turned(ps, q[i])
      <3>1. i \in 0 .. w /\ q[i] \in Word /\ q[i + 1] = f[i][q[i]]
        BY <1>1, <1>5 DEF Iterates
      <3> QED
        BY <1>3, <3>1
    <2> QED
      BY <1>5, <2>1 DEF Iterates
  <1> DEFINE G == {k \in Nat : k <= w => /\ q[k] \subseteq Ones(w)
                                         /\ a = {} => q[k] = {}}
  <1>7. 0 \in G
    BY <1>1, <1>6 DEF Ones
  <1>8. ASSUME NEW k \in Nat, k \in G PROVE k + 1 \in G
    <2> SUFFICES ASSUME k + 1 <= w
                 PROVE  q[k + 1] \subseteq Ones(w) /\ (a = {} => q[k + 1] = {})
      OBVIOUS
    <2>1. k \in 0 .. w - 1 /\ k \in 0 .. w /\ k <= w
      BY <1>1
    <2>2. q[k] \subseteq Ones(w) /\ (a = {} => q[k] = {})
      BY <1>8, <2>1
    <2>3. q[k] \in Word /\ q[k + 1] = Turned(ps, q[k])
      BY <1>6, <2>1
    <2>4. /\ Turned(ps, q[k]) \subseteq Ones(w)
          /\ q[k] = {} => Turned(ps, q[k]) = {}
      BY <2>2, <2>3, TurnedBack
    <2> QED
      BY <2>2, <2>3, <2>4
  <1>9. Nat \subseteq G
    <2> HIDE DEF G
    <2> QED
      BY <1>7, <1>8, SetInduction
  <1>10. \A k \in 0 .. w : q[k] \subseteq Ones(w) /\ (a = {} => q[k] = {})
    BY <1>1, <1>9
  <1> HIDE DEF G
  <1>11. NonDirectInit(ps) = q[w] /\ q[w] \in Word
    <2>1. w \in 0 .. w
      BY <1>1
    <2>2. q[w] \in Word /\ q[w] \subseteq 0 .. w - 1
      BY <1>6, <1>10, <2>1 DEF Ones
    <2> QED
      BY <1>1, <1>2, <1>5, <2>2
  <1>12. ASSUME 0 \in ps.poly \/ a = {} PROVE Leads(ps, q[w], a)
    <2> DEFINE z == [i \in 0 .. w |-> q[w - i]]
               e == EndPass(ps)
    <2>1. \A i \in 0 .. w : w - i \in 0 .. w
      BY <1>1
    <2>2. z \in [0 .. w -> Word]
      BY <1>6, <2>1
    <2>3. z[0] = q[w] /\ z[w] = a
      <3>1. 0 \in 0 .. w /\ w \in 0 .. w /\ w - 0 = w /\ w - w = 0
        BY <1>1
      <3> QED
        BY <1>6, <3>1
    <2>4. Takes(w, e) /\ \A i \in 0 .. w - 1, r \in Word : e[i][r] = Z(r)
      BY EndTakes
    <2> HIDE DEF e, Z
    <2>5. ASSUME NEW i \in 0 .. w - 1 PROVE z[i + 1] = e[i][z[i]]
      <3> DEFINE k == w - i - 1
      <3>1. k \in 0 .. w - 1 /\ k \in 0 .. w /\ w - i = k + 1 /\ w - (i + 1) = k
            /\ i \in 0 .. w /\ i + 1 \in 0 .. w
        BY <1>1
      <3>2. z[i] = q[k + 1] /\ z[i + 1] = q[k] /\ z[i] \in Word
        BY <2>2, <3>1
      <3> HIDE DEF k, z
      <3>3. q[k + 1] = Turned(ps, q[k]) /\ q[k] \in Word /\ q[k] \subseteq Ones(w)
        BY <1>6, <1>10, <3>1
      <3>4. 0 \in ps.poly \/ q[k] = {}
        BY <1>10, <1>12, <3>1
      <3>5. Z(Turned(ps, q[k])) = q[k]
        BY <3>3, <3>4, TurnedBack DEF Z
      <3> QED
        BY <2>4, <3>2, <3>3, <3>5
    <2>6. Iterates(z, w, e, q[w])
      <3> HIDE DEF z
      <3> QED
        BY <2>2, <2>3, <2>5 DEF Iterates
    <2>7. Times(w, e, q[w]) = z[w]
      <3> HIDE DEF z
      <3> QED
        BY <1>1, <1>11, <2>4, <2>6, TimesIs
    <2> QED
      BY <2>3, <2>7 DEF Leads, e
  <1> QED
    BY <1>11, <1>12

-----------------------------------------------------------------------------
(***************************************************************************)
(* The string as a dividend: its next octet follows the others.            *)
(***************************************************************************)
Read(i) == ReflectIf(p.reflect_in, in_str[i], 8)

Dividend(d) ==
    Xor(ShiftLeft(Polynomial(SubSeq(in_str, 1, d)), p.width), ShiftLeft(p.xor_in, 8 * d))

Fast(d) == Remainder(Dividend(d), p.width, p.poly)

LEMMA ReadOctet ==
    ASSUME Params(p), in_str \in Seq(Octet), NEW i \in 1 .. Len(in_str)
    PROVE  in_str[i] \in Octet /\ Read(i) \in Octet /\ Read(i) \in Word /\ Read(i) \subseteq 0 .. 7
  <1>1. in_str[i] \in Octet
    OBVIOUS
  <1>2. Read(i) \in Octet
    BY <1>1, ReflectOctet DEF Read, Params
  <1> QED
    BY <1>1, <1>2 DEF Octet, Ones, Word

LEMMA InPolynomial ==
    ASSUME Params(p), in_str \in Seq(Octet), NEW d \in 0 .. Len(in_str)
    PROVE  /\ Polynomial(SubSeq(in_str, 1, d)) \in Word
           /\ \A x \in Int : x \in Polynomial(SubSeq(in_str, 1, d))
                              <=> \E i \in 1 .. d : x - 8 * (d - i) \in Read(i)
  <1> DEFINE s == SubSeq(in_str, 1, d)
             T(i) == ShiftLeft(Read(i), 8 * (d - i))
  <1>1. d \in Nat /\ Len(s) = d /\ DOMAIN s = 1 .. d /\ \A i \in 1 .. d : s[i] = in_str[i]
    OBVIOUS
  <1>2. ASSUME NEW i \in 1 .. d
        PROVE  ShiftLeft(ReflectIf(p.reflect_in, s[i], 8), 8 * (Len(s) - i)) = T(i)
    BY <1>1 DEF Read
  <1> HIDE DEF s
  <1>3. Polynomial(s) = UNION {T(i) : i \in 1 .. d}
    <2>1. Polynomial(s) = UNION {ShiftLeft(ReflectIf(p.reflect_in, s[i], 8), 8 * (Len(s) - i)) :
                                   i \in 1 .. d}
      BY <1>1 DEF Polynomial
    <2>2. {ShiftLeft(ReflectIf(p.reflect_in, s[i], 8), 8 * (Len(s) - i)) : i \in 1 .. d}
            = {T(i) : i \in 1 .. d}
      <3> HIDE DEF T
      <3> QED
        BY <1>2
    <2> QED
      BY <2>1, <2>2
  <1>4. ASSUME NEW i \in 1 .. d
        PROVE  T(i) \in Word /\ \A x \in Int : x \in T(i) <=> x - 8 * (d - i) \in Read(i)
    <2>1. i \in 1 .. Len(in_str) /\ 8 * (d - i) \in Nat
      BY <1>1
    <2>2. Read(i) \in Word
      BY <2>1, ReadOctet
    <2> DEFINE n == 8 * (d - i)
    <2>3. n \in Nat
      BY <2>1
    <2> DEFINE a == Read(i)
    <2> HIDE DEF n, a
    <2>4. ShiftLeft(a, n) \in Word /\ \A x \in Int : x \in ShiftLeft(a, n) <=> x - n \in a
      <3>1. a \in Word
        BY <2>2 DEF a
      <3>2. ShiftLeft(a, n) \in Word
        BY <2>3, <3>1, LeftWord
      <3>3. ASSUME NEW x \in Int PROVE x \in ShiftLeft(a, n) <=> x - n \in a
        BY <2>3, <3>1, InLeft
      <3> QED
        BY <3>2, <3>3
    <2> QED
      BY <2>4 DEF n, a
  <1> HIDE DEF T
  <1>5. Polynomial(s) \in Word
    BY <1>3, <1>4 DEF Word
  <1>6. \A x \in Int : x \in Polynomial(s) <=> \E i \in 1 .. d : x - 8 * (d - i) \in Read(i)
    BY <1>3, <1>4
  <1> QED
    BY <1>5, <1>6 DEF s

LEMMA NextPolynomial ==
    ASSUME Params(p), in_str \in Seq(Octet), NEW d \in Nat, d + 1 <= Len(in_str), NEW x \in Int
    PROVE  x \in Polynomial(SubSeq(in_str, 1, d + 1))
             <=> x - 8 \in Polynomial(SubSeq(in_str, 1, d)) \/ x \in Read(d + 1)
  <1>1. d \in 0 .. Len(in_str) /\ d + 1 \in 0 .. Len(in_str) /\ x - 8 \in Int
    OBVIOUS
  <1>2. x \in Polynomial(SubSeq(in_str, 1, d + 1))
          <=> \E i \in 1 .. d + 1 : x - 8 * ((d + 1) - i) \in Read(i)
    BY <1>1, InPolynomial
  <1>3. x - 8 \in Polynomial(SubSeq(in_str, 1, d))
          <=> \E i \in 1 .. d : x - 8 - 8 * (d - i) \in Read(i)
    BY <1>1, InPolynomial
  <1>4. \A i \in 1 .. d : x - 8 - 8 * (d - i) = x - 8 * ((d + 1) - i)
    OBVIOUS
  <1>5. x - 8 * ((d + 1) - (d + 1)) = x
    OBVIOUS
  <1>6. ASSUME NEW i \in 1 .. d + 1, x - 8 * ((d + 1) - i) \in Read(i)
        PROVE  (\E j \in 1 .. d : x - 8 - 8 * (d - j) \in Read(j)) \/ x \in Read(d + 1)
    <2>1. CASE i = d + 1
      BY <1>5, <1>6, <2>1
    <2>2. CASE i # d + 1
      <3>1. i \in 1 .. d
        BY <2>2
      <3> QED
        BY <1>4, <1>6, <3>1
    <2> QED
      BY <2>1, <2>2
  <1>7. ASSUME NEW j \in 1 .. d, x - 8 - 8 * (d - j) \in Read(j)
        PROVE  \E i \in 1 .. d + 1 : x - 8 * ((d + 1) - i) \in Read(i)
    <2>1. j \in 1 .. d + 1
      OBVIOUS
    <2> QED
      BY <1>4, <1>7, <2>1
  <1>8. ASSUME x \in Read(d + 1)
        PROVE  \E i \in 1 .. d + 1 : x - 8 * ((d + 1) - i) \in Read(i)
    <2>1. d + 1 \in 1 .. d + 1
      OBVIOUS
    <2> QED
      BY <1>5, <1>8, <2>1
  <1> QED
    BY <1>2, <1>3, <1>6, <1>7, <1>8

LEMMA DividendBits ==
    ASSUME Params(p), in_str \in Seq(Octet), NEW d \in 0 .. Len(in_str)
    PROVE  /\ Dividend(d) \in Word /\ Dividend(d) \subseteq 0 .. 8 * d + p.width
           /\ \A x \in Int : x \in Dividend(d)
                <=> ~ (x - p.width \in Polynomial(SubSeq(in_str, 1, d)) <=> x - 8 * d \in p.xor_in)
  <1> DEFINE w == p.width
             a == p.xor_in
             P == Polynomial(SubSeq(in_str, 1, d))
             n == 8 * d
  <1>1. w \in Nat /\ a \in Word /\ a \subseteq 0 .. w - 1 /\ n \in Nat /\ d \in Nat
    BY DEF Params, Generator, Ones
  <1>2. P \in Word /\ \A x \in Int : x \in P <=> \E i \in 1 .. d : x - 8 * (d - i) \in Read(i)
    BY InPolynomial
  <1>3. ASSUME NEW x \in Int, x \in P PROVE x < n
    <2>1. PICK i \in 1 .. d : x - 8 * (d - i) \in Read(i)
      BY <1>2, <1>3
    <2>2. i \in 1 .. Len(in_str)
      BY <1>1
    <2>3. x - 8 * (d - i) \in 0 .. 7
      BY <2>1, <2>2, ReadOctet
    <2> QED
      BY <1>1, <2>3
  <1>4. Dividend(d) = Xor(ShiftLeft(P, w), ShiftLeft(a, n))
    BY DEF Dividend
  <1> HIDE DEF w, a, P, n
  <1>5. ShiftLeft(P, w) \in Word /\ ShiftLeft(a, n) \in Word
    BY <1>1, <1>2, LeftWord
  <1>6. \A x \in Int : x \in Dividend(d) <=> ~ (x - w \in P <=> x - n \in a)
    <2>1. \A x \in Int : x \in ShiftLeft(P, w) <=> x - w \in P
      BY <1>1, <1>2, InLeft
    <2>2. \A x \in Int : x \in ShiftLeft(a, n) <=> x - n \in a
      BY <1>1, InLeft
    <2> QED
      BY <1>4, <2>1, <2>2, InXor
  <1>7. Dividend(d) \in Word
    BY <1>4, <1>5, XorWord
  <1>8. ASSUME NEW x \in Dividend(d) PROVE x \in 0 .. n + w
    <2>1. x \in Nat /\ x \in Int /\ x - w \in Int
      BY <1>1, <1>7 DEF Word
    <2>2. CASE x - w \in P
      <3>1. x - w < n
        BY <1>3, <2>1, <2>2
      <3> QED
        BY <1>1, <2>1, <3>1
    <2>3. CASE x - n \in a
      <3>1. x - n \in 0 .. w - 1
        BY <1>1, <2>3
      <3> QED
        BY <1>1, <2>1, <3>1
    <2> QED
      BY <1>6, <2>1, <2>2, <2>3
  <1>9. Dividend(d) \subseteq 0 .. n + w
    BY <1>8
  <1> QED
    BY <1>6, <1>7, <1>9 DEF w, a, P, n

LEMMA NextDividend ==
    ASSUME Params(p), in_str \in Seq(Octet), NEW d \in Nat, d + 1 <= Len(in_str)
    PROVE  Dividend(d + 1) = Extended(Dividend(d), p.width, Read(d + 1), 8)
  <1> DEFINE w == p.width
             a == p.xor_in
             P == Polynomial(SubSeq(in_str, 1, d))
             Q == Polynomial(SubSeq(in_str, 1, d + 1))
             o == Read(d + 1)
             n == 8 * (d + 1)
  <1>1. w \in Nat /\ d \in 0 .. Len(in_str) /\ d + 1 \in 0 .. Len(in_str) /\ d + 1 \in 1 .. Len(in_str)
    BY DEF Params, Generator
  <1>2. /\ Dividend(d + 1) \in Word
        /\ \A x \in Int : x \in Dividend(d + 1) <=> ~ (x - w \in Q <=> x - n \in a)
        /\ \A x \in Int : x \in Dividend(d) <=> ~ (x - w \in P <=> x - 8 * d \in a)
    BY <1>1, DividendBits
  <1>3. o \subseteq 0 .. 7 /\ P \in Word
    BY <1>1, ReadOctet, InPolynomial
  <1>4. \A x \in Int : x \in Q <=> x - 8 \in P \/ x \in o
    BY NextPolynomial
  <1>n. n \in Int /\ n = 8 * (d + 1)
    OBVIOUS
  <1> HIDE DEF w, a, P, Q, o, n
  <1>5. ASSUME NEW x \in Nat
        PROVE  x \in Dividend(d + 1) <=> x \in Extended(Dividend(d), w, o, 8)
    <2>1. x \in Extended(Dividend(d), w, o, 8)
            <=> ~ (x - 8 \in Dividend(d) <=> x >= w /\ x - w + 8 - 8 \in o)
      BY DEF Extended
    <2>2. PICK y \in Int : y = x - 8
      OBVIOUS
    <2>3. PICK z \in Int : z = x - w
      BY <1>1
    <2>4. y - w = z - 8 /\ y - 8 * d = x - n /\ x - w + 8 - 8 = z /\ (x >= w <=> z >= 0)
      BY <1>1, <1>n, <2>2, <2>3
    <2>5. y \in Dividend(d) <=> ~ (z - 8 \in P <=> x - n \in a)
      <3>1. y \in Dividend(d) <=> ~ (y - w \in P <=> y - 8 * d \in a)
        BY <1>2
      <3> QED
        BY <2>4, <3>1
    <2>6. x \in Dividend(d + 1) <=> ~ (z \in Q <=> x - n \in a)
      <3> DEFINE E == Dividend(d + 1)
      <3>0. \A i \in Int : i \in E <=> ~ (i - w \in Q <=> i - n \in a)
        BY ONLY <1>2, Zenon
      <3>9. x \in Int
        OBVIOUS
      <3> HIDE DEF E
      <3>1. x \in E <=> ~ (x - w \in Q <=> x - n \in a)
        BY ONLY <3>0, <3>9
      <3>2. x - w \in Q <=> z \in Q
        BY <2>3
      <3> QED
        BY <3>1, <3>2 DEF E
    <2>7. z \in Q <=> z - 8 \in P \/ z \in o
      BY <1>4
    <2>8. z \in o => z >= 0 /\ ~ (z - 8 \in P)
      <3>1. z \in o => z \in 0 .. 7
        BY <1>3
      <3>2. z - 8 \in P => z - 8 >= 0
        BY <1>3 DEF Word
      <3> QED
        BY <3>1, <3>2
    <2>9. x \in Extended(Dividend(d), w, o, 8) <=> ~ (y \in Dividend(d) <=> z \in o)
      BY <2>1, <2>2, <2>4, <2>8
    <2> QED
      BY ONLY <2>5, <2>6, <2>7, <2>8, <2>9
  <1>6. Extended(Dividend(d), w, o, 8) \in Word
    BY DEF Extended, Word
  <1>7. Dividend(d + 1) = Extended(Dividend(d), w, o, 8)
    BY <1>2, <1>5, <1>6, SameWord
  <1> QED
    BY <1>7 DEF w, o

\* Where the division starts, and how it goes on with an octet.
LEMMA FastStarts ==
    ASSUME Params(p), in_str \in Seq(Octet)
    PROVE  Fast(0) = p.xor_in
  <1>1. 0 \in 0 .. Len(in_str) /\ p.xor_in \in Word
    BY DEF Params
  <1>2. /\ Dividend(0) \in Word
        /\ \A x \in Int : x \in Dividend(0)
             <=> ~ (x - p.width \in Polynomial(SubSeq(in_str, 1, 0)) <=> x - 8 * 0 \in p.xor_in)
    BY <1>1, DividendBits
  <1>3. \A x \in Int : ~ (x \in Polynomial(SubSeq(in_str, 1, 0)))
    BY <1>1, InPolynomial
  <1>4. ASSUME NEW x \in Nat PROVE x \in Dividend(0) <=> x \in p.xor_in
    <2>1. x - p.width \in Int /\ x - 8 * 0 = x
      BY DEF Params, Generator
    <2>2. ~ (x - p.width \in Polynomial(SubSeq(in_str, 1, 0)))
      BY <1>3, <2>1
    <2>3. x \in Dividend(0)
             <=> ~ (x - p.width \in Polynomial(SubSeq(in_str, 1, 0)) <=> x - 8 * 0 \in p.xor_in)
      BY <1>2
    <2> QED
      BY <2>1, <2>2, <2>3
  <1>5. Dividend(0) = p.xor_in
    BY <1>1, <1>2, <1>4, SameWord
  <1> QED
    BY <1>1, <1>5, RemainderShort DEF Fast, Params

LEMMA FastGoesOn ==
    ASSUME Params(p), in_str \in Seq(Octet), NEW d \in Nat, d + 1 <= Len(in_str)
    PROVE  \E F : Stepping(F, p.width, p.poly, Read(d + 1)) /\ F[0] = Fast(d) /\ F[8] = Fast(d + 1)
  <1> DEFINE t == 8 * d + p.width
  <1>1. /\ t \in Nat /\ t >= p.width /\ d \in 0 .. Len(in_str) /\ d + 1 \in 1 .. Len(in_str)
        /\ Generator(p.width, p.poly)
    BY DEF Params, Generator
  <1>2. Dividend(d) \in Word /\ Dividend(d) \subseteq 0 .. t
    BY <1>1, DividendBits
  <1>3. Read(d + 1) \in Octet
    BY <1>1, ReadOctet
  <1> HIDE DEF t
  <1>4. PICK F : /\ Stepping(F, p.width, p.poly, Read(d + 1))
                 /\ F[0] = Remainder(Dividend(d), p.width, p.poly)
                 /\ F[8] = Remainder(Extended(Dividend(d), p.width, Read(d + 1), 8), p.width, p.poly)
    BY <1>1, <1>2, <1>3, ExtendedRemainder
  <1> QED
    BY <1>4, NextDividend DEF Fast

-----------------------------------------------------------------------------
(***************************************************************************)
(* The registers after d octets.                                           *)
(***************************************************************************)
OddOrZero == 0 \in p.poly \/ p.xor_in = {}

SameReflected == p.reflect_in => reflect(p.xor_in, p.width) = p.xor_in

RegisterIs(m, r, d) ==
    /\ r \in Word
    /\ m = "bit_by_bit" /\ OddOrZero => Leads(p, r, Fast(d))
    /\ m = "bit_by_bit_fast" => r = Fast(d)
    /\ m = "table_driven" => r = Tabled(p, Fast(d))
    /\ m = "check_file" /\ SameReflected => r = Fast(d)

OneOctet(m, r, c) ==
    CASE m = "bit_by_bit" -> BitByBitOctet(p, r, c)
      [] m = "bit_by_bit_fast" -> BitByBitFastOctet(p, r, c)
      [] m = "table_driven" -> TableDrivenOctet(p, gen_table(p, 8), r, c)
      [] m = "check_file" -> FileOctet(p, r, c)

Loop(m) == [c \in Octet |-> [r \in Word |-> OneOctet(m, r, c)]]

LEMMA MethodCases ==
    ASSUME NEW m \in Methods, NEW r, NEW c
    PROVE  /\ m = "bit_by_bit" => OneOctet(m, r, c) = BitByBitOctet(p, r, c)
           /\ m = "bit_by_bit_fast" => OneOctet(m, r, c) = BitByBitFastOctet(p, r, c)
           /\ m = "table_driven" => OneOctet(m, r, c) = TableDrivenOctet(p, gen_table(p, 8), r, c)
           /\ m = "check_file" => OneOctet(m, r, c) = FileOctet(p, r, c)
  BY DEF OneOctet

LEMMA FastOctetIs ==
    ASSUME NEW ps, NEW r, NEW c
    PROVE  /\ BitByBitFastOctet(ps, r, c)
                = Times(8, FastPass(ps, ReflectIf(ps.reflect_in, c, 8)), r) \cap Mask(ps)
           /\ FileOctet(ps, r, c)
                = Times(8, FastPass(ps, ReflectIf(ps.reflect_in, c, 8)), r) \cap Mask(ps)
  BY Zenon DEF BitByBitFastOctet, FileOctet, FastPass

LEMMA LoopTakes ==
    ASSUME Params(p), NEW m \in Methods, NEW c \in Octet, NEW r \in Word
    PROVE  OneOctet(m, r, c) \in Word
  <1>1. CASE m = "bit_by_bit"
    <2> DEFINE f == BitPass(p, ReflectIf(p.reflect_in, c, 8))
    <2>1. BitByBitOctet(p, r, c) = Times(8, f, r)
      BY Zenon DEF BitByBitOctet, BitPass
    <2>2. Takes(8, f)
      BY BitTakes
    <2> HIDE DEF f
    <2>3. Times(8, f, r) \in Word
      BY <2>2, TimesWord
    <2> QED
      BY <1>1, <2>1, <2>3, MethodCases
  <1>2. CASE m \in {"bit_by_bit_fast", "check_file"}
    <2> DEFINE f == FastPass(p, ReflectIf(p.reflect_in, c, 8))
    <2>1. BitByBitFastOctet(p, r, c) = Times(8, f, r) \cap Mask(p)
          /\ FileOctet(p, r, c) = Times(8, f, r) \cap Mask(p)
      BY FastOctetIs
    <2>2. Takes(8, f)
      BY FastTakes
    <2> HIDE DEF f
    <2>3. Times(8, f, r) \cap Mask(p) \in Word
      BY <2>2, TimesWord, CapWord
    <2> QED
      BY <1>2, <2>1, <2>3, MethodCases
  <1>3. CASE m = "table_driven"
    BY <1>3, TableNextIs, MethodCases
  <1> QED
    BY <1>1, <1>2, <1>3 DEF Methods

LEMMA OctetTaken ==
    ASSUME Params(p), in_str \in Seq(Octet), NEW d \in Nat, d + 1 <= Len(in_str),
           NEW m \in Methods, NEW r, RegisterIs(m, r, d)
    PROVE  RegisterIs(m, OneOctet(m, r, in_str[d + 1]), d + 1)
  <1> DEFINE c == in_str[d + 1]
  <1>1. d + 1 \in 1 .. Len(in_str)
    OBVIOUS
  <1>2. c \in Octet /\ Read(d + 1) \in Octet /\ Read(d + 1) = ReflectIf(p.reflect_in, c, 8)
    BY <1>1, ReadOctet DEF Read
  <1>3. PICK F : /\ Stepping(F, p.width, p.poly, Read(d + 1))
                 /\ F[0] = Fast(d) /\ F[8] = Fast(d + 1)
    BY FastGoesOn
  <1> HIDE DEF c
  <1>4. r \in Word /\ OneOctet(m, r, c) \in Word
    BY <1>2, LoopTakes DEF RegisterIs
  <1>5. CASE m = "bit_by_bit"
    <2>1. OddOrZero => Leads(p, r, F[0])
      BY <1>3, <1>5 DEF RegisterIs
    <2>2. Leads(p, r, F[0]) => Leads(p, BitByBitOctet(p, r, c), F[8])
      BY <1>2, <1>3, <1>4, BitSteps
    <2>3. OneOctet(m, r, c) = BitByBitOctet(p, r, c)
      BY <1>5, MethodCases
    <2> QED
      BY <1>3, <1>4, <1>5, <2>1, <2>2, <2>3 DEF RegisterIs, c
  <1>6. CASE m \in {"bit_by_bit_fast", "check_file"}
    <2>1. Times(8, FastPass(p, Read(d + 1)), F[0]) \cap Mask(p) = F[8]
      BY <1>2, <1>3, FastSteps
    <2>2. OneOctet(m, r, c) = Times(8, FastPass(p, Read(d + 1)), r) \cap Mask(p)
      BY <1>2, <1>6, FastOctetIs, MethodCases
    <2>3. r = Fast(d) => OneOctet(m, r, c) = Fast(d + 1)
      BY <1>3, <2>1, <2>2
    <2> QED
      BY <1>4, <1>6, <2>3 DEF RegisterIs, c
  <1>7. CASE m = "table_driven"
    <2>1. r = Tabled(p, F[0])
      BY <1>3, <1>7 DEF RegisterIs
    <2>2. TableDrivenOctet(p, gen_table(p, 8), Tabled(p, F[0]), c) = Tabled(p, F[8])
      BY <1>2, <1>3, TableSteps
    <2>3. OneOctet(m, r, c) = Tabled(p, Fast(d + 1))
      BY <1>3, <1>7, <2>1, <2>2, MethodCases
    <2> QED
      BY <1>4, <1>7, <2>3 DEF RegisterIs, c
  <1> QED
    BY <1>5, <1>6, <1>7 DEF Methods

\* A chunk of n octets.
LEMMA ChunkTaken ==
    ASSUME Params(p), in_str \in Seq(Octet), NEW d \in Nat, NEW n \in Nat, d + n <= Len(in_str),
           NEW m \in Methods, NEW r, RegisterIs(m, r, d)
    PROVE  RegisterIs(m, OverOctets(Loop(m), r, SubSeq(in_str, d + 1, d + n)), d + n)
  <1> DEFINE s == SubSeq(in_str, d + 1, d + n)
             f == [i \in 0 .. Len(s) - 1 |-> Loop(m)[s[i + 1]]]
  <1>1. Len(s) = n /\ \A i \in 0 .. n - 1 : s[i + 1] = in_str[(d + i) + 1] /\ s[i + 1] \in Octet
    <2>1. d + 1 \in Nat /\ d + n \in Nat /\ \A i \in (d + 1) .. (d + n) : in_str[i] \in Octet
      OBVIOUS
    <2>2. Len(s) = n
      OBVIOUS
    <2>3. ASSUME NEW i \in 0 .. n - 1
          PROVE  s[i + 1] = in_str[(d + i) + 1] /\ s[i + 1] \in Octet
      <3>1. i + 1 \in 1 .. n /\ (d + i) + 1 \in (d + 1) .. (d + n) /\ (d + 1) + (i + 1) - 1 = (d + i) + 1
        OBVIOUS
      <3>2. s[i + 1] = in_str[(d + i) + 1]
        <4>1. d + 1 \in 1 .. Len(in_str) + 1 /\ d + n \in (d + 1) - 1 .. Len(in_str)
              /\ i + 1 \in 1 .. ((d + n) - (d + 1) + 1)
          OBVIOUS
        <4>2. \A j \in 1 .. ((d + n) - (d + 1) + 1) : s[j] = in_str[(d + 1) + j - 1]
          BY <4>1, SubSeqProperties
        <4> HIDE DEF s
        <4>3. s[i + 1] = in_str[(d + 1) + (i + 1) - 1]
          BY <4>1, <4>2
        <4> QED
          BY <3>1, <4>3
      <3> QED
        BY <2>1, <3>1, <3>2
    <2> QED
      BY <2>2, <2>3
  <1>2. OverOctets(Loop(m), r, s) = Times(n, f, r)
    BY <1>1 DEF OverOctets
  <1>3. \A i \in 0 .. n - 1 : f[i] = Loop(m)[s[i + 1]]
    BY <1>1
  <1> HIDE DEF f, s
  <1>4. ASSUME NEW i \in 0 .. n - 1
        PROVE  /\ f[i] \in [Word -> Word]
               /\ \A v \in Word : f[i][v] = OneOctet(m, v, in_str[(d + i) + 1])
    <2> DEFINE c == in_str[(d + i) + 1]
    <2>1. c \in Octet /\ f[i] = Loop(m)[c]
      BY <1>1, <1>3
    <2> HIDE DEF c
    <2>2. f[i] = [v \in Word |-> OneOctet(m, v, c)]
      BY <2>1 DEF Loop
    <2>3. \A v \in Word : OneOctet(m, v, c) \in Word
      BY <2>1, LoopTakes
    <2> QED
      BY <2>2, <2>3 DEF c
  <1>5. Takes(n, f) /\ r \in Word
    BY <1>4 DEF Takes, RegisterIs
  <1>6. PICK q : Iterates(q, n, f, r) /\ Times(n, f, r) = q[n]
    BY <1>5, TimesIterates
  <1> DEFINE G == {k \in Nat : k <= n => RegisterIs(m, q[k], d + k)}
  <1>7. 0 \in G
    <2>1. q[0] = r /\ d + 0 = d
      BY <1>6 DEF Iterates
    <2> QED
      BY <2>1
  <1>8. ASSUME NEW k \in Nat, k \in G PROVE k + 1 \in G
    <2> SUFFICES ASSUME k + 1 <= n PROVE RegisterIs(m, q[k + 1], d + (k + 1))
      OBVIOUS
    <2>1. k \in 0 .. n - 1 /\ k \in 0 .. n /\ d + k \in Nat /\ d + (k + 1) = (d + k) + 1
          /\ (d + k) + 1 <= Len(in_str) /\ RegisterIs(m, q[k], d + k)
      BY <1>8
    <2>2. q[k] \in Word /\ q[k + 1] = f[k][q[k]]
      BY <1>6, <2>1 DEF Iterates
    <2>3. q[k + 1] = OneOctet(m, q[k], in_str[(d + k) + 1])
      BY <1>4, <2>1, <2>2
    <2> DEFINE e == d + k
    <2> HIDE DEF e
    <2>4. RegisterIs(m, OneOctet(m, q[k], in_str[e + 1]), e + 1)
      BY <2>1, OctetTaken DEF e
    <2> QED
      BY <2>1, <2>3, <2>4 DEF e
  <1>9. n \in G
    <2> HIDE DEF G
    <2> QED
      BY <1>7, <1>8, SetInduction
  <1> QED
    BY <1>2, <1>6, <1>9 DEF s

-----------------------------------------------------------------------------
(***************************************************************************)
(* The registers in every state of the specification.                      *)
(***************************************************************************)
RegisterHolds(m) == RegisterIs(m, register[m], done)

IInv ==
    /\ raw \in [width : Nat \ {0}, poly : Word, reflect_in : BOOLEAN, xor_in : Word,
                reflect_out : BOOLEAN, xor_out : Word]
    /\ in_str \in Seq(Octet)
    /\ done \in 0 .. Len(in_str)
    /\ \A m \in Methods : RegisterHolds(m)

LEMMA MaskedParams ==
    ASSUME NEW ps \in [width : Nat \ {0}, poly : Word, reflect_in : BOOLEAN, xor_in : Word,
                       reflect_out : BOOLEAN, xor_out : Word]
    PROVE  Params(Masked(ps))
  <1>1. /\ Masked(ps).width = ps.width
        /\ Masked(ps).poly = ps.poly \cap Ones(ps.width)
        /\ Masked(ps).xor_in = ps.xor_in \cap Ones(ps.width)
        /\ Masked(ps).reflect_in = ps.reflect_in
    BY DEF Masked, Mask
  <1>2. ps.width \in Nat \ {0} /\ ps.poly \in Word /\ ps.xor_in \in Word /\ ps.reflect_in \in BOOLEAN
    OBVIOUS
  <1> QED
    BY <1>1, <1>2, CapWord DEF Params, Generator

LEMMA InitIInv == Init => IInv
  <1> SUFFICES ASSUME Init PROVE IInv
    OBVIOUS
  <1>1. PICK c \in Cases : raw = c.raw /\ in_str = c.in_str
    BY DEF Init
  <1>2. /\ raw \in [width : Nat \ {0}, poly : Word, reflect_in : BOOLEAN, xor_in : Word,
                    reflect_out : BOOLEAN, xor_out : Word]
        /\ in_str \in Seq(Octet) /\ done = 0
    BY <1>1, CasesAssumption DEF Init
  <1>3. Params(p)
    BY <1>2, MaskedParams DEF p
  <1>4. register = [m \in Methods |->
                     CASE m = "bit_by_bit" -> NonDirectInit(p)
                       [] m = "bit_by_bit_fast" -> p.xor_in
                       [] m = "table_driven" -> TableInit(p)
                       [] m = "check_file" -> FileInit(p)]
    BY DEF Init
  <1>5. /\ register["bit_by_bit"] = NonDirectInit(p)
        /\ register["bit_by_bit_fast"] = p.xor_in
        /\ register["table_driven"] = TableInit(p)
        /\ register["check_file"] = FileInit(p)
    BY <1>4 DEF Methods
  <1>6. /\ p.xor_in \in Word /\ p.xor_in \subseteq Ones(p.width) /\ p.width \in Nat
        /\ p.reflect_in \in BOOLEAN /\ Fast(0) = p.xor_in
    BY <1>2, <1>3, FastStarts DEF Params, Generator
  <1>7. RegisterIs("bit_by_bit", NonDirectInit(p), 0)
    BY <1>3, <1>6, StartLeads DEF RegisterIs, OddOrZero
  <1>8. RegisterIs("bit_by_bit_fast", p.xor_in, 0)
    BY <1>6 DEF RegisterIs
  <1>9. RegisterIs("table_driven", TableInit(p), 0)
    <2>1. TableInit(p) = Tabled(p, p.xor_in) /\ Tabled(p, p.xor_in) \in Word
      BY <1>3, <1>6, TableEnds, InTabled
    <2> QED
      BY <1>6, <2>1 DEF RegisterIs
  <1>10. RegisterIs("check_file", FileInit(p), 0)
    <2>1. FileInit(p) \in Word
      BY <1>6, ReflectIfWord DEF FileInit
    <2>2. SameReflected => FileInit(p) = p.xor_in
      BY DEF FileInit, ReflectIf, SameReflected
    <2> QED
      BY <1>6, <2>1, <2>2 DEF RegisterIs
  <1>11. \A m \in Methods : RegisterHolds(m)
    BY <1>2, <1>5, <1>7, <1>8, <1>9, <1>10 DEF Methods, RegisterHolds
  <1>12. done \in 0 .. Len(in_str)
    BY <1>2
  <1> QED
    BY <1>2, <1>11, <1>12 DEF IInv

\* What the registers are depends on the parameters and the string only.
LEMMA RegistersGoOn ==
    ASSUME raw' = raw, in_str' = in_str, NEW m, NEW STATE r, NEW STATE d,
           register'[m] = r, done' = d, RegisterIs(m, r, d)
    PROVE  RegisterHolds(m)'
  BY DEF RegisterIs, RegisterHolds, OddOrZero, SameReflected, Fast, Dividend, Polynomial, p

LEMMA UpdateIs ==
    ASSUME NEW n, Update(n)
    PROVE  /\ done + n <= Len(in_str) /\ done' = done + n
           /\ raw' = raw /\ in_str' = in_str
           /\ register' = [m \in Methods |-> OverOctets(Loop(m), register[m],
                                                        SubSeq(in_str, done + 1, done + n))]
  BY Zenon DEF Update, Loop, OneOctet

LEMMA NextIInv == IInv /\ [Next]_vars => IInv'
  <1> SUFFICES ASSUME IInv, [Next]_vars PROVE IInv'
    OBVIOUS
  <1>1. Params(p) /\ in_str \in Seq(Octet) /\ done \in Nat
    BY MaskedParams DEF IInv, p
  <1>2. ASSUME NEW n \in 0 .. MaxChunk, Update(n) PROVE IInv'
    <2>1. n \in Nat
      BY MaxChunkAssumption
    <2>2. /\ done + n <= Len(in_str) /\ done' = done + n
          /\ raw' = raw /\ in_str' = in_str
          /\ register' = [m \in Methods |-> OverOctets(Loop(m), register[m],
                                                       SubSeq(in_str, done + 1, done + n))]
      BY <1>2, UpdateIs
    <2>3. ASSUME NEW m \in Methods PROVE RegisterHolds(m)'
      <3> DEFINE r == OverOctets(Loop(m), register[m], SubSeq(in_str, done + 1, done + n))
      <3>1. register'[m] = r
        BY <2>2
      <3>2. RegisterIs(m, register[m], done)
        BY DEF IInv, RegisterHolds
      <3>3. RegisterIs(m, r, done + n)
        BY <1>1, <2>1, <2>2, <3>2, ChunkTaken
      <3> HIDE DEF r
      <3> QED
        BY <2>2, <3>1, <3>3, RegistersGoOn
    <2>4. done' \in 0 .. Len(in_str')
      BY <1>1, <2>1, <2>2
    <2> QED
      BY <2>2, <2>3, <2>4 DEF IInv
  <1>3. CASE UNCHANGED vars
    <2>1. raw' = raw /\ in_str' = in_str /\ done' = done /\ register' = register
      BY <1>3 DEF vars
    <2>2. ASSUME NEW m \in Methods PROVE RegisterHolds(m)'
      <3>1. RegisterIs(m, register[m], done)
        BY DEF IInv, RegisterHolds
      <3>2. register'[m] = register[m]
        BY <2>1
      <3> QED
        BY <2>1, <3>1, <3>2, RegistersGoOn
    <2> QED
      BY <2>1, <2>2 DEF IInv
  <1> QED
    BY <1>2, <1>3 DEF Next

LEMMA IInvHolds == Spec => []IInv
  BY InitIInv, NextIInv, PTL DEF Spec

LEMMA WhatIsReturned ==
    ASSUME IInv
    PROVE  /\ CRC = Finish(p, Fast(done))
           /\ Checksum("bit_by_bit_fast") = CRC
           /\ Checksum("table_driven") = CRC
           /\ OddOrZero => Checksum("bit_by_bit") = CRC
           /\ SameReflected => Checksum("check_file") = CRC
  <1>1. Params(p) /\ in_str \in Seq(Octet) /\ done \in 0 .. Len(in_str) /\ done \in Nat
    BY MaskedParams DEF IInv, p
  <1>2. CRC = Finish(p, Fast(done))
    BY Zenon DEF CRC, Taken, Fast, Dividend
  <1>3. \A m \in Methods : RegisterIs(m, register[m], done)
    BY DEF IInv, RegisterHolds
  <1>4. Fast(done) \in Word /\ Fast(done) \subseteq Ones(p.width)
    <2> DEFINE t == 8 * done + p.width
    <2>1. t \in Nat /\ Generator(p.width, p.poly)
      BY <1>1 DEF Params, Generator
    <2>2. Dividend(done) \in Word /\ Dividend(done) \subseteq 0 .. t
      BY <1>1, DividendBits
    <2> HIDE DEF t
    <2> QED
      BY <2>1, <2>2, RemainderWord DEF Fast
  <1>5. Checksum("bit_by_bit_fast") = CRC
    <2>1. register["bit_by_bit_fast"] = Fast(done)
      BY <1>3 DEF RegisterIs, Methods
    <2> QED
      BY <1>2, <2>1 DEF Checksum
  <1>6. Checksum("table_driven") = CRC
    <2>1. register["table_driven"] = Tabled(p, Fast(done))
      BY <1>3 DEF RegisterIs, Methods
    <2>2. TableDrivenEnd(p, Tabled(p, Fast(done))) = Finish(p, Fast(done))
      BY <1>1, <1>4, TableEnds
    <2> QED
      BY <1>2, <2>1, <2>2 DEF Checksum
  <1>7. ASSUME OddOrZero PROVE Checksum("bit_by_bit") = CRC
    <2>1. Leads(p, register["bit_by_bit"], Fast(done))
      BY <1>3, <1>7 DEF RegisterIs, Methods
    <2>2. BitByBitEnd(p, register["bit_by_bit"])
            = Finish(p, Times(p.width, EndPass(p), register["bit_by_bit"]))
      BY Zenon DEF BitByBitEnd, EndPass
    <2> QED
      BY <1>2, <2>1, <2>2 DEF Checksum, Leads
  <1>8. ASSUME SameReflected PROVE Checksum("check_file") = CRC
    <2>1. register["check_file"] = Fast(done)
      BY <1>3, <1>8 DEF RegisterIs, Methods
    <2> QED
      BY <1>2, <2>1 DEF Checksum
  <1> QED
    BY <1>2, <1>5, <1>6, <1>7, <1>8

(***************************************************************************)
(* Whatever the parameters and the string, and after every octet of it,    *)
(* bit_by_bit_fast and table_driven of class Crc return the remainder of   *)
(* the division, and so does bit_by_bit if the polynomial is odd or the    *)
(* initial value 0.                                                        *)
(***************************************************************************)
THEOREM AlgorithmsAlwaysAgree == Spec => []AlgorithmsAgree
  <1>1. IInv => AlgorithmsAgree
    BY WhatIsReturned DEF AlgorithmsAgree, OddOrZero
  <1> QED
    BY <1>1, IInvHolds, PTL

(***************************************************************************)
(* crc_file_update of pycrc.py, from where check_file starts it, computes  *)
(* that remainder of the file too, unless the input is reflected and the   *)
(* initial value is not its own reflection.                                *)
(***************************************************************************)
THEOREM FileAlwaysAgrees == Spec => []FileAgrees
  <1>1. IInv => FileAgrees
    BY WhatIsReturned DEF FileAgrees, SameReflected
  <1> QED
    BY <1>1, IInvHolds, PTL
-----------------------------------------------------------------------------
(***************************************************************************)
(* make3_crc_5 keeps its register in a string.  WordOf is the word of it,  *)
(* and a turn of its loop is a step of the division.                       *)
(***************************************************************************)
WordOf(r) == {5 - k : k \in {j \in 1 .. 5 : r[j] = 1}}

Bit == {0, 1}

FiveBits(r) == r \in Seq(Bit) /\ Len(r) = 5

LEMMA InWordOf ==
    ASSUME NEW r, NEW x \in Int
    PROVE  x \in WordOf(r) <=> x \in 0 .. 4 /\ r[5 - x] = 1
  <1>1. ASSUME x \in WordOf(r) PROVE x \in 0 .. 4 /\ r[5 - x] = 1
    <2>1. PICK k \in 1 .. 5 : x = 5 - k /\ r[k] = 1
      BY <1>1 DEF WordOf
    <2>2. 5 - x = k
      BY <2>1
    <2> QED
      BY <2>1, <2>2
  <1>2. ASSUME x \in 0 .. 4, r[5 - x] = 1 PROVE x \in WordOf(r)
    <2>1. PICK k \in 1 .. 5 : k = 5 - x
      BY <1>2
    <2>2. x = 5 - k /\ r[k] = 1
      BY <1>2, <2>1
    <2> QED
      BY <2>2 DEF WordOf
  <1> QED
    BY <1>1, <1>2

LEMMA WordOfWord ==
    ASSUME NEW r
    PROVE  WordOf(r) \in Word
  BY DEF WordOf, Word

LEMMA FunctionIsSeq ==
    ASSUME NEW S, NEW n \in Nat, NEW f \in [1 .. n -> S]
    PROVE  f \in Seq(S) /\ Len(f) = n
  <1>1. f \in Seq(S)
    BY SeqDef
  <1>2. Len(f) \in Nat /\ DOMAIN f = 1 .. Len(f) /\ DOMAIN f = 1 .. n
    BY <1>1, LenProperties
  <1> QED
    BY <1>1, <1>2

LEMMA ShiftedBits ==
    ASSUME NEW r, FiveBits(r), NEW s, s = Append(Tail(r), 0)
    PROVE  /\ FiveBits(s)
           /\ s[1] = r[2] /\ s[2] = r[3] /\ s[3] = r[4] /\ s[4] = r[5] /\ s[5] = 0
  <1>1. r \in Seq(Bit) /\ Len(r) = 5
    BY DEF FiveBits
  <1>2. r # << >>
    BY ONLY <1>1, EmptySeq
  <1>3. PICK t : t = Tail(r)
    OBVIOUS
  <1>4. t \in Seq(Bit) /\ Len(t) = 5 - 1 /\ \A i \in 1 .. 5 - 1 : t[i] = r[i + 1]
    BY ONLY <1>1, <1>2, <1>3, HeadTailProperties
  <1>5. s = Append(t, 0)
    BY <1>3
  <1>6. s \in Seq(Bit) /\ Len(s) = 5 /\ s[5] = 0 /\ \A i \in 1 .. 4 : s[i] = t[i]
    <2>1. Len(t) = 4 /\ t \in Seq(Bit) /\ 0 \in Bit
      BY ONLY <1>4 DEF Bit
    <2>2. /\ Append(t, 0) \in Seq(Bit)
          /\ Len(Append(t, 0)) = Len(t) + 1
          /\ \A i \in 1 .. Len(t) : Append(t, 0)[i] = t[i]
          /\ Append(t, 0)[Len(t) + 1] = 0
      <3>1. t \in Seq(Bit) /\ 0 \in Bit
        BY <2>1
      <3>2. Append(t, 0) \in Seq(Bit)
        BY ONLY <3>1, AppendProperties
      <3>3. Len(Append(t, 0)) = Len(t) + 1
        BY ONLY <3>1, AppendProperties
      <3>4. \A i \in 1 .. Len(t) : Append(t, 0)[i] = t[i]
        BY ONLY <3>1, AppendProperties
      <3>5. Append(t, 0)[Len(t) + 1] = 0
        BY ONLY <3>1, AppendProperties
      <3> QED
        BY ONLY <3>2, <3>3, <3>4, <3>5
    <2>3. 4 + 1 = 5
      OBVIOUS
    <2>4. /\ Append(t, 0) \in Seq(Bit)
          /\ Len(Append(t, 0)) = 5
          /\ \A i \in 1 .. 4 : Append(t, 0)[i] = t[i]
          /\ Append(t, 0)[5] = 0
      BY ONLY <2>1, <2>2, <2>3, Zenon
    <2> QED
      BY ONLY <1>5, <2>4, Zenon
  <1>7. s[1] = r[1 + 1] /\ s[2] = r[2 + 1] /\ s[3] = r[3 + 1] /\ s[4] = r[4 + 1]
    BY ONLY <1>4, <1>6
  <1>8. s[1] = r[2] /\ s[2] = r[3] /\ s[3] = r[4] /\ s[4] = r[5]
    BY ONLY <1>7
  <1> QED
    BY ONLY <1>6, <1>8 DEF FiveBits

LEMMA FiveBitsAre ==
    ASSUME NEW s, FiveBits(s)
    PROVE  DOMAIN s = 1 .. 5 /\ \A i \in 1 .. 5 : s[i] \in {0, 1}
  <1>1. s \in Seq(Bit) /\ Len(s) = 5
    BY Zenon DEF FiveBits
  <1>2. DOMAIN s = 1 .. Len(s)
    BY ONLY <1>1, LenProperties, Zenon
  <1>3. \A i \in 1 .. Len(s) : s[i] \in Bit
    BY ONLY <1>1, ElementOfSeq, Zenon
  <1> QED
    BY ONLY <1>1, <1>2, <1>3, Zenon DEF Bit

LEMMA XoredBits ==
    ASSUME NEW s, FiveBits(s), NEW v, v = string_xor(s, preset)
    PROVE  /\ FiveBits(v)
           /\ v[1] = s[1] /\ v[3] = s[3] /\ v[4] = s[4]
           /\ v[2] = 1 - s[2] /\ v[5] = 1 - s[5]
  <1>1. DOMAIN s = 1 .. 5
    BY FiveBitsAre
  <1>2. \A i \in 1 .. 5 : s[i] \in {0, 1}
    BY FiveBitsAre
  <1>3. preset[1] = 0 /\ preset[2] = 1 /\ preset[3] = 0 /\ preset[4] = 0 /\ preset[5] = 1
    BY DEF preset
  <1>4. v = [i \in 1 .. 5 |-> IF s[i] # preset[i] THEN 1 ELSE 0]
    BY <1>1, Zenon DEF string_xor
  <1>5. v \in [1 .. 5 -> Bit]
    BY <1>4 DEF Bit
  <1>6. 5 \in Nat
    OBVIOUS
  <1>7. v \in Seq(Bit) /\ Len(v) = 5
    BY ONLY <1>5, <1>6, FunctionIsSeq
  <1>8. v[1] = s[1] /\ v[3] = s[3] /\ v[4] = s[4] /\ v[2] = 1 - s[2] /\ v[5] = 1 - s[5]
    BY <1>2, <1>3, <1>4
  <1> QED
    BY <1>7, <1>8 DEF FiveBits

\* v is what a turn makes of r.
TurnGives(r, bit, v) ==
    /\ FiveBits(v)
    /\ v[1] = r[2] /\ v[3] = r[4] /\ v[4] = r[5]
    /\ v[2] = (IF r[1] # bit THEN 1 - r[3] ELSE r[3])
    /\ v[5] = (IF r[1] # bit THEN 1 ELSE 0)

LEMMA TurnBits ==
    ASSUME NEW r, FiveBits(r), NEW bit \in Bit
    PROVE  TurnGives(r, bit, Turn(r, bit))
  <1>0. PICK v : v = Turn(r, bit)
    OBVIOUS
  <1>1. PICK s : s = Append(Tail(r), 0)
    OBVIOUS
  <1>2. /\ FiveBits(s)
        /\ s[1] = r[2] /\ s[2] = r[3] /\ s[3] = r[4] /\ s[4] = r[5] /\ s[5] = 0
    BY <1>1, ShiftedBits
  <1>3. v = IF r[1] # bit THEN string_xor(s, preset) ELSE s
    BY <1>0, <1>1, Zenon DEF Turn
  <1>4. CASE r[1] # bit
    <2>1. v = string_xor(s, preset)
      BY <1>3, <1>4
    <2>2. /\ FiveBits(v)
          /\ v[1] = s[1] /\ v[3] = s[3] /\ v[4] = s[4]
          /\ v[2] = 1 - s[2] /\ v[5] = 1 - s[5]
      BY <1>2, <2>1, XoredBits
    <2>3. TurnGives(r, bit, v)
      BY <1>2, <1>4, <2>2 DEF TurnGives
    <2> QED
      BY <1>0, <2>3
  <1>5. CASE r[1] = bit
    <2>1. TurnGives(r, bit, v)
      BY <1>2, <1>3, <1>5 DEF TurnGives
    <2> QED
      BY <1>0, <2>1
  <1> QED
    BY <1>4, <1>5

LEMMA TurnIsStep ==
    ASSUME NEW r, FiveBits(r), NEW bit \in Bit
    PROVE  FiveBits(Turn(r, bit)) /\ WordOf(Turn(r, bit)) = Step(5, {0, 3}, WordOf(r), bit = 1)
  <1>1. PICK v : v = Turn(r, bit)
    OBVIOUS
  <1>2. /\ FiveBits(v)
        /\ v[1] = r[2] /\ v[3] = r[4] /\ v[4] = r[5]
        /\ v[2] = (IF r[1] # bit THEN 1 - r[3] ELSE r[3])
        /\ v[5] = (IF r[1] # bit THEN 1 ELSE 0)
    <2>1. TurnGives(r, bit, v)
      BY <1>1, TurnBits
    <2> QED
      BY <2>1, Zenon DEF TurnGives
  <1>3. \A i \in 1 .. 5 : r[i] \in {0, 1}
    BY FiveBitsAre
  <1>4. Generator(5, {0, 3}) /\ WordOf(r) \in Word /\ (bit = 1) \in BOOLEAN
    BY WordOfWord DEF Generator, Word, Ones
  <1>0. PICK t \in BOOLEAN : t = (bit = 1)
    OBVIOUS
  <1> DEFINE w == Step(5, {0, 3}, WordOf(r), t)
  <1>5. ASSUME NEW x \in Int
        PROVE  x \in w <=> x \in 0 .. 4
                           /\ ~ (x - 1 \in WordOf(r)
                                   <=> ~ (4 \in WordOf(r) <=> t) /\ x \in {0, 3})
    <2>1. x \in Step(5, {0, 3}, WordOf(r), t)
            <=> x \in 0 .. 5 - 1
                /\ ~ (x - 1 \in WordOf(r)
                        <=> ~ (5 - 1 \in WordOf(r) <=> t) /\ x \in {0, 3})
      BY <1>4, InStep
    <2>2. 5 - 1 = 4
      OBVIOUS
    <2> QED
      BY <2>1, <2>2
  <1> HIDE DEF w
  <1>6. 4 \in WordOf(r) <=> r[1] = 1
    BY InWordOf
  <1>7. ASSUME NEW x \in 0 .. 4 PROVE x - 1 \in WordOf(r) <=> x # 0 /\ r[6 - x] = 1
    <2>1. x - 1 \in Int /\ 5 - (x - 1) = 6 - x /\ (x - 1 \in 0 .. 4 <=> x # 0)
      OBVIOUS
    <2>2. x - 1 \in WordOf(r) <=> x - 1 \in 0 .. 4 /\ r[5 - (x - 1)] = 1
      BY <2>1, InWordOf
    <2> QED
      BY <2>1, <2>2
  <1>8. ASSUME NEW x \in 0 .. 4 PROVE x \in WordOf(v) <=> x \in w
    <2>1. x \in WordOf(v) <=> v[5 - x] = 1
      BY InWordOf
    <2>2. x \in w <=> ~ ((x # 0 /\ r[6 - x] = 1)
                            <=> ~ (r[1] = 1 <=> t) /\ x \in {0, 3})
      BY <1>5, <1>6, <1>7
    <2>3. ~ (r[1] = 1 <=> t) <=> r[1] # bit
      <3>1. r[1] \in {0, 1} /\ bit \in {0, 1}
        BY <1>3 DEF Bit
      <3> QED
        BY <1>0, <3>1
    <2>4. CASE x = 0
      BY <1>2, <2>1, <2>2, <2>3, <2>4
    <2>5. CASE x = 1
      BY <1>2, <1>3, <2>1, <2>2, <2>3, <2>5
    <2>6. CASE x = 2
      BY <1>2, <1>3, <2>1, <2>2, <2>3, <2>6
    <2>7. CASE x = 3
      BY <1>2, <1>3, <2>1, <2>2, <2>3, <2>7
    <2>8. CASE x = 4
      BY <1>2, <1>3, <2>1, <2>2, <2>3, <2>8
    <2> QED
      BY <2>4, <2>5, <2>6, <2>7, <2>8
  <1>9. WordOf(v) \in Word /\ w \in Word
    BY <1>4, WordOfWord, StepWord DEF w
  <1>10. ASSUME NEW x \in Nat PROVE x \in WordOf(v) <=> x \in w
    BY <1>5, <1>8, InWordOf
  <1>11. WordOf(v) = w
    BY <1>9, <1>10, SameWord
  <1> QED
    BY <1>0, <1>1, <1>2, <1>11 DEF w

(***************************************************************************)
(* The registers of make3_crc_5, one after each turn of its loop.          *)
(***************************************************************************)
AfterTurn(bs, q, i) == IF i = 0 THEN preset ELSE Turn(q[i - 1], bs[i])

Turns(bs, q) == q = [i \in 0 .. Len(bs) |-> AfterTurn(bs, q, i)]

LEMMA TurnsExist ==
    ASSUME NEW bs, Len(bs) \in Nat
    PROVE  \E q : Turns(bs, q)
  <1> DEFINE Good(q, n) == \A i \in 0 .. Len(bs) : i <= n => q[i] = AfterTurn(bs, q, i)
             G == {n \in Nat : \E q : q = [i \in 0 .. Len(bs) |-> q[i]] /\ Good(q, n)}
  <1>1. 0 \in G
    <2> DEFINE q == [i \in 0 .. Len(bs) |-> preset]
    <2>1. q = [i \in 0 .. Len(bs) |-> q[i]]
      OBVIOUS
    <2>2. Good(q, 0)
      BY DEF AfterTurn
    <2> HIDE DEF q
    <2> QED
      BY <2>1, <2>2
  <1>2. ASSUME NEW n \in Nat, n \in G
        PROVE  n + 1 \in G
    <2>1. PICK q : q = [i \in 0 .. Len(bs) |-> q[i]] /\ Good(q, n)
      BY <1>2
    <2> DEFINE g == [i \in 0 .. Len(bs) |-> IF i = n + 1 THEN AfterTurn(bs, q, i) ELSE q[i]]
    <2>2. g = [i \in 0 .. Len(bs) |-> g[i]]
      OBVIOUS
    <2>3. ASSUME NEW i \in 0 .. Len(bs), i <= n + 1
          PROVE  g[i] = AfterTurn(bs, g, i)
      <3>1. i = 0 \/ (i - 1 \in 0 .. Len(bs) /\ i - 1 # n + 1 /\ i # 0)
        BY <2>3
      <3>2. AfterTurn(bs, g, i) = AfterTurn(bs, q, i)
        BY <3>1 DEF AfterTurn
      <3>3. i = n + 1 \/ i <= n
        BY <2>3
      <3> QED
        BY <2>1, <3>2, <3>3
    <2> HIDE DEF g
    <2> QED
      BY <2>2, <2>3
  <1>3. Len(bs) \in G
    <2>1. Nat \subseteq G
      <3> HIDE DEF G
      <3> QED
        BY <1>1, <1>2, SetInduction
    <2> QED
      BY <2>1
  <1>4. PICK q : q = [i \in 0 .. Len(bs) |-> q[i]] /\ Good(q, Len(bs))
    BY <1>3
  <1>5. \A i \in 0 .. Len(bs) : q[i] = AfterTurn(bs, q, i)
    BY <1>4
  <1>6. Turns(bs, q)
    BY <1>4, <1>5 DEF Turns
  <1> QED
    BY <1>6

LEMMA TurnsAreMade ==
    ASSUME NEW bs, Len(bs) \in Nat
    PROVE  \E q : /\ make3_crc_5(bs) = q[Len(bs)]
                  /\ q[0] = preset
                  /\ \A i \in 0 .. Len(bs) - 1 : q[i + 1] = Turn(q[i], bs[i + 1])
  <1> DEFINE q == CHOOSE q : Turns(bs, q)
  <1>1. Turns(bs, q)
    BY TurnsExist, Zenon
  <1>2. make3_crc_5(bs) = q[Len(bs)]
    BY Zenon DEF make3_crc_5, Turns, AfterTurn
  <1> HIDE DEF q
  <1>3. \A i \in 0 .. Len(bs) : q[i] = AfterTurn(bs, q, i)
    BY <1>1 DEF Turns
  <1>4. q[0] = preset
    BY <1>3 DEF AfterTurn
  <1>5. ASSUME NEW i \in 0 .. Len(bs) - 1 PROVE q[i + 1] = Turn(q[i], bs[i + 1])
    <2>1. i + 1 \in 0 .. Len(bs) /\ i + 1 # 0 /\ (i + 1) - 1 = i
      OBVIOUS
    <2> QED
      BY <1>3, <2>1 DEF AfterTurn
  <1> QED
    BY <1>2, <1>4, <1>5

\* The bits of octet d + 1 of a string.
LEMMA BitsAre ==
    ASSUME NEW s \in Seq(Octet), NEW d \in Nat, d < Len(s), NEW k \in 0 .. 7
    PROVE  /\ Len(Bits(s)) = 8 * Len(s)
           /\ 8 * d + k \in 0 .. 8 * Len(s) - 1
           /\ Bits(s)[8 * d + k + 1] \in Bit
           /\ Bits(s)[8 * d + k + 1] = 1 <=> 7 - k \in s[d + 1]
  <1>1. PICK n \in 0 .. 8 * Len(s) - 1 : n = 8 * d + k
    OBVIOUS
  <1>2. n + 1 \in 1 .. 8 * Len(s) /\ (n + 1) - 1 = n /\ n % 8 = k /\ n \div 8 = d
    BY <1>1
  <1>3. Bits(s)[n + 1] = IF 7 - (((n + 1) - 1) % 8) \in s[(((n + 1) - 1) \div 8) + 1] THEN 1 ELSE 0
    BY <1>2 DEF Bits
  <1>4. Bits(s)[n + 1] = IF 7 - k \in s[d + 1] THEN 1 ELSE 0
    BY <1>2, <1>3
  <1>5. Len(Bits(s)) = 8 * Len(s)
    <2>1. Bits(s) \in [1 .. 8 * Len(s) -> {0, 1}]
      BY DEF Bits
    <2>2. 8 * Len(s) \in Nat
      OBVIOUS
    <2> QED
      BY <2>1, <2>2, FunctionIsSeq
  <1> QED
    BY <1>1, <1>4, <1>5 DEF Bit

(***************************************************************************)
(* After the bits of d octets the register of make3_crc_5 is that of       *)
(* bit_by_bit_fast with the parameters of the EPC.                         *)
(***************************************************************************)
Holds(q, i, word) == FiveBits(q[i]) /\ WordOf(q[i]) = word

LEMMA EPC5Is ==
    ASSUME raw = EPC5
    PROVE  /\ p.width = 5 /\ p.poly = {0, 3} /\ p.xor_in = {0, 3}
           /\ p.reflect_in = FALSE /\ p.reflect_out = FALSE /\ p.xor_out = {}
  <1>1. p = Masked(EPC5)
    BY DEF p
  <1>2. Mask(EPC5) = Ones(5) /\ Ones(5) = 0 .. 4
    BY DEF Mask, EPC5, Ones
  <1>3. {0, 3} \cap 0 .. 4 = {0, 3} /\ {} \cap 0 .. 4 = {}
    OBVIOUS
  <1> QED
    BY <1>1, <1>2, <1>3 DEF Masked, EPC5

LEMMA PresetHolds ==
    FiveBits(preset) /\ WordOf(preset) = {0, 3}
  <1>1. FiveBits(preset)
    BY DEF FiveBits, preset, Bit
  <1>2. ASSUME NEW x \in Nat PROVE x \in WordOf(preset) <=> x \in {0, 3}
    <2>1. x \in WordOf(preset) <=> x \in 0 .. 4 /\ preset[5 - x] = 1
      BY InWordOf
    <2>2. preset[1] = 0 /\ preset[2] = 1 /\ preset[3] = 0 /\ preset[4] = 0 /\ preset[5] = 1
      BY DEF preset
    <2>3. x \in 0 .. 4 => x = 0 \/ x = 1 \/ x = 2 \/ x = 3 \/ x = 4
      OBVIOUS
    <2> QED
      BY <2>1, <2>2, <2>3
  <1>3. {0, 3} \in Word /\ WordOf(preset) \in Word
    BY WordOfWord DEF Word
  <1> QED
    BY <1>1, <1>2, <1>3, SameWord

LEMMA OctetHolds ==
    ASSUME NEW s \in Seq(Octet), NEW d \in Nat, d < Len(s), NEW q, NEW F,
           \A i \in 0 .. 8 * Len(s) - 1 : q[i + 1] = Turn(q[i], Bits(s)[i + 1]),
           Stepping(F, 5, {0, 3}, s[d + 1]), Holds(q, 8 * d, F[0])
    PROVE  Holds(q, 8 * (d + 1), F[8])
  <1> DEFINE G == {k \in Nat : k <= 8 => Holds(q, 8 * d + k, F[k])}
  <1>1. 0 \in G
    <2>1. 8 * d + 0 = 8 * d
      OBVIOUS
    <2> QED
      BY <2>1
  <1>2. ASSUME NEW k \in Nat, k \in G PROVE k + 1 \in G
    <2> SUFFICES ASSUME k + 1 <= 8 PROVE Holds(q, 8 * d + (k + 1), F[k + 1])
      OBVIOUS
    <2>1. k \in 0 .. 7 /\ k <= 8
      OBVIOUS
    <2>2. Holds(q, 8 * d + k, F[k])
      BY <1>2, <2>1
    <2> HIDE DEF G
    <2>3. PICK i \in Int : i = 8 * d + k
      OBVIOUS
    <2>4. /\ i \in 0 .. 8 * Len(s) - 1
          /\ Bits(s)[i + 1] \in Bit
          /\ Bits(s)[i + 1] = 1 <=> 7 - k \in s[d + 1]
      BY <2>1, <2>3, BitsAre
    <2>5. q[i + 1] = Turn(q[i], Bits(s)[i + 1])
      BY <2>4
    <2>6. FiveBits(q[i]) /\ WordOf(q[i]) = F[k]
      BY <2>2, <2>3 DEF Holds
    <2>7. /\ FiveBits(q[i + 1])
          /\ WordOf(q[i + 1]) = Step(5, {0, 3}, WordOf(q[i]), Bits(s)[i + 1] = 1)
      BY <2>4, <2>5, <2>6, TurnIsStep
    <2>8. F[k + 1] = Step(5, {0, 3}, F[k], 7 - k \in s[d + 1])
      BY <2>1 DEF Stepping
    <2>9. (Bits(s)[i + 1] = 1) = (7 - k \in s[d + 1])
      BY <2>4
    <2>10. Holds(q, i + 1, F[k + 1])
      BY <2>6, <2>7, <2>8, <2>9 DEF Holds
    <2>11. i + 1 = 8 * d + (k + 1)
      BY <2>3
    <2> QED
      BY <2>10, <2>11
  <1>3. 8 \in G
    <2> HIDE DEF G
    <2> QED
      BY <1>1, <1>2, SetInduction
  <1>4. Holds(q, 8 * d + 8, F[8])
    BY <1>3
  <1>5. 8 * (d + 1) = 8 * d + 8
    OBVIOUS
  <1> QED
    BY <1>4, <1>5

LEMMA StringHolds ==
    ASSUME raw = EPC5, Params(p), in_str \in Seq(Octet), done \in 0 .. Len(in_str)
    PROVE  FiveBits(make3_crc_5(Bits(Taken))) /\ WordOf(make3_crc_5(Bits(Taken))) = Fast(done)
  <1>0. Taken \in Seq(Octet) /\ Len(Taken) = done /\ \A i \in 1 .. done : Taken[i] = in_str[i]
    <2>1. Len(in_str) \in Nat
      BY LenProperties
    <2>2. /\ SubSeq(in_str, 1, done) \in Seq(Octet)
          /\ Len(SubSeq(in_str, 1, done)) = done
          /\ \A i \in 1 .. done : SubSeq(in_str, 1, done)[i] = in_str[i]
      BY <2>1
    <2> QED
      BY <2>2 DEF Taken
  <1>1. PICK s \in Seq(Octet) : s = Taken
    BY <1>0
  <1>2. Len(s) = done /\ \A i \in 1 .. done : s[i] = in_str[i]
    BY <1>0, <1>1
  <1>3. Len(Bits(s)) = 8 * done
    BY <1>1, <1>2, FunctionIsSeq DEF Bits
  <1>4. PICK q : /\ make3_crc_5(Bits(s)) = q[8 * done]
                 /\ q[0] = preset
                 /\ \A i \in 0 .. 8 * done - 1 : q[i + 1] = Turn(q[i], Bits(s)[i + 1])
    <2>1. 8 * done \in Nat
      OBVIOUS
    <2> QED
      BY <1>3, <2>1, TurnsAreMade
  <1> DEFINE G == {d \in Nat : d <= done => Holds(q, 8 * d, Fast(d))}
  <1>5. 0 \in G
    <2>1. Fast(0) = {0, 3}
      BY FastStarts, EPC5Is
    <2>2. Holds(q, 0, Fast(0))
      BY <1>4, <2>1, PresetHolds DEF Holds
    <2>3. 8 * 0 = 0
      OBVIOUS
    <2> QED
      BY <2>2, <2>3
  <1>6. ASSUME NEW d \in Nat, d \in G PROVE d + 1 \in G
    <2> SUFFICES ASSUME d + 1 <= done PROVE Holds(q, 8 * (d + 1), Fast(d + 1))
      OBVIOUS
    <2>1. d < Len(s) /\ d + 1 <= Len(in_str) /\ Holds(q, 8 * d, Fast(d)) /\ d + 1 \in 1 .. done
      BY <1>2, <1>6
    <2> HIDE DEF G
    <2>2. PICK F : /\ Stepping(F, p.width, p.poly, Read(d + 1))
                   /\ F[0] = Fast(d) /\ F[8] = Fast(d + 1)
      BY <2>1, FastGoesOn
    <2>3. Read(d + 1) = s[d + 1]
      BY <1>2, <2>1, EPC5Is DEF Read, ReflectIf
    <2>4. Stepping(F, 5, {0, 3}, s[d + 1])
      BY <2>2, <2>3, EPC5Is
    <2>5. Holds(q, 8 * d, F[0])
      BY <2>1, <2>2
    <2>6. \A i \in 0 .. 8 * Len(s) - 1 : q[i + 1] = Turn(q[i], Bits(s)[i + 1])
      BY <1>2, <1>4
    <2>7. Holds(q, 8 * (d + 1), F[8])
      BY ONLY <1>1, <2>1, <2>4, <2>5, <2>6, OctetHolds
    <2> QED
      BY <2>2, <2>7
  <1>7. done \in G
    <2> HIDE DEF G
    <2> QED
      BY <1>5, <1>6, SetInduction
  <1>8. Holds(q, 8 * done, Fast(done))
    BY <1>7
  <1> QED
    BY <1>1, <1>4, <1>8 DEF Holds

(***************************************************************************)
(* The query: seventeen turns.                                             *)
(***************************************************************************)
LEMMA TurnOf ==
    ASSUME NEW a \in Bit, NEW b \in Bit, NEW c \in Bit, NEW d \in Bit, NEW e \in Bit,
           NEW bit \in Bit
    PROVE  Turn(<<a, b, c, d, e>>, bit)
             = <<b, IF a # bit THEN 1 - c ELSE c, d, e, IF a # bit THEN 1 ELSE 0>>
  <1>1. PICK r : r = <<a, b, c, d, e>>
    OBVIOUS
  <1>2. r \in Seq(Bit) /\ Len(r) = 5
    BY <1>1
  <1>3. r[1] = a /\ r[2] = b /\ r[3] = c /\ r[4] = d /\ r[5] = e
    BY <1>1
  <1>4. PICK v : v = Turn(r, bit)
    OBVIOUS
  <1>5. /\ FiveBits(v)
        /\ v[1] = r[2] /\ v[3] = r[4] /\ v[4] = r[5]
        /\ v[2] = (IF r[1] # bit THEN 1 - r[3] ELSE r[3])
        /\ v[5] = (IF r[1] # bit THEN 1 ELSE 0)
    <2>1. FiveBits(r)
      BY <1>2 DEF FiveBits
    <2>2. bit \in Bit
      OBVIOUS
    <2>3. TurnGives(r, bit, v)
      BY ONLY <1>4, <2>1, <2>2, TurnBits
    <2> QED
      BY <2>3, Zenon DEF TurnGives
  <1>6. v \in Seq(Bit) /\ Len(v) = 5
    BY <1>5, Zenon DEF FiveBits
  <1>7. PICK u : u = <<b, IF a # bit THEN 1 - c ELSE c, d, e, IF a # bit THEN 1 ELSE 0>>
    OBVIOUS
  <1>8. /\ u \in Seq(Bit) /\ Len(u) = 5
        /\ u[1] = b /\ u[2] = (IF a # bit THEN 1 - c ELSE c) /\ u[3] = d /\ u[4] = e
        /\ u[5] = (IF a # bit THEN 1 ELSE 0)
    BY <1>7 DEF Bit
  <1>9. \A i \in 1 .. Len(v) : v[i] = u[i]
    <2>1. ASSUME NEW i \in 1 .. 5 PROVE v[i] = u[i]
      <3>1. i = 1 \/ i = 2 \/ i = 3 \/ i = 4 \/ i = 5
        OBVIOUS
      <3> QED
        BY ONLY <1>3, <1>5, <1>8, <3>1
    <2> QED
      BY ONLY <1>6, <2>1
  <1>10. v = u
    BY ONLY <1>6, <1>8, <1>9, SeqEqual
  <1> QED
    BY <1>1, <1>4, <1>7, <1>10

LEMMA QueryHasItsCRC ==
    make3_crc_5(SubSeq(query_cmd, 1, 17)) = SubSeq(query_cmd, 18, 22)
  <1>1. PICK s : s = SubSeq(query_cmd, 1, 17)
    OBVIOUS
  <1>2. /\ Len(s) = 17
        /\ s[1] = 1 /\ s[2] = 0 /\ s[3] = 0 /\ s[4] = 0 /\ s[5] = 0
        /\ s[6] = 1 /\ s[7] = 0 /\ s[8] = 1 /\ s[9] = 0 /\ s[10] = 0
        /\ s[11] = 0 /\ s[12] = 0 /\ s[13] = 0 /\ s[14] = 0 /\ s[15] = 0
        /\ s[16] = 0 /\ s[17] = 0
    BY <1>1 DEF query_cmd
  <1>3. SubSeq(query_cmd, 18, 22) = <<1, 1, 1, 1, 1>>
    <2>1. PICK t : t = SubSeq(query_cmd, 18, 22)
      OBVIOUS
    <2>2. /\ t \in Seq(Nat) /\ Len(t) = 5
          /\ t[1] = 1 /\ t[2] = 1 /\ t[3] = 1 /\ t[4] = 1 /\ t[5] = 1
      BY <2>1 DEF query_cmd
    <2>3. \A i \in 1 .. Len(t) : t[i] = <<1, 1, 1, 1, 1>>[i]
      BY ONLY <2>2
    <2>4. <<1, 1, 1, 1, 1>> \in Seq(Nat) /\ Len(<<1, 1, 1, 1, 1>>) = 5
      OBVIOUS
    <2>5. t = <<1, 1, 1, 1, 1>>
      BY ONLY <2>2, <2>3, <2>4, SeqEqual
    <2> QED
      BY <2>1, <2>5
  <1>4. PICK q : /\ make3_crc_5(s) = q[17]
                 /\ q[0] = preset
                 /\ \A i \in 0 .. 16 : q[i + 1] = Turn(q[i], s[i + 1])
    <2>1. Len(s) \in Nat /\ Len(s) - 1 = 16
      BY <1>2
    <2> QED
      BY <1>2, <2>1, TurnsAreMade
  <1>5. 0 \in Bit /\ 1 \in Bit
    BY DEF Bit
  <1>6. q[0] = <<0, 1, 0, 0, 1>>
    BY <1>4 DEF preset
  <1>7. q[1] = <<1, 1, 0, 1, 1>>
    <2>1. q[1] = Turn(<<0, 1, 0, 0, 1>>, 1)
      BY <1>2, <1>4, <1>6
    <2> QED
      BY <1>5, <2>1, TurnOf
  <1>8. q[2] = <<1, 1, 1, 1, 1>>
    <2>1. q[2] = Turn(<<1, 1, 0, 1, 1>>, 0)
      BY <1>2, <1>4, <1>7
    <2> QED
      BY <1>5, <2>1, TurnOf
  <1>9. q[3] = <<1, 0, 1, 1, 1>>
    <2>1. q[3] = Turn(<<1, 1, 1, 1, 1>>, 0)
      BY <1>2, <1>4, <1>8
    <2> QED
      BY <1>5, <2>1, TurnOf
  <1>10. q[4] = <<0, 0, 1, 1, 1>>
    <2>1. q[4] = Turn(<<1, 0, 1, 1, 1>>, 0)
      BY <1>2, <1>4, <1>9
    <2> QED
      BY <1>5, <2>1, TurnOf
  <1>11. q[5] = <<0, 1, 1, 1, 0>>
    <2>1. q[5] = Turn(<<0, 0, 1, 1, 1>>, 0)
      BY <1>2, <1>4, <1>10
    <2> QED
      BY <1>5, <2>1, TurnOf
  <1>12. q[6] = <<1, 0, 1, 0, 1>>
    <2>1. q[6] = Turn(<<0, 1, 1, 1, 0>>, 1)
      BY <1>2, <1>4, <1>11
    <2> QED
      BY <1>5, <2>1, TurnOf
  <1>13. q[7] = <<0, 0, 0, 1, 1>>
    <2>1. q[7] = Turn(<<1, 0, 1, 0, 1>>, 0)
      BY <1>2, <1>4, <1>12
    <2> QED
      BY <1>5, <2>1, TurnOf
  <1>14. q[8] = <<0, 1, 1, 1, 1>>
    <2>1. q[8] = Turn(<<0, 0, 0, 1, 1>>, 1)
      BY <1>2, <1>4, <1>13
    <2> QED
      BY <1>5, <2>1, TurnOf
  <1>15. q[9] = <<1, 1, 1, 1, 0>>
    <2>1. q[9] = Turn(<<0, 1, 1, 1, 1>>, 0)
      BY <1>2, <1>4, <1>14
    <2> QED
      BY <1>5, <2>1, TurnOf
  <1>16. q[10] = <<1, 0, 1, 0, 1>>
    <2>1. q[10] = Turn(<<1, 1, 1, 1, 0>>, 0)
      BY <1>2, <1>4, <1>15
    <2> QED
      BY <1>5, <2>1, TurnOf
  <1>17. q[11] = <<0, 0, 0, 1, 1>>
    <2>1. q[11] = Turn(<<1, 0, 1, 0, 1>>, 0)
      BY <1>2, <1>4, <1>16
    <2> QED
      BY <1>5, <2>1, TurnOf
  <1>18. q[12] = <<0, 0, 1, 1, 0>>
    <2>1. q[12] = Turn(<<0, 0, 0, 1, 1>>, 0)
      BY <1>2, <1>4, <1>17
    <2> QED
      BY <1>5, <2>1, TurnOf
  <1>19. q[13] = <<0, 1, 1, 0, 0>>
    <2>1. q[13] = Turn(<<0, 0, 1, 1, 0>>, 0)
      BY <1>2, <1>4, <1>18
    <2> QED
      BY <1>5, <2>1, TurnOf
  <1>20. q[14] = <<1, 1, 0, 0, 0>>
    <2>1. q[14] = Turn(<<0, 1, 1, 0, 0>>, 0)
      BY <1>2, <1>4, <1>19
    <2> QED
      BY <1>5, <2>1, TurnOf
  <1>21. q[15] = <<1, 1, 0, 0, 1>>
    <2>1. q[15] = Turn(<<1, 1, 0, 0, 0>>, 0)
      BY <1>2, <1>4, <1>20
    <2> QED
      BY <1>5, <2>1, TurnOf
  <1>22. q[16] = <<1, 1, 0, 1, 1>>
    <2>1. q[16] = Turn(<<1, 1, 0, 0, 1>>, 0)
      BY <1>2, <1>4, <1>21
    <2> QED
      BY <1>5, <2>1, TurnOf
  <1>23. q[17] = <<1, 1, 1, 1, 1>>
    <2>1. q[17] = Turn(<<1, 1, 0, 1, 1>>, 0)
      BY <1>2, <1>4, <1>22
    <2> QED
      BY <1>5, <2>1, TurnOf
  <1> QED
    BY <1>1, <1>3, <1>4, <1>23

(***************************************************************************)
(* Of any string, after any number of its octets, make3_crc_5 of           *)
(* rfidbts_downlink.py and bit_by_bit_fast of pycrc with the parameters of *)
(* EPC Gen2 compute the same CRC-5, and the query of the controller ends   *)
(* with its own.                                                           *)
(***************************************************************************)
THEOREM DownlinkAlwaysAgrees == Spec => []DownlinkAgrees
  <1>1. ASSUME IInv, raw = EPC5
        PROVE  WordOf(make3_crc_5(Bits(Taken))) = Checksum("bit_by_bit_fast")
    <2>1. Params(p) /\ in_str \in Seq(Octet) /\ done \in 0 .. Len(in_str)
      BY <1>1, MaskedParams DEF IInv, p
    <2>2. WordOf(make3_crc_5(Bits(Taken))) = Fast(done)
      BY <1>1, <2>1, StringHolds
    <2>3. Checksum("bit_by_bit_fast") = Finish(p, Fast(done))
      BY <1>1, WhatIsReturned
    <2>4. Finish(p, Fast(done)) = Xor(Fast(done), {})
      BY <1>1, EPC5Is DEF Finish, ReflectIf
    <2>5. Xor(Fast(done), {}) = Fast(done)
      BY InXor
    <2> QED
      BY <2>2, <2>3, <2>4, <2>5
  <1>2. IInv => DownlinkAgrees
    <2> SUFFICES ASSUME IInv PROVE DownlinkAgrees
      OBVIOUS
    <2>1. CASE raw # EPC5
      BY <2>1, Zenon DEF DownlinkAgrees
    <2>2. CASE raw = EPC5
      <3>1. WordOf(make3_crc_5(Bits(Taken))) = Checksum("bit_by_bit_fast")
        BY <1>1, <2>2
      <3> QED
        BY <3>1, QueryHasItsCRC, Zenon DEF DownlinkAgrees, WordOf
    <2> QED
      BY <2>1, <2>2
  <1> QED
    BY <1>2, IInvHolds, PTL

-----------------------------------------------------------------------------
(***************************************************************************)
(* The generated programs.  A word of one may have bits above those of the *)
(* CRC, so two words are compared below a bit m.                           *)
(***************************************************************************)
RawParams ==
    [width : Nat \ {0}, poly : Word, reflect_in : BOOLEAN, xor_in : Word,
     reflect_out : BOOLEAN, xor_out : Word]

\* crc_t has at most 64 bits.
Fits(rw, g) == rw \in RawParams /\ rw.width <= 64 /\ g \in Programs

Alike(m, a, b) == \A x \in 0 .. m - 1 : x \in a <=> x \in b

Related(m) == {z \in Word \X Word : Alike(m, z[1], z[2])}

LEMMA TimesRelated ==
    ASSUME NEW n \in Nat, NEW f, NEW h, Takes(n, f), Takes(n, h), NEW Rel,
           NEW a \in Word, NEW b \in Word, <<a, b>> \in Rel,
           \A i \in 0 .. n - 1 : \A r, v \in Word : <<r, v>> \in Rel => <<f[i][r], h[i][v]>> \in Rel
    PROVE  <<Times(n, f, a), Times(n, h, b)>> \in Rel
  <1>1. PICK q : Iterates(q, n, f, a) /\ Times(n, f, a) = q[n]
    BY TimesIterates
  <1>2. PICK u : Iterates(u, n, h, b) /\ Times(n, h, b) = u[n]
    BY TimesIterates
  <1> DEFINE G == {k \in Nat : k <= n => <<q[k], u[k]>> \in Rel}
  <1>3. 0 \in G
    BY <1>1, <1>2 DEF Iterates
  <1>4. ASSUME NEW k \in Nat, k \in G PROVE k + 1 \in G
    <2> SUFFICES ASSUME k + 1 <= n PROVE <<q[k + 1], u[k + 1]>> \in Rel
      OBVIOUS
    <2>1. k \in 0 .. n - 1 /\ k \in 0 .. n /\ <<q[k], u[k]>> \in Rel
      BY <1>4
    <2>2. q[k] \in Word /\ q[k + 1] = f[k][q[k]] /\ u[k] \in Word /\ u[k + 1] = h[k][u[k]]
      BY <1>1, <1>2, <2>1 DEF Iterates
    <2>3. <<f[k][q[k]], h[k][u[k]]>> \in Rel
      BY <2>1, <2>2
    <2> QED
      BY <2>2, <2>3
  <1>5. n \in G
    <2> HIDE DEF G
    <2> QED
      BY <1>3, <1>4, SetInduction
  <1> QED
    BY <1>1, <1>2, <1>5

\* So do loops over the octets of a string.
LEMMA OctetsRelated ==
    ASSUME NEW s \in Seq(Octet), NEW f \in [Octet -> [Word -> Word]], NEW h \in [Octet -> [Word -> Word]],
           NEW Rel, NEW a \in Word, NEW b \in Word, <<a, b>> \in Rel,
           \A c \in Octet : \A r, v \in Word : <<r, v>> \in Rel => <<f[c][r], h[c][v]>> \in Rel
    PROVE  /\ <<OverOctets(f, a, s), OverOctets(h, b, s)>> \in Rel
           /\ OverOctets(f, a, s) \in Word /\ OverOctets(h, b, s) \in Word
  <1> DEFINE n == Len(s)
             F == [i \in 0 .. Len(s) - 1 |-> f[s[i + 1]]]
             H == [i \in 0 .. Len(s) - 1 |-> h[s[i + 1]]]
  <1>1. n \in Nat /\ \A i \in 0 .. n - 1 : s[i + 1] \in Octet
    <2>1. \A i \in 0 .. Len(s) - 1 : i + 1 \in 1 .. Len(s)
      OBVIOUS
    <2> QED
      BY <2>1
  <1>2. OverOctets(f, a, s) = Times(n, F, a) /\ OverOctets(h, b, s) = Times(n, H, b)
    BY DEF OverOctets
  <1>3. \A i \in 0 .. n - 1 : F[i] = f[s[i + 1]] /\ H[i] = h[s[i + 1]]
    OBVIOUS
  <1> HIDE DEF n, F, H
  <1>4. Takes(n, F) /\ Takes(n, H)
    BY <1>1, <1>3 DEF Takes
  <1>5. \A i \in 0 .. n - 1 : \A r, v \in Word : <<r, v>> \in Rel => <<F[i][r], H[i][v]>> \in Rel
    BY <1>1, <1>3
  <1>6. <<Times(n, F, a), Times(n, H, b)>> \in Rel
    BY <1>1, <1>4, <1>5, TimesRelated
  <1> QED
    BY <1>1, <1>2, <1>4, <1>6, TimesWord

LEMMA InRelated ==
    ASSUME NEW m, NEW a \in Word, NEW b \in Word
    PROVE  <<a, b>> \in Related(m) <=> \A x \in 0 .. m - 1 : x \in a <=> x \in b
  BY DEF Related, Alike

LEMMA RelatedCut ==
    ASSUME NEW m \in Nat, NEW a \in Word, NEW b \in Word, <<a, b>> \in Related(m)
    PROVE  a \cap Ones(m) = b \cap Ones(m)
  BY InRelated DEF Ones

-----------------------------------------------------------------------------
\* What of the parameters a program sees.
LEMMA MaskedIs ==
    ASSUME NEW rw \in RawParams
    PROVE  /\ Params(Masked(rw)) /\ Masked(rw) \in RawParams
           /\ Masked(rw).width = rw.width /\ rw.width \in Nat \ {0}
           /\ Masked(rw).reflect_in = rw.reflect_in /\ rw.reflect_in \in BOOLEAN
           /\ Masked(rw).reflect_out = rw.reflect_out /\ rw.reflect_out \in BOOLEAN
           /\ Masked(rw).poly = rw.poly \cap Ones(rw.width)
           /\ Masked(rw).xor_in = rw.xor_in \cap Ones(rw.width)
           /\ Masked(rw).xor_out = rw.xor_out \cap Ones(rw.width)
           /\ rw.poly \in Word /\ rw.xor_in \in Word /\ rw.xor_out \in Word
           /\ MSB(Masked(rw)) = rw.width - 1 /\ MSB(rw) = rw.width - 1
           /\ Mask(Masked(rw)) = Ones(rw.width) /\ Mask(rw) = Ones(rw.width)
           /\ CrcShift(Masked(rw)) = CrcShift(rw)
  <1>1. Params(Masked(rw))
    BY MaskedParams DEF RawParams
  <1>2. rw \in [width : Nat \ {0}, poly : Word, reflect_in : BOOLEAN, xor_in : Word,
                reflect_out : BOOLEAN, xor_out : Word]
    BY DEF RawParams
  <1>3. Masked(rw) = [rw EXCEPT !.poly = rw.poly \cap Ones(rw.width),
                                !.xor_in = rw.xor_in \cap Ones(rw.width),
                                !.xor_out = rw.xor_out \cap Ones(rw.width)]
    BY DEF Masked, Mask
  <1>4. /\ Masked(rw).width = rw.width
        /\ Masked(rw).reflect_in = rw.reflect_in
        /\ Masked(rw).reflect_out = rw.reflect_out
        /\ Masked(rw).poly = rw.poly \cap Ones(rw.width)
        /\ Masked(rw).xor_in = rw.xor_in \cap Ones(rw.width)
        /\ Masked(rw).xor_out = rw.xor_out \cap Ones(rw.width)
    BY <1>2, <1>3
  <1>5. /\ rw.width \in Nat \ {0} /\ rw.reflect_in \in BOOLEAN /\ rw.reflect_out \in BOOLEAN
        /\ rw.poly \in Word /\ rw.xor_in \in Word /\ rw.xor_out \in Word
    BY <1>2
  <1>6. Masked(rw) \in RawParams
    <2>1. \A a \in Word : a \cap Ones(rw.width) \in Word
      BY CapWord
    <2> QED
      BY <1>2, <1>3, <1>5, <2>1 DEF RawParams
  <1> QED
    BY <1>1, <1>4, <1>5, <1>6 DEF MSB, Mask, CrcShift

\* The bits of a word of the table.
Top(rw) == rw.width + CrcShift(rw)

LEMMA TypeHolds ==
    ASSUME NEW rw, NEW g, Fits(rw, g)
    PROVE  /\ TypeBits(rw, g) \in Nat /\ Top(rw) \in Nat /\ Top(rw) <= TypeBits(rw, g)
           /\ CrcShift(rw) \in Nat /\ Top(rw) = rw.width + CrcShift(rw) /\ Top(rw) <= 64
           /\ Top(rw) >= 8 /\ Top(rw) >= rw.width /\ (CrcShift(rw) # 0 => Top(rw) = 8)
  <1>1. rw.width \in Nat \ {0} /\ rw.width <= 64
    BY MaskedIs DEF Fits
  <1> QED
    BY <1>1 DEF TypeBits, CrcShift, Top

LEMMA InCrcT ==
    ASSUME NEW rw, NEW g, Fits(rw, g), NEW a \in Word
    PROVE  /\ CrcT(rw, g, a) \in Word /\ CrcT(rw, g, a) \subseteq a
           /\ \A x \in 0 .. Top(rw) - 1 : x \in CrcT(rw, g, a) <=> x \in a
           /\ a \subseteq Ones(Top(rw)) => CrcT(rw, g, a) = a
  <1>1. TypeBits(rw, g) \in Nat /\ Top(rw) <= TypeBits(rw, g) /\ Top(rw) \in Nat
    BY TypeHolds
  <1>2. CrcT(rw, g, a) = a \cap (0 .. TypeBits(rw, g) - 1)
    BY DEF CrcT, Ones
  <1>3. \A x \in 0 .. Top(rw) - 1 : x \in 0 .. TypeBits(rw, g) - 1
    BY <1>1
  <1> QED
    BY <1>2, <1>3, CapWord DEF Ones

CfgOf(rw, g, name, a) ==
    IF {"width", name} \cap g.undefined = {"width"} THEN a ELSE a \cap Mask(rw)

LEMMA CfgIs ==
    ASSUME NEW rw, NEW g, Fits(rw, g)
    PROVE  /\ Cfg(rw, g).poly \in Word /\ Cfg(rw, g).xor_in \in Word /\ Cfg(rw, g).xor_out \in Word
           /\ Cfg(rw, g).poly \cap Ones(rw.width) = Masked(rw).poly
           /\ Cfg(rw, g).xor_in \cap Ones(rw.width) = Masked(rw).xor_in
           /\ Cfg(rw, g).xor_out \cap Ones(rw.width) = Masked(rw).xor_out
           /\ Given(g, {"width"}) => /\ Cfg(rw, g).poly = Masked(rw).poly
                                     /\ Cfg(rw, g).xor_in = Masked(rw).xor_in
                                     /\ Cfg(rw, g).xor_out = Masked(rw).xor_out
  <1>1. rw \in [width : Nat \ {0}, poly : Word, reflect_in : BOOLEAN, xor_in : Word,
                reflect_out : BOOLEAN, xor_out : Word]
    BY DEF RawParams, Fits
  <1>2. Cfg(rw, g) = [rw EXCEPT !.poly = CfgOf(rw, g, "poly", rw.poly),
                                !.xor_in = CfgOf(rw, g, "xor_in", rw.xor_in),
                                !.xor_out = CfgOf(rw, g, "xor_out", rw.xor_out)]
    BY DEF Cfg, CfgOf
  <1>3. /\ Cfg(rw, g).poly = CfgOf(rw, g, "poly", rw.poly)
        /\ Cfg(rw, g).xor_in = CfgOf(rw, g, "xor_in", rw.xor_in)
        /\ Cfg(rw, g).xor_out = CfgOf(rw, g, "xor_out", rw.xor_out)
    BY <1>1, <1>2
  <1>4. ASSUME NEW name, NEW a \in Word
        PROVE  /\ CfgOf(rw, g, name, a) \in Word
               /\ CfgOf(rw, g, name, a) \cap Ones(rw.width) = a \cap Ones(rw.width)
               /\ Given(g, {"width"}) => CfgOf(rw, g, name, a) = a \cap Ones(rw.width)
    <2>1. Mask(rw) = Ones(rw.width)
      BY DEF Mask
    <2>2. Given(g, {"width"}) => ~ ({"width", name} \cap g.undefined = {"width"})
      BY DEF Given
    <2> QED
      BY <2>1, <2>2, CapWord DEF CfgOf
  <1>5. rw \in RawParams
    BY DEF Fits
  <1>6. /\ rw.poly \in Word /\ rw.xor_in \in Word /\ rw.xor_out \in Word
        /\ Masked(rw).poly = rw.poly \cap Ones(rw.width)
        /\ Masked(rw).xor_in = rw.xor_in \cap Ones(rw.width)
        /\ Masked(rw).xor_out = rw.xor_out \cap Ones(rw.width)
    BY <1>5, MaskedIs
  <1> QED
    BY ONLY <1>3, <1>4, <1>6

LEMMA ShiftIs ==
    ASSUME NEW rw, NEW g, Fits(rw, g)
    PROVE  Shift(rw, g) = IF g.algorithm = "table-driven" THEN CrcShift(rw) ELSE 0
  <1>1. rw.width \in Nat
    BY MaskedIs DEF Fits
  <1> QED
    BY <1>1 DEF Shift, DoShift, CrcShift

\* The C89 int holds the highest bit.
Narrow(rw, g) == g.c_std = "C89" => rw.width <= 32

LEMMA BoolIs ==
    ASSUME NEW rw, NEW g, Fits(rw, g), Narrow(rw, g), NEW r \in Word
    PROVE  CBool(g, r \cap {MSB(rw)}) = (rw.width - 1 \in r)
  <1>1. rw.width \in Nat \ {0} /\ MSB(rw) = rw.width - 1
    BY MaskedIs DEF Fits
  <1>2. g.c_std = "C89" => rw.width - 1 \in 0 .. 32 - 1
    BY <1>1 DEF Narrow
  <1>3. CASE g.c_std = "C89"
    <2>1. CBool(g, r \cap {MSB(rw)}) = ((r \cap {rw.width - 1}) \cap (0 .. 32 - 1) # {})
      BY <1>1, <1>3 DEF CBool, Ones
    <2>2. ((r \cap {rw.width - 1}) \cap (0 .. 32 - 1) # {}) = (rw.width - 1 \in r)
      BY <1>2, <1>3
    <2> QED
      BY <2>1, <2>2
  <1>4. CASE g.c_std # "C89"
    BY <1>1, <1>4 DEF CBool
  <1> QED
    BY <1>3, <1>4
-----------------------------------------------------------------------------
\* One bit of bit-by-bit, and one of bit-by-bit-fast.
LEMMA PolyBits ==
    ASSUME NEW rw, NEW g, Fits(rw, g), NEW x \in Int, x < rw.width
    PROVE  x \in Cfg(rw, g).poly <=> x \in Masked(rw).poly
  <1>1. /\ Cfg(rw, g).poly \in Word /\ Cfg(rw, g).poly \cap Ones(rw.width) = Masked(rw).poly
        /\ rw.width \in Nat
    BY CfgIs, MaskedIs DEF Fits
  <1>2. x \in Cfg(rw, g).poly => x \in 0 .. rw.width - 1
    BY <1>1 DEF Word
  <1> QED
    BY <1>1, <1>2 DEF Ones

LEMMA BitPassIs ==
    ASSUME NEW rw, NEW g, Fits(rw, g), Narrow(rw, g), NEW t \in BOOLEAN,
           NEW r \in Word, NEW v \in Word, <<r, v>> \in Related(rw.width)
    PROVE  /\ BitByBitCPass(rw, g, r, BitOf(t)) \in Word
           /\ BitByBitBit(Masked(rw), v, BitOf(t)) \in Word
           /\ <<BitByBitCPass(rw, g, r, BitOf(t)), BitByBitBit(Masked(rw), v, BitOf(t))>>
                \in Related(rw.width)
  <1> DEFINE w == rw.width
             ps == Masked(rw)
             b == w - 1 \in r
             y == ShiftLeft(r, 1) \cup BitOf(t)
             u == XorIf(b, y, Cfg(rw, g).poly)
             C == BitByBitCPass(rw, g, r, BitOf(t))
             B == BitByBitBit(ps, v, BitOf(t))
  <1>1. /\ Params(ps) /\ ps.width = w /\ w \in Nat \ {0} /\ Cfg(rw, g).poly \in Word
        /\ Top(rw) \in Nat /\ Top(rw) >= w
    BY MaskedIs, CfgIs, TypeHolds DEF Fits
  <1>2. CBool(g, r \cap {MSB(rw)}) = b
    BY BoolIs
  <1>3. C = CrcT(rw, g, u)
    BY <1>2 DEF BitByBitCPass
  <1>4. y \in Word /\ \A x \in Int : x \in y <=> x - 1 \in r \/ (t /\ x = 0)
    <2>1. ShiftLeft(r, 1) \in Word /\ \A x \in Int : x \in ShiftLeft(r, 1) <=> x - 1 \in r
      BY LeftWord, InLeft
    <2>2. BitOf(t) \in Word /\ \A x \in Int : x \in BitOf(t) <=> t /\ x = 0
      BY DEF BitOf, Word
    <2>3. y \in Word
      BY <2>1, <2>2 DEF Word
    <2>4. \A x : x \in y <=> x \in ShiftLeft(r, 1) \/ x \in BitOf(t)
      OBVIOUS
    <2> HIDE DEF y
    <2> QED
      BY <2>1, <2>2, <2>3, <2>4
  <1>5. b \in BOOLEAN
    OBVIOUS
  <1> HIDE DEF y
  <1>6. u \in Word /\ \A x : x \in u <=> ~ (x \in y <=> b /\ x \in Cfg(rw, g).poly)
    <2> HIDE DEF b
    <2> QED
      BY <1>1, <1>4, <1>5, XorIfWord, InXorIf
  <1>7. /\ B \in Word
        /\ \A x \in Int : x \in B <=> ~ ((x \in 0 .. w - 1 /\ x - 1 \in v) \/ (t /\ x = 0)
                                          <=> w - 1 \in v /\ x \in ps.poly)
    <2> HIDE DEF ps, w
    <2>1. /\ BitByBitBit(ps, v, BitOf(t)) \in Word
          /\ \A x \in Int :
               x \in BitByBitBit(ps, v, BitOf(t))
                 <=> ~ ((x \in 0 .. ps.width - 1 /\ x - 1 \in v) \/ (t /\ x = 0)
                         <=> ps.width - 1 \in v /\ x \in ps.poly)
      BY <1>1, InBit
    <2> QED
      BY <1>1, <2>1
  <1>8. \A x \in 0 .. w - 1 : x \in r <=> x \in v
    BY InRelated
  <1> HIDE DEF u, C, B, b
  <1>9. C \in Word /\ \A x \in 0 .. w - 1 : x \in C <=> x \in u
    <2>1. \A x \in 0 .. w - 1 : x \in 0 .. Top(rw) - 1
      BY <1>1
    <2> QED
      BY <1>3, <1>6, <2>1, InCrcT
  <1>10. ASSUME NEW x \in 0 .. w - 1 PROVE x \in C <=> x \in B
    <2>1. x \in Cfg(rw, g).poly <=> x \in ps.poly
      BY <1>1, PolyBits
    <2>2. b <=> w - 1 \in v
      BY <1>1, <1>8 DEF b
    <2>3. x - 1 \in r <=> x - 1 \in v
      <3>1. CASE x = 0
        BY <3>1 DEF Word
      <3>2. CASE x # 0
        <4>1. x - 1 \in 0 .. w - 1
          BY <1>1, <3>2
        <4> QED
          BY <1>8, <4>1
      <3> QED
        BY <3>1, <3>2
    <2>4. x \in C <=> ~ (x - 1 \in r \/ (t /\ x = 0) <=> b /\ x \in Cfg(rw, g).poly)
      BY <1>4, <1>6, <1>9
    <2>5. x \in B <=> ~ (x - 1 \in v \/ (t /\ x = 0) <=> w - 1 \in v /\ x \in ps.poly)
      BY <1>7
    <2> QED
      BY ONLY <2>1, <2>2, <2>3, <2>4, <2>5
  <1>11. <<C, B>> \in Related(w)
    BY <1>7, <1>9, <1>10, InRelated
  <1> QED
    BY <1>7, <1>9, <1>11 DEF C, B, ps, w

\* A bit of the octet enters at the top of the register.
FastCPass(rw, g, r, t) ==
    CrcT(rw, g, XorIf(CBool(g, r \cap {MSB(rw)}) # t, ShiftLeft(r, 1), Cfg(rw, g).poly))

LEMMA FastPassIs ==
    ASSUME NEW rw, NEW g, Fits(rw, g), Narrow(rw, g), NEW o, NEW k \in 0 .. 7,
           NEW r \in Word, NEW v \in Word, <<r, v>> \in Related(rw.width)
    PROVE  /\ FastCPass(rw, g, r, 7 - k \in o) \in Word
           /\ FastPass(Masked(rw), o)[k][v] \in Word
           /\ <<FastCPass(rw, g, r, 7 - k \in o), FastPass(Masked(rw), o)[k][v]>> \in Related(rw.width)
  <1> DEFINE w == rw.width
             ps == Masked(rw)
             t == 7 - k \in o
             b == (w - 1 \in r) # t
             u == XorIf(b, ShiftLeft(r, 1), Cfg(rw, g).poly)
             C == FastCPass(rw, g, r, t)
             B == FastPass(ps, o)[k][v]
  <1>1. /\ Params(ps) /\ ps.width = w /\ w \in Nat \ {0} /\ Cfg(rw, g).poly \in Word
        /\ Top(rw) \in Nat /\ Top(rw) >= w
    BY MaskedIs, CfgIs, TypeHolds DEF Fits
  <1>2. CBool(g, r \cap {MSB(rw)}) = (w - 1 \in r)
    BY BoolIs
  <1>3. C = CrcT(rw, g, u)
    BY <1>2 DEF FastCPass
  <1>4. ShiftLeft(r, 1) \in Word /\ \A x \in Int : x \in ShiftLeft(r, 1) <=> x - 1 \in r
    BY LeftWord, InLeft
  <1>5. b \in BOOLEAN /\ (b <=> ~ (w - 1 \in r <=> 7 - k \in o))
    OBVIOUS
  <1>7. /\ B \in Word
        /\ \A x \in Int : x \in B <=> ~ (x - 1 \in v <=> ~ (w - 1 \in v <=> 7 - k \in o) /\ x \in ps.poly)
    <2> HIDE DEF ps, w
    <2>1. /\ Takes(8, FastPass(ps, o))
          /\ \A i \in 0 .. 7, r_ \in Word, x \in Int :
                x \in FastPass(ps, o)[i][r_]
                  <=> ~ (x - 1 \in r_ <=> ~ (ps.width - 1 \in r_ <=> 7 - i \in o) /\ x \in ps.poly)
      BY <1>1, FastTakes
    <2>2. FastPass(ps, o)[k] \in [Word -> Word]
      <3>1. k \in 0 .. 8 - 1
        OBVIOUS
      <3> QED
        BY <2>1, <3>1 DEF Takes
    <2> QED
      BY <1>1, <2>1, <2>2
  <1>8. \A x \in 0 .. w - 1 : x \in r <=> x \in v
    BY InRelated
  <1> HIDE DEF b, C, B
  <1>6. u \in Word /\ \A x : x \in u <=> ~ (x \in ShiftLeft(r, 1) <=> b /\ x \in Cfg(rw, g).poly)
    BY <1>1, <1>4, <1>5, XorIfWord, InXorIf
  <1> HIDE DEF u
  <1>9. C \in Word /\ \A x \in 0 .. w - 1 : x \in C <=> x \in u
    <2>1. \A x \in 0 .. w - 1 : x \in 0 .. Top(rw) - 1
      BY <1>1
    <2> QED
      BY <1>3, <1>6, <2>1, InCrcT
  <1>10. ASSUME NEW x \in 0 .. w - 1 PROVE x \in C <=> x \in B
    <2>1. x \in Cfg(rw, g).poly <=> x \in ps.poly
      BY <1>1, PolyBits
    <2>2. w - 1 \in r <=> w - 1 \in v
      BY <1>1, <1>8
    <2>3. x - 1 \in r <=> x - 1 \in v
      <3>1. CASE x = 0
        BY <3>1 DEF Word
      <3>2. CASE x # 0
        <4>1. x - 1 \in 0 .. w - 1
          BY <1>1, <3>2
        <4> QED
          BY <1>8, <4>1
      <3> QED
        BY <3>1, <3>2
    <2>4. x \in C <=> ~ (x - 1 \in r <=> b /\ x \in Cfg(rw, g).poly)
      BY <1>4, <1>6, <1>9
    <2>5. x \in B <=> ~ (x - 1 \in v <=> ~ (w - 1 \in v <=> 7 - k \in o) /\ x \in ps.poly)
      BY <1>7
    <2> QED
      BY ONLY <1>5, <2>1, <2>2, <2>3, <2>4, <2>5
  <1>11. <<C, B>> \in Related(w)
    BY <1>7, <1>9, <1>10, InRelated
  <1> QED
    BY <1>7, <1>9, <1>11 DEF C, B, ps, w

\* Their loops over the bits of an octet.
BitCPass(rw, g, o) ==
    [i \in 0 .. 7 |-> [r \in Word |->
        BitByBitCPass(rw, g, r, IF 7 - i \in o THEN {0} ELSE {})]]

FastCLoop(rw, g, upwards, c) ==
    [k \in 0 .. 7 |-> [r \in Word |->
        LET i == IF upwards THEN k ELSE 7 - k IN
        CrcT(rw, g, XorIf(CBool(g, r \cap {MSB(rw)}) # (i \in c), ShiftLeft(r, 1),
                          Cfg(rw, g).poly))]]

LEMMA CutRelated ==
    ASSUME NEW m, NEW a \in Word, NEW b \in Word, <<a, b>> \in Related(m)
    PROVE  <<a \cap Ones(m), b>> \in Related(m) /\ <<a \cap Ones(m), b \cap Ones(m)>> \in Related(m)
  <1>1. a \cap Ones(m) \in Word /\ b \cap Ones(m) \in Word
    BY CapWord
  <1>2. \A x \in 0 .. m - 1 : x \in a <=> x \in b
    BY InRelated
  <1>3. \A x \in 0 .. m - 1 : x \in a \cap Ones(m) <=> x \in b
    BY <1>2 DEF Ones
  <1>4. \A x \in 0 .. m - 1 : x \in a \cap Ones(m) <=> x \in b \cap Ones(m)
    BY <1>2
  <1>5. <<a \cap Ones(m), b>> \in Related(m)
    BY <1>1, <1>3, InRelated
  <1>6. <<a \cap Ones(m), b \cap Ones(m)>> \in Related(m)
    BY <1>1, <1>4, InRelated
  <1> QED
    BY <1>5, <1>6

LEMMA BitOctetIs ==
    ASSUME NEW rw, NEW g, Fits(rw, g), Narrow(rw, g), NEW c \in Octet,
           NEW r \in Word, NEW v \in Word, <<r, v>> \in Related(rw.width)
    PROVE  /\ BitByBitCOctet(rw, g, r, c) \in Word /\ BitByBitOctet(Masked(rw), v, c) \in Word
           /\ <<BitByBitCOctet(rw, g, r, c), BitByBitOctet(Masked(rw), v, c)>> \in Related(rw.width)
  <1> DEFINE ps == Masked(rw)
             o == ReflectIf(rw.reflect_in, c, 8)
             f == BitCPass(rw, g, o)
             h == BitPass(ps, o)
  <1>1. Params(ps) /\ ps.reflect_in = rw.reflect_in /\ Mask(rw) = Ones(rw.width)
    BY MaskedIs DEF Fits
  <1>2. BitByBitCOctet(rw, g, r, c) = Times(8, f, r) \cap Mask(rw)
    BY Zenon DEF BitByBitCOctet, BitCPass
  <1>3. BitByBitOctet(ps, v, c) = Times(8, h, v)
    BY <1>1, Zenon DEF BitByBitOctet, BitPass
  <1> HIDE DEF ps, o
  <1>4. ASSUME NEW i \in 0 .. 7, NEW r_ \in Word, NEW v_ \in Word, <<r_, v_>> \in Related(rw.width)
        PROVE  f[i][r_] \in Word /\ <<f[i][r_], h[i][v_]>> \in Related(rw.width)
    <2> DEFINE t == 7 - i \in o
    <2>1. f[i][r_] = BitByBitCPass(rw, g, r_, BitOf(t))
      BY DEF BitCPass, BitOf
    <2>2. h[i][v_] = BitByBitBit(ps, v_, BitOf(t))
      BY <1>1, BitTakes
    <2>3. t \in BOOLEAN
      OBVIOUS
    <2> HIDE DEF t, f, h
    <2> QED
      BY <1>4, <2>1, <2>2, <2>3, BitPassIs DEF ps
  <1>5. Takes(8, f) /\ Takes(8, h)
    <2>1. ASSUME NEW i \in 0 .. 7 PROVE f[i] \in [Word -> Word]
      <3>1. \A r_ \in Word : <<r_, r_>> \in Related(rw.width)
        BY InRelated
      <3>2. \A r_ \in Word : f[i][r_] \in Word
        BY <1>4, <3>1
      <3>3. f[i] = [r_ \in Word |-> f[i][r_]]
        BY DEF BitCPass
      <3> HIDE DEF f
      <3> QED
        BY <3>2, <3>3
    <2>2. \A i \in 0 .. 8 - 1 : i \in 0 .. 7
      OBVIOUS
    <2> HIDE DEF f
    <2> QED
      BY <1>1, <2>1, <2>2, BitTakes DEF Takes
  <1>6. <<Times(8, f, r), Times(8, h, v)>> \in Related(rw.width)
    <2>1. \A i \in 0 .. 8 - 1 : i \in 0 .. 7
      OBVIOUS
    <2> HIDE DEF f, h
    <2> QED
      BY <1>4, <1>5, <2>1, TimesRelated
  <1>7. Times(8, f, r) \in Word /\ Times(8, h, v) \in Word
    <2> HIDE DEF f, h
    <2> QED
      BY <1>5, TimesWord
  <1> HIDE DEF f, h
  <1> QED
    BY <1>1, <1>2, <1>3, <1>6, <1>7, CutRelated, CapWord DEF ps

LEMMA FastOctetBits ==
    ASSUME NEW rw, NEW g, Fits(rw, g), Narrow(rw, g), NEW c \in Octet,
           NEW r \in Word, NEW v \in Word, <<r, v>> \in Related(rw.width)
    PROVE  /\ BitByBitFastCOctet(rw, g, r, c) \in Word /\ BitByBitFastOctet(Masked(rw), v, c) \in Word
           /\ <<BitByBitFastCOctet(rw, g, r, c), BitByBitFastOctet(Masked(rw), v, c)>>
                \in Related(rw.width)
  <1> DEFINE ps == Masked(rw)
             o == ReflectIf(ps.reflect_in, c, 8)
             upwards == rw.reflect_in /\ Given(g, {"reflect_in"})
             d == ReflectIf(rw.reflect_in /\ ~ upwards, c, 8)
             f == FastCLoop(rw, g, upwards, d)
             h == FastPass(ps, o)
  <1>1. /\ Params(ps) /\ ps.reflect_in = rw.reflect_in /\ rw.reflect_in \in BOOLEAN
        /\ Mask(rw) = Ones(rw.width) /\ Mask(ps) = Ones(rw.width)
    BY MaskedIs DEF Fits
  <1>2. BitByBitFastCOctet(rw, g, r, c) = Times(8, f, r) \cap Mask(rw)
    BY Zenon DEF BitByBitFastCOctet, FastCLoop
  <1>3. BitByBitFastOctet(ps, v, c) = Times(8, h, v) \cap Mask(ps)
    BY FastOctetIs
  <1>o. \A k \in 0 .. 7 : 7 - k \in o <=> (IF upwards THEN k ELSE 7 - k) \in d
    <2>1. \A t \in BOOLEAN : \A x \in Int : x \in ReflectIf(t, c, 8) <=> IF t THEN 7 - x \in c ELSE x \in c
      BY ReflectOctet
    <2>2. upwards \in BOOLEAN /\ (rw.reflect_in /\ ~ upwards) \in BOOLEAN
      BY <1>1 DEF Given
    <2>3. ASSUME NEW k \in 0 .. 7 PROVE 7 - k \in o <=> (IF upwards THEN k ELSE 7 - k) \in d
      <3>1. 7 - k \in Int /\ k \in Int /\ 7 - (7 - k) = k
        OBVIOUS
      <3>2. 7 - k \in o <=> IF rw.reflect_in THEN k \in c ELSE 7 - k \in c
        BY <1>1, <2>1, <3>1
      <3>3. \A x \in Int : x \in d <=> IF rw.reflect_in /\ ~ upwards THEN 7 - x \in c ELSE x \in c
        BY <2>1, <2>2
      <3>4. upwards => rw.reflect_in
        OBVIOUS
      <3> HIDE DEF upwards, d, o
      <3> QED
        BY <1>1, <2>2, <3>1, <3>2, <3>3, <3>4
    <2> QED
      BY <2>3
  <1> HIDE DEF ps, o, upwards, d
  <1>4. ASSUME NEW i \in 0 .. 7, NEW r_ \in Word, NEW v_ \in Word, <<r_, v_>> \in Related(rw.width)
        PROVE  f[i][r_] \in Word /\ <<f[i][r_], h[i][v_]>> \in Related(rw.width)
    <2>1. f[i][r_] = FastCPass(rw, g, r_, (IF upwards THEN i ELSE 7 - i) \in d)
      BY DEF FastCLoop, FastCPass
    <2>2. ((IF upwards THEN i ELSE 7 - i) \in d) = (7 - i \in o)
      BY <1>o
    <2>3. f[i][r_] = FastCPass(rw, g, r_, 7 - i \in o)
      BY <2>1, <2>2
    <2> HIDE DEF f, h
    <2> QED
      BY <1>4, <2>3, FastPassIs DEF ps, h
  <1>5. Takes(8, f) /\ Takes(8, h)
    <2>1. ASSUME NEW i \in 0 .. 7 PROVE f[i] \in [Word -> Word]
      <3>1. \A r_ \in Word : <<r_, r_>> \in Related(rw.width)
        BY InRelated
      <3>2. \A r_ \in Word : f[i][r_] \in Word
        BY <1>4, <3>1
      <3>3. f[i] = [r_ \in Word |-> f[i][r_]]
        BY DEF FastCLoop
      <3> HIDE DEF f
      <3> QED
        BY <3>2, <3>3
    <2>2. \A i \in 0 .. 8 - 1 : i \in 0 .. 7
      OBVIOUS
    <2> HIDE DEF f
    <2> QED
      BY <1>1, <2>1, <2>2, FastTakes DEF Takes
  <1>6. <<Times(8, f, r), Times(8, h, v)>> \in Related(rw.width)
    <2>1. \A i \in 0 .. 8 - 1 : i \in 0 .. 7
      OBVIOUS
    <2> HIDE DEF f, h
    <2> QED
      BY <1>4, <1>5, <2>1, TimesRelated
  <1>7. Times(8, f, r) \in Word /\ Times(8, h, v) \in Word
    <2> HIDE DEF f, h
    <2> QED
      BY <1>5, TimesWord
  <1> HIDE DEF f, h
  <1> QED
    BY <1>1, <1>2, <1>3, <1>6, <1>7, CutRelated, CapWord DEF ps

-----------------------------------------------------------------------------
\* The table of a program is that of class Crc, for every width of its index.
CEntryPass(rw, g, n, shift) ==
    [j \in 0 .. n - 1 |-> [r \in Word |->
        CrcT(rw, g, XorIf(MSB(rw) + shift \in r, ShiftLeft(r, 1), ShiftLeft(Cfg(rw, g).poly, shift)))]]

CEntryOf(rw, shift, last) ==
    (IF rw.reflect_in THEN ShiftLeft(reflect(ShiftRight(last, shift), rw.width), shift) ELSE last)
        \cap ShiftLeft(Mask(rw), shift)

CEntryFirst(rw, shift, n, i) ==
    ShiftLeft(ReflectIf(rw.reflect_in, i, n), rw.width - n + shift)

LEMMA EntryPassIs ==
    ASSUME NEW rw, NEW g, Fits(rw, g), NEW n \in 1 .. 8, NEW j \in 0 .. n - 1,
           NEW r \in Word, NEW v \in Word, <<r, v>> \in Related(Top(rw))
    PROVE  /\ CEntryPass(rw, g, n, CrcShift(rw))[j][r] \in Word
           /\ <<CEntryPass(rw, g, n, CrcShift(rw))[j][r], TablePass(Masked(rw), n)[j][v]>>
                \in Related(Top(rw))
  <1> DEFINE s == CrcShift(rw)
             ps == Masked(rw)
             m == Top(rw)
             b == MSB(rw) + s \in r
             z == ShiftLeft(Cfg(rw, g).poly, s)
             u == XorIf(b, ShiftLeft(r, 1), z)
             C == CEntryPass(rw, g, n, s)[j][r]
             B == TablePass(ps, n)[j][v]
  <1>1. /\ Params(ps) /\ ps.width = rw.width /\ CrcShift(ps) = s /\ rw.width \in Nat \ {0}
        /\ Cfg(rw, g).poly \in Word /\ m \in Nat /\ m = rw.width + s /\ s \in Nat
        /\ MSB(rw) = rw.width - 1
    BY MaskedIs, CfgIs, TypeHolds DEF Fits
  <1>2. C = CrcT(rw, g, u)
    BY DEF CEntryPass
  <1>3. /\ ShiftLeft(r, 1) \in Word /\ z \in Word
        /\ \A x \in Int : x \in ShiftLeft(r, 1) <=> x - 1 \in r
        /\ \A x \in Int : x \in z <=> x - s \in Cfg(rw, g).poly
    <2>1. PICK a \in Word : a = Cfg(rw, g).poly
      BY <1>1
    <2>2. s \in Nat /\ s \in Int /\ 1 \in Nat /\ 1 \in Int
      BY <1>1
    <2>3. z = ShiftLeft(a, s)
      BY <2>1
    <2> HIDE DEF s, z
    <2>4. ShiftLeft(r, 1) \in Word /\ ShiftLeft(a, s) \in Word
      BY <2>2, LeftWord
    <2>5. \A x \in Int : x \in ShiftLeft(r, 1) <=> x - 1 \in r
      BY <2>2, InLeft
    <2>6. \A x \in Int : x \in ShiftLeft(a, s) <=> x - s \in a
      BY <2>2, InLeft
    <2> QED
      BY <2>1, <2>3, <2>4, <2>5, <2>6
  <1>4. b \in BOOLEAN /\ (b <=> m - 1 \in r)
    <2>1. MSB(rw) + s = m - 1
      <3> HIDE DEF m, s
      <3> QED
        BY <1>1
    <2> QED
      BY <2>1
  <1>5. /\ B \in Word
        /\ \A x \in Int : x \in B <=> ~ (x - 1 \in v <=> m - 1 \in v /\ x - s \in ps.poly)
    <2> HIDE DEF ps, s, m
    <2>1. /\ Takes(n, TablePass(ps, n))
          /\ \A i \in 0 .. n - 1, r_ \in Word, x \in Int :
               x \in TablePass(ps, n)[i][r_]
                 <=> ~ (x - 1 \in r_ <=> /\ ps.width + CrcShift(ps) - 1 \in r_
                                         /\ x - CrcShift(ps) \in ps.poly)
      BY <1>1, TableTakes
    <2>2. TablePass(ps, n)[j] \in [Word -> Word]
      BY <2>1 DEF Takes
    <2>3. ps.width + CrcShift(ps) - 1 = m - 1
      BY <1>1
    <2> QED
      BY <1>1, <2>1, <2>2, <2>3
  <1>6. \A x \in 0 .. m - 1 : x \in r <=> x \in v
    BY InRelated
  <1> HIDE DEF s, ps, m, b, z, C, B
  <1>7. u \in Word /\ \A x : x \in u <=> ~ (x \in ShiftLeft(r, 1) <=> b /\ x \in z)
    BY <1>3, <1>4, XorIfWord, InXorIf
  <1> HIDE DEF u
  <1>8. C \in Word /\ \A x \in 0 .. m - 1 : x \in C <=> x \in u
    BY <1>2, <1>7, InCrcT DEF m
  <1>9. ASSUME NEW x \in 0 .. m - 1 PROVE x \in C <=> x \in B
    <2>1. x - s \in Cfg(rw, g).poly <=> x - s \in ps.poly
      <3>1. PICK y \in Int : y = x - s
        BY <1>1
      <3>2. y < rw.width
        BY <1>1, <3>1
      <3>3. y \in Cfg(rw, g).poly <=> y \in ps.poly
        BY <3>2, PolyBits DEF ps
      <3> QED
        BY <3>1, <3>3
    <2>2. b <=> m - 1 \in v
      BY <1>1, <1>4, <1>6
    <2>3. x - 1 \in r <=> x - 1 \in v
      <3>1. CASE x = 0
        BY <3>1 DEF Word
      <3>2. CASE x # 0
        <4>1. x - 1 \in 0 .. m - 1
          BY <1>1, <3>2
        <4> QED
          BY <1>6, <4>1
      <3> QED
        BY <3>1, <3>2
    <2>4. x \in C <=> ~ (x - 1 \in r <=> b /\ x - s \in Cfg(rw, g).poly)
      BY <1>3, <1>7, <1>8
    <2>5. x \in B <=> ~ (x - 1 \in v <=> m - 1 \in v /\ x - s \in ps.poly)
      BY <1>5
    <2> QED
      BY ONLY <2>1, <2>2, <2>3, <2>4, <2>5
  <1>10. <<C, B>> \in Related(m)
    BY <1>5, <1>8, <1>9, InRelated
  <1> QED
    BY <1>8, <1>10 DEF C, B, ps, s, m

\* An entry depends on the bits of the last word below the highest of the CRC.
LEMMA EntryAlike ==
    ASSUME NEW ps, Params(ps), NEW a \in Word, NEW b \in Word,
           <<a, b>> \in Related(Top(ps))
    PROVE  EntryOf(ps, a) = EntryOf(ps, b)
  <1> DEFINE w == ps.width
             s == CrcShift(ps)
  <1>1. w \in Nat \ {0} /\ s \in Nat /\ Top(ps) = w + s /\ ps.reflect_in \in BOOLEAN
    BY ShiftBounds DEF Top, Params
  <1>2. /\ EntryOf(ps, a) \in Word /\ EntryOf(ps, b) \in Word
        /\ \A x \in Int : x \in EntryOf(ps, a)
             <=> x - s \in 0 .. w - 1 /\ IF ps.reflect_in THEN w - 1 - (x - s) + s \in a ELSE x \in a
        /\ \A x \in Int : x \in EntryOf(ps, b)
             <=> x - s \in 0 .. w - 1 /\ IF ps.reflect_in THEN w - 1 - (x - s) + s \in b ELSE x \in b
    BY InEntry
  <1>3. \A x \in 0 .. Top(ps) - 1 : x \in a <=> x \in b
    BY InRelated
  <1> HIDE DEF w, s
  <1>4. ASSUME NEW x \in Nat PROVE x \in EntryOf(ps, a) <=> x \in EntryOf(ps, b)
    <2>1. PICK y \in Int : y = w - 1 - (x - s) + s
      BY <1>1
    <2>2. x - s \in 0 .. w - 1 => y \in 0 .. Top(ps) - 1 /\ x \in 0 .. Top(ps) - 1
      BY <1>1, <2>1
    <2>3. x - s \in 0 .. w - 1 => (y \in a <=> y \in b) /\ (x \in a <=> x \in b)
      BY <1>3, <2>2
    <2>4. x \in EntryOf(ps, a)
             <=> x - s \in 0 .. w - 1 /\ IF ps.reflect_in THEN y \in a ELSE x \in a
      BY <1>2, <2>1
    <2>5. x \in EntryOf(ps, b)
             <=> x - s \in 0 .. w - 1 /\ IF ps.reflect_in THEN y \in b ELSE x \in b
      BY <1>2, <2>1
    <2> QED
      BY ONLY <1>1, <2>3, <2>4, <2>5
  <1> QED
    BY <1>2, <1>4, SameWord

LEMMA IdxWidth ==
    ASSUME NEW rw, NEW g, Fits(rw, g)
    PROVE  g.table_idx_width \in {1, 2, 4, 8}
  BY DEF Fits, Programs

LEMMA CTableEntryIs ==
    ASSUME NEW rw, NEW g, Fits(rw, g), g.algorithm = "table-driven",
           NEW i \in SUBSET Ones(g.table_idx_width)
    PROVE  CTableEntry(rw, g, i) = TableEntry(Masked(rw), g.table_idx_width, i)
  <1> DEFINE n == g.table_idx_width
             ps == Masked(rw)
             s == CrcShift(rw)
             first == EntryFirst(ps, n, i)
             f == CEntryPass(rw, g, n, s)
             h == TablePass(ps, n)
  <1>1. CASE Given(g, {"width", "poly", "reflect_in"})
    BY <1>1 DEF CTableEntry
  <1>2. CASE ~ Given(g, {"width", "poly", "reflect_in"})
    <2>1. /\ Params(ps) /\ ps.width = rw.width /\ ps.reflect_in = rw.reflect_in
          /\ Mask(ps) = Mask(rw) /\ CrcShift(ps) = s /\ Shift(rw, g) = s
          /\ n \in 1 .. 8 /\ n \in Nat /\ Top(ps) = Top(rw)
      <3>1. n \in 1 .. 8 /\ n \in Nat
        BY IdxWidth
      <3> QED
        BY <3>1, MaskedIs, ShiftIs DEF Fits, Top
    <2>2. CTableEntry(rw, g, i)
            = CEntryOf(rw, Shift(rw, g),
                       Times(n, CEntryPass(rw, g, n, Shift(rw, g)),
                             CrcT(rw, g, CEntryFirst(rw, Shift(rw, g), n, i))))
      BY <1>2, Zenon DEF CTableEntry, CEntryOf, CEntryPass, CEntryFirst
    <2>3. CEntryFirst(rw, s, n, i) = first
      BY <2>1 DEF CEntryFirst, EntryFirst
    <2>4. \A last : CEntryOf(rw, s, last) = EntryOf(ps, last)
      BY <2>1 DEF CEntryOf, EntryOf
    <2>5. first \in Word /\ <<CrcT(rw, g, first), first>> \in Related(Top(rw)) /\ CrcT(rw, g, first) \in Word
      <3>1. first \in Word
        BY <2>1, InEntryFirst
      <3> HIDE DEF first
      <3>2. CrcT(rw, g, first) \in Word
            /\ \A x \in 0 .. Top(rw) - 1 : x \in CrcT(rw, g, first) <=> x \in first
        BY <3>1, InCrcT
      <3> QED
        BY <3>1, <3>2, InRelated
    <2>6. \A j \in 0 .. n - 1 : \A r, v \in Word : <<r, v>> \in Related(Top(rw))
             => f[j][r] \in Word /\ <<f[j][r], h[j][v]>> \in Related(Top(rw))
      <3> SUFFICES ASSUME NEW j \in 0 .. n - 1, NEW r \in Word, NEW v \in Word,
                          <<r, v>> \in Related(Top(rw))
                   PROVE  f[j][r] \in Word /\ <<f[j][r], h[j][v]>> \in Related(Top(rw))
        OBVIOUS
      <3> HIDE DEF n
      <3> QED
        BY <2>1, EntryPassIs
    <2>7. Takes(n, f) /\ Takes(n, h)
      <3>1. ASSUME NEW j \in 0 .. n - 1 PROVE f[j] \in [Word -> Word]
        <4>1. \A r \in Word : <<r, r>> \in Related(Top(rw))
          BY InRelated
        <4>2. \A r \in Word : f[j][r] \in Word
          BY <2>6, <4>1
        <4>3. f[j] = [r \in Word |-> f[j][r]]
          BY DEF CEntryPass
        <4> HIDE DEF f
        <4> QED
          BY <4>2, <4>3
      <3> HIDE DEF f, n
      <3> QED
        BY <2>1, <3>1, TableTakes DEF Takes
    <2> HIDE DEF f, h, first, n
    <2>8. <<Times(n, f, CrcT(rw, g, first)), Times(n, h, first)>> \in Related(Top(rw))
          /\ Times(n, f, CrcT(rw, g, first)) \in Word /\ Times(n, h, first) \in Word
      BY <2>1, <2>5, <2>6, <2>7, TimesRelated, TimesWord
    <2>9. CTableEntry(rw, g, i) = EntryOf(ps, Times(n, f, CrcT(rw, g, first)))
      BY <2>1, <2>2, <2>3, <2>4 DEF f
    <2>10. TableEntry(ps, n, i) = EntryOf(ps, Times(n, h, first))
      BY TableEntryIs DEF h, first
    <2>11. EntryOf(ps, Times(n, f, CrcT(rw, g, first))) = EntryOf(ps, Times(n, h, first))
      <3> HIDE DEF ps
      <3> QED
        BY <2>1, <2>8, EntryAlike
    <2> QED
      BY <2>9, <2>10, <2>11 DEF n, ps
  <1> QED
    BY <1>1, <1>2

\* One step of a program takes n bits, unless it shifts the register to the
\* left by less than crc_shift.
Shiftable(rw, g) == rw.reflect_in \/ g.table_idx_width = 8 \/ CrcShift(rw) = 0

SteppedWord(ps, n, R, bits) ==
    IF ps.reflect_in
    THEN Xor(TableEntry(ps, n, TableIdx(ps, n, R, bits)), ShiftRight(R, n))
    ELSE Xor(TableEntry(ps, n, TableIdx(ps, n, R, bits)), ShiftLeft(R, n - CrcShift(ps)))

LEMMA TableCStepIs ==
    ASSUME NEW rw, NEW g, Fits(rw, g), g.algorithm = "table-driven",
           NEW R \in Word, NEW bits
    PROVE  TableCStep(rw, g, R, bits)
             = CrcT(rw, g, SteppedWord(Masked(rw), g.table_idx_width, R, bits))
  <1> DEFINE n == g.table_idx_width
             ps == Masked(rw)
             s == CrcShift(rw)
             i == TableIdx(ps, n, R, bits)
  <1>1. /\ Params(ps) /\ ps.width = rw.width /\ ps.reflect_in = rw.reflect_in
        /\ CrcShift(ps) = s /\ Shift(rw, g) = s /\ n \in 1 .. 8
    BY IdxWidth, MaskedIs, ShiftIs DEF Fits
  <1>2. i \in SUBSET Ones(n)
    <2> HIDE DEF n, ps
    <2> QED
      BY <1>1, InTableIdx
  <1>3. CTableEntry(rw, g, i) = TableEntry(ps, n, i)
    <2> HIDE DEF i
    <2> QED
      BY <1>2, CTableEntryIs
  <1>4. CASE rw.reflect_in
    <2>1. i = Xor(ShiftRight(R, s), bits) \cap Ones(n)
      BY <1>1, <1>4 DEF TableIdx
    <2>2. TableCStep(rw, g, R, bits)
            = CrcT(rw, g, Xor(CTableEntry(rw, g, Xor(ShiftRight(R, Shift(rw, g)), bits) \cap Ones(n)),
                              ShiftRight(R, n)))
      BY <1>4, Zenon DEF TableCStep
    <2>3. SteppedWord(ps, n, R, bits) = Xor(TableEntry(ps, n, i), ShiftRight(R, n))
      BY <1>1, <1>4 DEF SteppedWord
    <2> HIDE DEF i, n, s, ps
    <2> QED
      BY <1>1, <1>3, <2>1, <2>2, <2>3 DEF n, ps
  <1>5. CASE ~ rw.reflect_in
    <2>1. i = Xor(ShiftRight(R, rw.width - n + s), bits) \cap Ones(n)
      BY <1>1, <1>5 DEF TableIdx
    <2>2. TableCStep(rw, g, R, bits)
            = CrcT(rw, g, Xor(CTableEntry(rw, g, Xor(ShiftRight(R, rw.width - n + Shift(rw, g)), bits)
                                                   \cap Ones(n)),
                              ShiftLeft(R, n - Shift(rw, g))))
      BY <1>5, Zenon DEF TableCStep
    <2>3. SteppedWord(ps, n, R, bits) = Xor(TableEntry(ps, n, i), ShiftLeft(R, n - s))
      BY <1>1, <1>5 DEF SteppedWord
    <2> HIDE DEF i, n, s, ps
    <2> QED
      BY <1>1, <1>3, <2>1, <2>2, <2>3 DEF n, ps
  <1> QED
    BY <1>4, <1>5

LEMMA InStepped ==
    ASSUME NEW rw, NEW g, Fits(rw, g), Shiftable(rw, g), NEW R \in Word, NEW bits
    PROVE  /\ SteppedWord(Masked(rw), g.table_idx_width, R, bits) \in Word
           /\ \A x \in Int :
                x \in SteppedWord(Masked(rw), g.table_idx_width, R, bits)
                  <=> ~ (x \in TableEntry(Masked(rw), g.table_idx_width,
                                         TableIdx(Masked(rw), g.table_idx_width, R, bits))
                          <=> IF rw.reflect_in THEN x >= 0 /\ x + g.table_idx_width \in R
                              ELSE x - (g.table_idx_width - CrcShift(rw)) \in R)
  <1> DEFINE n == g.table_idx_width
             ps == Masked(rw)
             s == CrcShift(rw)
             e == TableEntry(ps, n, TableIdx(ps, n, R, bits))
             u == SteppedWord(ps, n, R, bits)
  <1>1. /\ Params(ps) /\ ps.reflect_in = rw.reflect_in /\ CrcShift(ps) = s /\ n \in 1 .. 8 /\ s \in Nat
        /\ s <= 8
    <2>1. n \in 1 .. 8
      BY IdxWidth
    <2>2. rw \in RawParams
      BY DEF Fits
    <2>3. Params(ps) /\ ps.reflect_in = rw.reflect_in /\ CrcShift(ps) = s
      BY <2>2, MaskedIs
    <2>4. s \in Nat /\ s <= 8
      BY <2>2, MaskedIs, TypeHolds DEF CrcShift
    <2> QED
      BY <2>1, <2>3, <2>4
  <1>2. rw.reflect_in \/ n = 8 \/ s = 0
    BY DEF Shiftable
  <1>7. e \in Word
    <2>1. TableIdx(ps, n, R, bits) \in SUBSET Ones(n)
      <3> HIDE DEF ps, n
      <3> QED
        BY <1>1, InTableIdx
    <2> HIDE DEF ps, n
    <2> QED
      BY <1>1, <2>1, TableEntryWord
  <1>8. /\ u \in Word
        /\ \A x \in Int : x \in u <=> ~ (x \in e <=> IF rw.reflect_in THEN x >= 0 /\ x + n \in R
                                                                      ELSE x - (n - s) \in R)
    <2>1. CASE rw.reflect_in
      <3>1. u = Xor(e, ShiftRight(R, n))
        BY <1>1, <2>1 DEF SteppedWord
      <3> HIDE DEF e, u, n
      <3>0. PICK d \in Nat : d = n
        BY <1>1
      <3>2. ShiftRight(R, d) \in Word /\ \A x \in Int : x \in ShiftRight(R, d) <=> x >= 0 /\ x + d \in R
        BY RightWord, InRight
      <3>3. u = Xor(e, ShiftRight(R, d)) /\ u \in Word
        BY <1>7, <3>0, <3>1, <3>2, XorWord
      <3>4. \A x \in Int : x \in u <=> ~ (x \in e <=> x >= 0 /\ x + d \in R)
        BY <3>2, <3>3, InXor
      <3> QED
        BY <2>1, <3>0, <3>3, <3>4
    <2>2. CASE ~ rw.reflect_in
      <3>1. u = Xor(e, ShiftLeft(R, n - s))
        BY <1>1, <2>2 DEF SteppedWord
      <3> HIDE DEF e, u, n, s
      <3>0. PICK d \in Nat : d = n - s
        BY <1>1, <1>2, <2>2
      <3>2. ShiftLeft(R, d) \in Word /\ \A x \in Int : x \in ShiftLeft(R, d) <=> x - d \in R
        BY LeftWord, InLeft
      <3>3. u = Xor(e, ShiftLeft(R, d)) /\ u \in Word
        BY <1>7, <3>0, <3>1, <3>2, XorWord
      <3>4. \A x \in Int : x \in u <=> ~ (x \in e <=> x - d \in R)
        BY <3>2, <3>3, InXor
      <3> QED
        BY <2>2, <3>0, <3>3, <3>4
    <2> QED
      BY <2>1, <2>2
  <1> QED
    BY <1>8 DEF u, e, n, ps, s

LEMMA StepNear ==
    ASSUME NEW rw, NEW g, Fits(rw, g), g.algorithm = "table-driven", Shiftable(rw, g),
           NEW R \in Word, NEW bits, NEW o,
           Ordered(g.table_idx_width, rw.reflect_in, bits, o),
           NEW F, Steps(g.table_idx_width, F, rw.width, Masked(rw).poly, o),
           Near(Masked(rw), R, F[0])
    PROVE  /\ TableCStep(rw, g, R, bits) \in Word
           /\ Near(Masked(rw), TableCStep(rw, g, R, bits), F[g.table_idx_width])
  <1> DEFINE n == g.table_idx_width
             ps == Masked(rw)
             s == CrcShift(rw)
             w == rw.width
             m == Top(rw)
             e == TableEntry(ps, n, TableIdx(ps, n, R, bits))
             u == SteppedWord(ps, n, R, bits)
             N == TableCStep(rw, g, R, bits)
             T == Tabled(ps, F[0])
             U == Tabled(ps, F[n])
  <1>1. /\ Params(ps) /\ ps.width = w /\ ps.reflect_in = rw.reflect_in /\ rw.reflect_in \in BOOLEAN
        /\ CrcShift(ps) = s /\ n \in 1 .. 8 /\ w \in Nat \ {0} /\ s \in Nat
        /\ m \in Nat /\ m = w + s /\ m >= 8 /\ (s # 0 => m = 8)
    <2>1. n \in 1 .. 8
      BY IdxWidth
    <2>2. rw \in RawParams
      BY DEF Fits
    <2>3. /\ Params(ps) /\ ps.width = w /\ ps.reflect_in = rw.reflect_in /\ rw.reflect_in \in BOOLEAN
          /\ CrcShift(ps) = s /\ w \in Nat \ {0}
      BY <2>2, MaskedIs
    <2>4. s \in Nat /\ m \in Nat /\ m = w + s /\ m >= 8 /\ (s # 0 => m = 8)
      BY TypeHolds
    <2> QED
      BY <2>1, <2>3, <2>4
  <1>2. rw.reflect_in \/ n = 8 \/ s = 0
    BY DEF Shiftable
  <1>3. N = CrcT(rw, g, u)
    BY TableCStepIs
  <1>4. /\ F[0] \in Word /\ F[0] \subseteq 0 .. w - 1 /\ F[0] \subseteq Ones(w)
        /\ F[n] \in Word /\ F[n] \subseteq 0 .. w - 1 /\ F[n] \subseteq Ones(w)
    <2>1. 0 \in 0 .. n /\ n \in 0 .. n
      BY <1>1
    <2> QED
      BY <2>1 DEF Steps, Ones
  <1>5. /\ T \in Word /\ U \in Word
        /\ \A x \in Int : x \in T <=> IF rw.reflect_in
                                      THEN x - s \in 0 .. w - 1 /\ w - 1 - (x - s) \in F[0]
                                      ELSE x - s \in F[0]
        /\ \A x \in Int : x \in U <=> IF rw.reflect_in
                                      THEN x - s \in 0 .. w - 1 /\ w - 1 - (x - s) \in F[n]
                                      ELSE x - s \in F[n]
    <2> HIDE DEF ps, s, w, n
    <2> QED
      BY <1>1, <1>4, InTabled
  <1>6. \A x \in Int : x \in e
          <=> /\ x - s \in 0 .. w - 1
              /\ ~ IF rw.reflect_in
                   THEN w - 1 - (x - s) \in F[n] <=> w - 1 - (x - s) - n \in F[0]
                   ELSE x - s \in F[n] <=> x - s - n \in F[0]
    <2> HIDE DEF ps, s, w, n
    <2>1. Ordered(n, ps.reflect_in, bits, o) /\ Steps(n, F, ps.width, ps.poly, o) /\ Near(ps, R, F[0])
      BY <1>1 DEF ps, w, n
    <2> QED
      BY <1>1, <2>1, InEntryTaken
  <1>8. /\ u \in Word
        /\ \A x \in Int : x \in u <=> ~ (x \in e <=> IF rw.reflect_in THEN x >= 0 /\ x + n \in R
                                                                      ELSE x - (n - s) \in R)
    BY InStepped
  <1>9. N \in Word /\ N \subseteq u /\ \A x \in 0 .. m - 1 : x \in N <=> x \in u
    <2> HIDE DEF u, N
    <2> QED
      BY <1>3, <1>8, InCrcT
  <1>10. \A x \in Int : (IF rw.reflect_in THEN x >= s ELSE x < w + s) => (x \in R <=> x \in T)
    BY <1>1 DEF Near
  <1> HIDE DEF n, ps, s, w, m, e, u, N, T, U
  <1>11. ASSUME rw.reflect_in, NEW x \in Int, x >= s
         PROVE  x \in N <=> x \in U
    <2>1. PICK z \in Int : z = x + n
      BY <1>1
    <2>2. z \in R <=> z \in T
      BY <1>1, <1>10, <1>11, <2>1
    <2>3. z \in T <=> z - s \in 0 .. w - 1 /\ w - 1 - (z - s) \in F[0]
      BY <1>5, <1>11
    <2>4. w - 1 - (z - s) = w - 1 - (x - s) - n
      BY <1>1, <2>1
    <2>5. x \in u <=> ~ (x \in e <=> z \in R)
      BY <1>1, <1>8, <1>11, <2>1
    <2>6. x \in e <=> /\ x - s \in 0 .. w - 1
                      /\ ~ (w - 1 - (x - s) \in F[n] <=> w - 1 - (x - s) - n \in F[0])
      BY <1>6, <1>11
    <2>7. x \in U <=> x - s \in 0 .. w - 1 /\ w - 1 - (x - s) \in F[n]
      BY <1>5, <1>11
    <2>8. CASE x - s \in 0 .. w - 1
      <3>1. x \in 0 .. m - 1
        BY <1>1, <2>8
      <3>2. x \in N <=> x \in u
        BY <1>9, <3>1
      <3>3. w - 1 - (z - s) \in F[0] => z - s \in 0 .. w - 1
        <4>1. ASSUME w - 1 - (z - s) \in 0 .. w - 1 PROVE z - s \in 0 .. w - 1
          BY <1>1, <1>11, <2>1, <2>8, <4>1
        <4> QED
          BY <1>4, <4>1
      <3> QED
        BY ONLY <2>2, <2>3, <2>4, <2>5, <2>6, <2>7, <2>8, <3>2, <3>3
    <2>9. CASE ~ (x - s \in 0 .. w - 1)
      <3>1. ~ (z - s \in 0 .. w - 1)
        BY <1>1, <1>11, <2>1, <2>9
      <3>2. ~ (x \in u)
        BY ONLY <2>2, <2>3, <2>5, <2>6, <2>9, <3>1
      <3> QED
        BY <1>9, <2>7, <2>9, <3>2
    <2> QED
      BY <2>8, <2>9
  <1>12. ASSUME ~ rw.reflect_in, NEW x \in Int, x < w + s
         PROVE  x \in N <=> x \in U
    <2>1. PICK z \in Int : z = x - (n - s)
      BY <1>1
    <2>2. z < w + s
      BY <1>1, <1>2, <1>12, <2>1
    <2>3. z \in T <=> z - s \in F[0]
      BY <1>5, <1>12
    <2>4. z \in R <=> z \in T
      BY <1>10, <1>12, <2>2
    <2>5. x \in u <=> ~ (x \in e <=> z \in R)
      BY <1>8, <1>12, <2>1
    <2>6. x \in e <=> x - s \in 0 .. w - 1 /\ ~ (x - s \in F[n] <=> x - s - n \in F[0])
      BY <1>6, <1>12
    <2>7. x \in U <=> x - s \in F[n]
      BY <1>5, <1>12
    <2>8. z - s \in F[0] <=> x - s - n \in F[0]
      <3>1. CASE s = 0
        <4>1. z - s = x - s - n
          BY <1>1, <2>1, <3>1
        <4> QED
          BY <4>1
      <3>2. CASE s # 0
        <4>1. z - s < 0 /\ x - s - n < 0
          BY <1>1, <1>2, <1>12, <2>1, <3>2
        <4> QED
          BY <1>4, <4>1
      <3> QED
        BY <3>1, <3>2
    <2>9. CASE x \in 0 .. m - 1 /\ x - s \in 0 .. w - 1
      <3>1. x \in N <=> x \in u
        BY <1>9, <2>9
      <3> QED
        BY ONLY <2>3, <2>4, <2>5, <2>6, <2>7, <2>8, <2>9, <3>1
    <2>10. CASE ~ (x \in 0 .. m - 1 /\ x - s \in 0 .. w - 1)
      <3>1. x - s < 0 /\ x - s - n < 0
        BY <1>1, <1>12, <2>10
      <3>2. ~ (x - s \in F[n]) /\ ~ (x - s - n \in F[0]) /\ ~ (x - s \in 0 .. w - 1)
        BY <1>4, <3>1
      <3>3. ~ (x \in u)
        BY ONLY <2>3, <2>4, <2>5, <2>6, <2>8, <3>2
      <3> QED
        BY <1>9, <2>7, <3>2, <3>3
    <2> QED
      BY <2>9, <2>10
  <1>13. Near(ps, N, F[n])
    <2>1. \A x \in Int : (IF rw.reflect_in THEN x >= s ELSE x < w + s) => (x \in N <=> x \in U)
      BY <1>11, <1>12
    <2>2. U = Tabled(ps, F[n])
      BY DEF U
    <2> QED
      BY <1>1, <2>1, <2>2 DEF Near
  <1> QED
    BY <1>9, <1>13 DEF N, ps, n

\* The eight steps an octet makes the register take.
LEMMA SteppingExists ==
    ASSUME NEW ps, Params(ps), NEW o \in Octet, NEW v \in Word, v \subseteq Ones(ps.width)
    PROVE  \E F : /\ Stepping(F, ps.width, ps.poly, o) /\ F[0] = v
                  /\ Times(8, FastPass(ps, o), v) \cap Mask(ps) = F[8]
  <1> DEFINE w == ps.width
             f == [k \in 0 .. 7 |-> [r \in Word |-> Step(w, ps.poly, r, 7 - k \in o)]]
  <1>1. Generator(w, ps.poly)
    BY DEF Params
  <1>2. \A k \in 0 .. 7 : \A r \in Word : /\ f[k][r] = Step(w, ps.poly, r, 7 - k \in o)
                                          /\ f[k][r] \in Word /\ f[k][r] \subseteq Ones(w)
    <2> SUFFICES ASSUME NEW k \in 0 .. 7, NEW r \in Word
                 PROVE  /\ f[k][r] = Step(w, ps.poly, r, 7 - k \in o)
                        /\ f[k][r] \in Word /\ f[k][r] \subseteq Ones(w)
      OBVIOUS
    <2> DEFINE t == 7 - k \in o
    <2>1. t \in BOOLEAN
      OBVIOUS
    <2>2. f[k][r] = Step(w, ps.poly, r, 7 - k \in o)
      OBVIOUS
    <2>3. f[k][r] = Step(w, ps.poly, r, t)
      BY <2>2
    <2> HIDE DEF f, w, t
    <2>4. Step(w, ps.poly, r, t) \in Word /\ Step(w, ps.poly, r, t) \subseteq Ones(w)
      BY <1>1, <2>1, StepWord
    <2> QED
      BY <2>3, <2>4 DEF t
  <1>3. \A k \in 0 .. 7 : f[k] = [r \in Word |-> f[k][r]]
    OBVIOUS
  <1> HIDE DEF f
  <1>4. Takes(8, f)
    <2>1. \A k \in 0 .. 7 : f[k] \in [Word -> Word]
      BY <1>2, <1>3
    <2>2. \A k \in 0 .. 8 - 1 : k \in 0 .. 7
      OBVIOUS
    <2> QED
      BY <2>1, <2>2 DEF Takes
  <1>5. PICK F : Iterates(F, 8, f, v)
    BY <1>4, IteratesExists
  <1>6. /\ F \in [0 .. 8 -> Word] /\ F[0] = v
        /\ \A k \in 0 .. 7 : F[k + 1] = f[k][F[k]]
    <2>1. \A k \in 0 .. 7 : k \in 0 .. 8 - 1
      OBVIOUS
    <2> QED
      BY <1>5, <2>1 DEF Iterates
  <1>7. \A k \in 0 .. 7 : /\ F[k + 1] = Step(w, ps.poly, F[k], 7 - k \in o)
                          /\ F[k + 1] \subseteq Ones(w)
    <2>1. \A k \in 0 .. 7 : k \in 0 .. 8
      OBVIOUS
    <2> QED
      BY <1>2, <1>6, <2>1
  <1>8. \A k \in 0 .. 8 : F[k] \subseteq Ones(w)
    <2> SUFFICES ASSUME NEW k \in 0 .. 8 PROVE F[k] \subseteq Ones(w)
      OBVIOUS
    <2>1. CASE k = 0
      BY <1>6, <2>1
    <2>2. CASE k # 0
      <3>1. k - 1 \in 0 .. 7 /\ (k - 1) + 1 = k
        BY <2>2
      <3> QED
        BY <1>7, <3>1
    <2> QED
      BY <2>1, <2>2
  <1>9. Stepping(F, w, ps.poly, o)
    BY <1>6, <1>7, <1>8 DEF Stepping
  <1> QED
    BY <1>6, <1>9, FastSteps

\* An octet is cut into pieces of n bits.
LEMMA Pieces ==
    ASSUME NEW n \in {1, 2, 4, 8}
    PROVE  /\ 8 \div n \in 1 .. 8 /\ (8 \div n) * n = 8
           /\ \A i \in 0 .. (8 \div n) - 1 :
                /\ i * n \in 0 .. 8 - n
                /\ (i + 1) * n = i * n + n /\ 8 - (i + 1) * n = 8 - n - i * n
  <1>1. CASE n = 1
    BY <1>1
  <1>2. CASE n = 2
    BY <1>2
  <1>3. CASE n = 4
    BY <1>3
  <1>4. CASE n = 8
    BY <1>4
  <1> QED
    BY <1>1, <1>2, <1>3, <1>4

\* n of the eight steps, from the d-th on, are those of the bits from d on.
From(F, n, d) == [k \in 0 .. n |-> F[d + k]]

PieceOf(o, n, d) == {x \in 0 .. n - 1 : x + (8 - n - d) \in o}

LEMMA PieceSteps ==
    ASSUME NEW n \in 1 .. 8, NEW d \in 0 .. 8 - n, NEW t \in BOOLEAN, NEW c \in Octet,
           NEW F, NEW w, NEW poly, Stepping(F, w, poly, ReflectIf(t, c, 8))
    PROVE  /\ Steps(n, From(F, n, d), w, poly, PieceOf(ReflectIf(t, c, 8), n, d))
           /\ Ordered(n, t, ShiftRight(c, IF t THEN d ELSE 8 - n - d), PieceOf(ReflectIf(t, c, 8), n, d))
           /\ From(F, n, d)[0] = F[d] /\ From(F, n, d)[n] = F[d + n]
  <1> DEFINE o == ReflectIf(t, c, 8)
             G == From(F, n, d)
             z == PieceOf(o, n, d)
             bits == ShiftRight(c, IF t THEN d ELSE 8 - n - d)
  <1>1. c \in Word /\ \A x \in Int : x \in o <=> IF t THEN 7 - x \in c ELSE x \in c
    BY ReflectOctet
  <1>2. /\ F \in [0 .. 8 -> Word]
        /\ \A k \in 0 .. 8 : F[k] \subseteq Ones(w)
        /\ \A k \in 0 .. 7 : F[k + 1] = Step(w, poly, F[k], 7 - k \in o)
    BY DEF Stepping
  <1> HIDE DEF o
  <1>3. \A k \in 0 .. n : d + k \in 0 .. 8 /\ G[k] = F[d + k]
    BY DEF From
  <1>4. \A k \in 0 .. n : G[k] \in Word /\ G[k] \subseteq Ones(w)
    BY <1>2, <1>3
  <1>5. G \in [0 .. n -> Word]
    <2>1. G = [k \in 0 .. n |-> G[k]]
      BY DEF From
    <2> HIDE DEF G
    <2> QED
      BY <1>4, <2>1
  <1>6. \A x \in Int : x \in z <=> x \in 0 .. n - 1 /\ x + (8 - n - d) \in o
    BY DEF PieceOf
  <1> HIDE DEF G, z
  <1>7. ASSUME NEW k \in 0 .. n - 1 PROVE G[k + 1] = Step(w, poly, G[k], n - 1 - k \in z)
    <2>1. k \in 0 .. n /\ k + 1 \in 0 .. n /\ d + k \in 0 .. 7 /\ d + (k + 1) = (d + k) + 1
      OBVIOUS
    <2>2. G[k + 1] = Step(w, poly, G[k], 7 - (d + k) \in o)
      BY <1>2, <1>3, <2>1
    <2>3. n - 1 - k \in 0 .. n - 1 /\ n - 1 - k + (8 - n - d) = 7 - (d + k)
      OBVIOUS
    <2>4. (n - 1 - k \in z) = (7 - (d + k) \in o)
      <3>1. PICK y \in Int : y = n - 1 - k
        OBVIOUS
      <3>2. y \in z <=> y \in 0 .. n - 1 /\ y + (8 - n - d) \in o
        BY <1>6
      <3> QED
        BY <2>3, <3>1, <3>2
    <2> QED
      BY <2>2, <2>4
  <1>8. Steps(n, G, w, poly, z)
    BY <1>4, <1>5, <1>7 DEF Steps
  <1>9. ASSUME NEW x \in 0 .. n - 1
        PROVE  x \in z <=> IF t THEN n - 1 - x \in bits ELSE x \in bits
    <2>1. x \in z <=> x + (8 - n - d) \in o
      BY <1>6
    <2>2. x + (8 - n - d) \in o <=> IF t THEN 7 - (x + (8 - n - d)) \in c ELSE x + (8 - n - d) \in c
      BY <1>1
    <2>3. CASE t
      <3>1. PICK y \in Int : y = n - 1 - x
        OBVIOUS
      <3>2. y >= 0 /\ y + d = 7 - (x + (8 - n - d)) /\ d \in Nat
        BY <3>1
      <3>3. y \in ShiftRight(c, d) <=> y >= 0 /\ y + d \in c
        BY <1>1, <3>2, InRight
      <3> QED
        BY <2>1, <2>2, <2>3, <3>1, <3>2, <3>3
    <2>4. CASE ~ t
      <3>1. PICK e \in Nat : e = 8 - n - d
        OBVIOUS
      <3>2. x \in ShiftRight(c, e) <=> x >= 0 /\ x + e \in c
        BY <1>1, InRight
      <3> QED
        BY <2>1, <2>2, <2>4, <3>1, <3>2
    <2> QED
      BY <2>3, <2>4
  <1>10. z \in SUBSET Ones(n)
    BY DEF z, PieceOf, Ones
  <1> HIDE DEF bits
  <1>11. Ordered(n, t, bits, z)
    BY <1>9, <1>10 DEF Ordered
  <1>12. G[0] = F[d] /\ G[n] = F[d + n]
    <2>1. 0 \in 0 .. n /\ n \in 0 .. n /\ d + 0 = d
      OBVIOUS
    <2> QED
      BY <1>3, <2>1
  <1> QED
    BY <1>8, <1>11, <1>12 DEF G, z, o, bits

LEMMA TableCStepWord ==
    ASSUME NEW rw, NEW g, Fits(rw, g), g.algorithm = "table-driven", Shiftable(rw, g),
           NEW R \in Word, NEW bits
    PROVE  TableCStep(rw, g, R, bits) \in Word
  <1>1. SteppedWord(Masked(rw), g.table_idx_width, R, bits) \in Word
    BY InStepped
  <1> QED
    BY <1>1, TableCStepIs, InCrcT

\* What is cut off is not used.
LEMMA NearCut ==
    ASSUME NEW ps, Params(ps), NEW R \in Word, NEW v \in Word, v \subseteq Ones(ps.width),
           Near(ps, R, v), NEW K, \A x \in Int : x - CrcShift(ps) \in 0 .. ps.width - 1 => x \in K
    PROVE  Near(ps, R \cap K, v)
  <1> DEFINE T == Tabled(ps, v)
             s == CrcShift(ps)
  <1>1. \A x \in Int : x \in T => x - s \in 0 .. ps.width - 1
    <2>1. \A x \in Int : x \in T <=> IF ps.reflect_in
                                    THEN x - s \in 0 .. ps.width - 1 /\ ps.width - 1 - (x - s) \in v
                                    ELSE x - s \in v
      BY InTabled
    <2> QED
      BY <2>1 DEF Ones
  <1>2. \A x \in Int : (IF ps.reflect_in THEN x >= s ELSE x < ps.width + s) => (x \in R <=> x \in T)
    BY DEF Near
  <1> HIDE DEF T, s
  <1>3. \A x \in Int : (IF ps.reflect_in THEN x >= s ELSE x < ps.width + s) => (x \in R \cap K <=> x \in T)
    BY <1>1, <1>2 DEF s
  <1> QED
    BY <1>3 DEF Near, T, s

LEMMA NearIs ==
    ASSUME NEW ps, Params(ps), NEW R \in Word, NEW v \in Word, v \subseteq Ones(ps.width),
           Near(ps, R, v)
    PROVE  R \cap ShiftLeft(Mask(ps), CrcShift(ps)) = Tabled(ps, v)
  <1> DEFINE T == Tabled(ps, v)
             s == CrcShift(ps)
             M == ShiftLeft(Mask(ps), s)
  <1>1. ps.width \in Nat /\ s \in Nat
    BY ShiftBounds
  <1>2. Mask(ps) \in Word /\ Mask(ps) = 0 .. ps.width - 1
    BY <1>1 DEF Mask, Ones, Word
  <1>3. \A x \in Int : x \in M <=> x - s \in 0 .. ps.width - 1
    <2>1. PICK d \in Nat : d = s
      BY <1>1
    <2>2. \A a \in Word : \A x \in Int : x \in ShiftLeft(a, d) <=> x - d \in a
      BY InLeft
    <2>3. \A x \in Int : x \in ShiftLeft(Mask(ps), d) <=> x - d \in Mask(ps)
      BY <1>2, <2>2
    <2> QED
      BY <1>2, <2>1, <2>3
  <1>4. T \in Word /\ \A x \in Int : x \in T => x - s \in 0 .. ps.width - 1
    <2>1. /\ T \in Word
          /\ \A x \in Int : x \in T <=> IF ps.reflect_in
                                    THEN x - s \in 0 .. ps.width - 1 /\ ps.width - 1 - (x - s) \in v
                                    ELSE x - s \in v
      BY InTabled
    <2> HIDE DEF T, s, M
    <2>2. v \subseteq 0 .. ps.width - 1
      BY DEF Ones
    <2> QED
      BY <2>1, <2>2
  <1>5. \A x \in Int : (IF ps.reflect_in THEN x >= s ELSE x < ps.width + s) => (x \in R <=> x \in T)
    BY DEF Near
  <1> HIDE DEF T, s, M
  <1>6. R \cap M \in Word
    BY CapWord
  <1>7. ASSUME NEW x \in Nat PROVE x \in R \cap M <=> x \in T
    <2>1. x - s \in 0 .. ps.width - 1 => x >= s /\ x < ps.width + s
      BY <1>1
    <2> QED
      BY <1>3, <1>4, <1>5, <2>1
  <1>8. R \cap M = T
    BY <1>4, <1>6, <1>7, SameWord
  <1> QED
    BY <1>8 DEF T, s, M

\* The loop of a table program over the pieces of an octet.
TableCLoop(rw, g, n, data) ==
    [i \in 0 .. (8 \div n) - 1 |-> [r \in Word |->
        TableCStep(rw, g, r, ShiftRight(data, IF rw.reflect_in THEN i * n ELSE 8 - (i + 1) * n))]]

LEMMA TableLoopTakes ==
    ASSUME NEW rw, NEW g, Fits(rw, g), g.algorithm = "table-driven", Shiftable(rw, g), NEW c
    PROVE  Takes(8 \div g.table_idx_width, TableCLoop(rw, g, g.table_idx_width, c))
  <1> DEFINE n == g.table_idx_width
             f == TableCLoop(rw, g, n, c)
             bits(i) == ShiftRight(c, IF rw.reflect_in THEN i * n ELSE 8 - (i + 1) * n)
  <1>1. \A i \in 0 .. (8 \div n) - 1 : f[i] = [r \in Word |-> TableCStep(rw, g, r, bits(i))]
    BY DEF TableCLoop
  <1> HIDE DEF f, bits
  <1>2. \A i : \A r \in Word : TableCStep(rw, g, r, bits(i)) \in Word
    BY TableCStepWord
  <1>3. \A i \in 0 .. (8 \div n) - 1 : f[i] \in [Word -> Word]
    BY <1>1, <1>2
  <1> HIDE DEF n
  <1>4. Takes(8 \div n, f)
    BY <1>3 DEF Takes
  <1> QED
    BY <1>4 DEF f, n

LEMMA TableLoopIs ==
    ASSUME NEW rw, NEW g, Fits(rw, g), g.algorithm = "table-driven", Shiftable(rw, g),
           NEW c \in Octet, NEW R \in Word,
           NEW F, Stepping(F, rw.width, Masked(rw).poly, ReflectIf(rw.reflect_in, c, 8)),
           Near(Masked(rw), R, F[0])
    PROVE  /\ Times(8 \div g.table_idx_width, TableCLoop(rw, g, g.table_idx_width, c), R) \in Word
           /\ Near(Masked(rw), Times(8 \div g.table_idx_width,
                                     TableCLoop(rw, g, g.table_idx_width, c), R), F[8])
  <1> DEFINE n == g.table_idx_width
             N == 8 \div n
             ps == Masked(rw)
             f == TableCLoop(rw, g, n, c)
             bits(i) == ShiftRight(c, IF rw.reflect_in THEN i * n ELSE 8 - (i + 1) * n)
  <1>1. n \in {1, 2, 4, 8} /\ n \in 1 .. 8 /\ rw.reflect_in \in BOOLEAN
    <2>1. rw \in RawParams
      BY DEF Fits
    <2> QED
      BY <2>1, IdxWidth, MaskedIs
  <1>2. /\ N \in Nat /\ N * n = 8
        /\ \A i \in 0 .. N - 1 : /\ i * n \in 0 .. 8 - n
                                 /\ (i + 1) * n = i * n + n /\ 8 - (i + 1) * n = 8 - n - i * n
    <2> HIDE DEF n
    <2> QED
      BY <1>1, Pieces
  <1>3. Takes(N, f)
    BY TableLoopTakes
  <1>4. \A i \in 0 .. N - 1 : \A r \in Word : f[i][r] = TableCStep(rw, g, r, bits(i))
    BY DEF TableCLoop
  <1> HIDE DEF n, N, ps, f
  <1>5. PICK q : Iterates(q, N, f, R) /\ Times(N, f, R) = q[N]
    BY <1>2, <1>3, TimesIterates
  <1>6. q \in [0 .. N -> Word] /\ q[0] = R /\ \A i \in 0 .. N - 1 : q[i + 1] = f[i][q[i]]
    BY <1>5 DEF Iterates
  <1> DEFINE G == {i \in Nat : i <= N => Near(ps, q[i], F[i * n])}
  <1>7. 0 \in G
    <2>1. 0 * n = 0
      BY <1>1
    <2> QED
      BY <1>6, <2>1 DEF ps
  <1>8. ASSUME NEW i \in Nat, i \in G PROVE i + 1 \in G
    <2> SUFFICES ASSUME i + 1 <= N PROVE Near(ps, q[i + 1], F[(i + 1) * n])
      OBVIOUS
    <2>1. i \in 0 .. N - 1 /\ i \in 0 .. N
      BY <1>2
    <2>2. Near(ps, q[i], F[i * n]) /\ q[i] \in Word
      BY <1>6, <1>8, <2>1
    <2>3. PICK d \in 0 .. 8 - n : d = i * n
      BY <1>2, <2>1
    <2>4. (i + 1) * n = d + n /\ 8 - (i + 1) * n = 8 - n - d
      BY <1>2, <2>1, <2>3
    <2> DEFINE o == ReflectIf(rw.reflect_in, c, 8)
               z == PieceOf(o, n, d)
               H == From(F, n, d)
               b == ShiftRight(c, IF rw.reflect_in THEN d ELSE 8 - n - d)
    <2>5. /\ Steps(n, H, rw.width, ps.poly, z) /\ Ordered(n, rw.reflect_in, b, z)
          /\ H[0] = F[d] /\ H[n] = F[d + n]
      <3> DEFINE w == rw.width
                 a == ps.poly
                 t == rw.reflect_in
      <3>1. t \in BOOLEAN /\ Stepping(F, w, a, ReflectIf(t, c, 8))
        BY <1>1 DEF ps
      <3> HIDE DEF w, a, t, H, z, b, o
      <3>2. /\ Steps(n, From(F, n, d), w, a, PieceOf(ReflectIf(t, c, 8), n, d))
            /\ Ordered(n, t, ShiftRight(c, IF t THEN d ELSE 8 - n - d), PieceOf(ReflectIf(t, c, 8), n, d))
            /\ From(F, n, d)[0] = F[d] /\ From(F, n, d)[n] = F[d + n]
        BY <1>1, <3>1, PieceSteps
      <3> QED
        BY <3>2 DEF w, a, t, H, z, b, o
    <2>6. bits(i) = b
      BY <2>3, <2>4
    <2>7. q[i + 1] = TableCStep(rw, g, q[i], b)
      <3> HIDE DEF bits
      <3> QED
        BY <1>4, <1>6, <2>1, <2>2, <2>6
    <2> HIDE DEF H, z, b, o, bits
    <2>8. Near(ps, q[i], H[0])
      BY <2>2, <2>3, <2>5
    <2>9. Near(Masked(rw), TableCStep(rw, g, q[i], b), H[g.table_idx_width])
      BY <2>2, <2>5, <2>8, StepNear DEF n, ps
    <2> QED
      BY <2>4, <2>5, <2>7, <2>9 DEF n, ps
  <1>9. N \in G
    <2> HIDE DEF G
    <2> QED
      BY <1>2, <1>7, <1>8, SetInduction
  <1>10. Near(ps, q[N], F[8])
    BY <1>2, <1>9
  <1>11. q[N] \in Word
    BY <1>2, <1>6
  <1> QED
    BY <1>5, <1>10, <1>11 DEF N, n, f, ps

LEMMA TableOctetIs ==
    ASSUME NEW rw, NEW g, Fits(rw, g), g.algorithm = "table-driven", Shiftable(rw, g),
           NEW c \in Octet, NEW R \in Word, NEW v \in Word, v \subseteq Ones(rw.width),
           Near(Masked(rw), R, v)
    PROVE  /\ TableCOctet(rw, g, R, c) \in Word
           /\ BitByBitFastOctet(Masked(rw), v, c) \in Word
           /\ BitByBitFastOctet(Masked(rw), v, c) \subseteq Ones(rw.width)
           /\ Near(Masked(rw), TableCOctet(rw, g, R, c), BitByBitFastOctet(Masked(rw), v, c))
  <1> DEFINE n == g.table_idx_width
             ps == Masked(rw)
             s == CrcShift(rw)
             w == rw.width
             o == ReflectIf(rw.reflect_in, c, 8)
             Q == Times(8 \div n, TableCLoop(rw, g, n, c), R)
             K == IF n = 8 THEN ShiftLeft(Mask(rw), s) ELSE Ones(64)
  <1>1. /\ Params(ps) /\ ps.reflect_in = rw.reflect_in /\ rw.reflect_in \in BOOLEAN /\ ps.width = w
        /\ CrcShift(ps) = s /\ Mask(rw) = 0 .. w - 1
    <2>1. rw \in RawParams
      BY DEF Fits
    <2> QED
      BY <2>1, MaskedIs DEF Ones
  <1>2. s \in Nat /\ w \in Nat /\ w + s <= 64
    <2>1. rw \in RawParams
      BY DEF Fits
    <2> QED
      BY <2>1, MaskedIs, TypeHolds
  <1>3. o \in Octet
    BY <1>1, ReflectOctet
  <1>4. PICK F : /\ Stepping(F, w, ps.poly, o) /\ F[0] = v
                 /\ Times(8, FastPass(ps, o), v) \cap Mask(ps) = F[8]
    <2> HIDE DEF ps, o, w
    <2> QED
      BY <1>1, <1>3, SteppingExists DEF w
  <1>5. BitByBitFastOctet(ps, v, c) = F[8]
    BY <1>1, <1>4, FastOctetIs
  <1>6. F[8] \in Word /\ F[8] \subseteq Ones(w)
    BY <1>4 DEF Stepping
  <1>7. TableCOctet(rw, g, R, c) = Q \cap K
    <2>1. TableCOctet(rw, g, R, c)
            = Q \cap (IF n = 8 THEN ShiftLeft(Mask(rw), Shift(rw, g)) ELSE Ones(64))
      BY Zenon DEF TableCOctet, TableCLoop
    <2>2. Shift(rw, g) = s
      BY ShiftIs
    <2> HIDE DEF Q
    <2> QED
      BY <2>1, <2>2
  <1>8. Q \in Word /\ Near(ps, Q, F[8])
    BY <1>4, TableLoopIs
  <1>9. \A x \in Int : x - s \in 0 .. w - 1 => x \in K
    <2>1. CASE n = 8
      <3>1. Mask(rw) \in Word
        BY <1>1 DEF Word
      <3>2. PICK d \in Nat : d = s
        BY <1>2
      <3>3. \A a \in Word : \A x \in Int : x \in ShiftLeft(a, d) <=> x - d \in a
        BY InLeft
      <3>4. \A x \in Int : x \in ShiftLeft(Mask(rw), d) <=> x - d \in Mask(rw)
        BY <3>1, <3>3
      <3>5. K = ShiftLeft(Mask(rw), d)
        BY <2>1, <3>2
      <3> HIDE DEF K, s, w, n
      <3> QED
        BY <1>1, <3>2, <3>4, <3>5
    <2>2. CASE n # 8
      BY <1>2, <2>2 DEF Ones
    <2> QED
      BY <2>1, <2>2
  <1> HIDE DEF Q, K, s, w, ps
  <1>10. Near(ps, Q \cap K, F[8]) /\ Q \cap K \in Word
    BY <1>1, <1>6, <1>8, <1>9, NearCut, CapWord
  <1> QED
    BY <1>5, <1>6, <1>7, <1>10 DEF ps, w

-----------------------------------------------------------------------------
\* The octets of a chunk.
COctet(rw, g, r, c) ==
    CASE g.algorithm = "bit-by-bit" -> BitByBitCOctet(rw, g, r, c)
      [] g.algorithm = "bit-by-bit-fast" -> BitByBitFastCOctet(rw, g, r, c)
      [] OTHER -> TableCOctet(rw, g, r, c)

COctets(rw, g) == [c \in Octet |-> [r \in Word |-> COctet(rw, g, r, c)]]

BitOctets(ps) == [c \in Octet |-> [r \in Word |-> BitByBitOctet(ps, r, c)]]

FastOctets(ps) == [c \in Octet |-> [r \in Word |-> BitByBitFastOctet(ps, r, c)]]

LEMMA AlgorithmCases ==
    ASSUME NEW rw, NEW g, Fits(rw, g), NEW r, NEW c
    PROVE  /\ g.algorithm \in {"bit-by-bit", "bit-by-bit-fast", "table-driven"}
           /\ g.algorithm = "bit-by-bit" => COctet(rw, g, r, c) = BitByBitCOctet(rw, g, r, c)
           /\ g.algorithm = "bit-by-bit-fast" => COctet(rw, g, r, c) = BitByBitFastCOctet(rw, g, r, c)
           /\ g.algorithm = "table-driven" => COctet(rw, g, r, c) = TableCOctet(rw, g, r, c)
  BY DEF COctet, Fits, Programs

LEMMA UpdateCIs ==
    ASSUME NEW rw, NEW g, NEW a, NEW s
    PROVE  crc_update(rw, g, a, s)
             = OverOctets(COctets(rw, g), a, s) \cap ShiftLeft(Mask(rw), Shift(rw, g))
  BY Zenon DEF crc_update, COctets, COctet

\* The crc_t a of a program and the registers B of bit_by_bit and F of
\* bit_by_bit_fast.
Keeps(rw, g, a, B, F) ==
    /\ g.algorithm = "bit-by-bit" /\ Narrow(rw, g) => <<a, B>> \in Related(rw.width)
    /\ g.algorithm = "bit-by-bit-fast" /\ Narrow(rw, g) => <<a, F>> \in Related(rw.width)
    /\ g.algorithm = "bit-by-bit-fast" /\ Given(g, {"width"}) => a \subseteq Ones(rw.width)
    /\ g.algorithm = "table-driven" /\ Shiftable(rw, g) => a = Tabled(Masked(rw), F)

LEMMA NoShift ==
    ASSUME NEW a \in Word
    PROVE  ShiftLeft(a, 0) = a
  <1>1. ShiftLeft(a, 0) \in Word
    BY LeftWord
  <1>2. \A x \in Nat : x \in ShiftLeft(a, 0) <=> x - 0 \in a
    BY InLeft
  <1> QED
    BY <1>1, <1>2, SameWord

LEMMA BitUpdate ==
    ASSUME NEW rw, NEW g, Fits(rw, g), Narrow(rw, g), g.algorithm = "bit-by-bit",
           NEW a \in Word, NEW B \in Word, <<a, B>> \in Related(rw.width), NEW s \in Seq(Octet)
    PROVE  <<crc_update(rw, g, a, s), OverOctets(BitOctets(Masked(rw)), B, s)>> \in Related(rw.width)
  <1> DEFINE f == COctets(rw, g)
             h == BitOctets(Masked(rw))
  <1>1. ASSUME NEW c \in Octet, NEW r \in Word, NEW v \in Word, <<r, v>> \in Related(rw.width)
        PROVE  f[c][r] \in Word /\ h[c][v] \in Word /\ <<f[c][r], h[c][v]>> \in Related(rw.width)
    <2>1. f[c][r] = BitByBitCOctet(rw, g, r, c)
      BY AlgorithmCases DEF COctets
    <2>2. h[c][v] = BitByBitOctet(Masked(rw), v, c)
      BY DEF BitOctets
    <2> HIDE DEF f, h
    <2> QED
      BY <1>1, <2>1, <2>2, BitOctetIs
  <1>2. \A c \in Octet : \A r \in Word : f[c][r] \in Word /\ h[c][r] \in Word
    <2>1. \A r \in Word : <<r, r>> \in Related(rw.width)
      BY InRelated
    <2> QED
      BY <1>1, <2>1
  <1>3. /\ f = [c \in Octet |-> [r \in Word |-> f[c][r]]]
        /\ h = [c \in Octet |-> [r \in Word |-> h[c][r]]]
    BY DEF COctets, BitOctets
  <1> HIDE DEF f, h
  <1>4. f \in [Octet -> [Word -> Word]] /\ h \in [Octet -> [Word -> Word]]
    BY <1>2, <1>3
  <1>5. <<OverOctets(f, a, s), OverOctets(h, B, s)>> \in Related(rw.width)
        /\ OverOctets(f, a, s) \in Word /\ OverOctets(h, B, s) \in Word
    BY <1>1, <1>4, OctetsRelated
  <1>6. crc_update(rw, g, a, s) = OverOctets(f, a, s) \cap Ones(rw.width)
    <2>1. Shift(rw, g) = 0
      BY ShiftIs
    <2>2. Mask(rw) = Ones(rw.width) /\ Ones(rw.width) \in Word
      BY MaskedIs DEF Fits, Ones, Word
    <2> QED
      BY <2>1, <2>2, NoShift, UpdateCIs DEF f
  <1>7. <<OverOctets(f, a, s) \cap Ones(rw.width), OverOctets(h, B, s)>> \in Related(rw.width)
    BY <1>5, CutRelated
  <1> QED
    BY <1>6, <1>7 DEF h

LEMMA FastUpdate ==
    ASSUME NEW rw, NEW g, Fits(rw, g), Narrow(rw, g), g.algorithm = "bit-by-bit-fast",
           NEW a \in Word, NEW F \in Word, <<a, F>> \in Related(rw.width), NEW s \in Seq(Octet)
    PROVE  <<crc_update(rw, g, a, s), OverOctets(FastOctets(Masked(rw)), F, s)>> \in Related(rw.width)
  <1> DEFINE f == COctets(rw, g)
             h == FastOctets(Masked(rw))
  <1>1. ASSUME NEW c \in Octet, NEW r \in Word, NEW v \in Word, <<r, v>> \in Related(rw.width)
        PROVE  f[c][r] \in Word /\ h[c][v] \in Word /\ <<f[c][r], h[c][v]>> \in Related(rw.width)
    <2>1. f[c][r] = BitByBitFastCOctet(rw, g, r, c)
      BY AlgorithmCases DEF COctets
    <2>2. h[c][v] = BitByBitFastOctet(Masked(rw), v, c)
      BY DEF FastOctets
    <2> HIDE DEF f, h
    <2> QED
      BY <1>1, <2>1, <2>2, FastOctetBits
  <1>2. \A c \in Octet : \A r \in Word : f[c][r] \in Word /\ h[c][r] \in Word
    <2>1. \A r \in Word : <<r, r>> \in Related(rw.width)
      BY InRelated
    <2> QED
      BY <1>1, <2>1
  <1>3. /\ f = [c \in Octet |-> [r \in Word |-> f[c][r]]]
        /\ h = [c \in Octet |-> [r \in Word |-> h[c][r]]]
    BY DEF COctets, FastOctets
  <1> HIDE DEF f, h
  <1>4. f \in [Octet -> [Word -> Word]] /\ h \in [Octet -> [Word -> Word]]
    BY <1>2, <1>3
  <1>5. <<OverOctets(f, a, s), OverOctets(h, F, s)>> \in Related(rw.width)
        /\ OverOctets(f, a, s) \in Word /\ OverOctets(h, F, s) \in Word
    BY <1>1, <1>4, OctetsRelated
  <1>6. crc_update(rw, g, a, s) = OverOctets(f, a, s) \cap Ones(rw.width)
    <2>1. Shift(rw, g) = 0
      BY ShiftIs
    <2>2. Mask(rw) = Ones(rw.width) /\ Ones(rw.width) \in Word
      BY MaskedIs DEF Fits, Ones, Word
    <2> QED
      BY <2>1, <2>2, NoShift, UpdateCIs DEF f
  <1>7. <<OverOctets(f, a, s) \cap Ones(rw.width), OverOctets(h, F, s)>> \in Related(rw.width)
    BY <1>5, CutRelated
  <1> QED
    BY <1>6, <1>7 DEF h

LEMMA TableUpdate ==
    ASSUME NEW rw, NEW g, Fits(rw, g), Shiftable(rw, g), g.algorithm = "table-driven",
           NEW F \in Word, F \subseteq Ones(rw.width), NEW s \in Seq(Octet)
    PROVE  crc_update(rw, g, Tabled(Masked(rw), F), s)
             = Tabled(Masked(rw), OverOctets(FastOctets(Masked(rw)), F, s))
  <1> DEFINE f == COctets(rw, g)
             h == FastOctets(Masked(rw))
             ps == Masked(rw)
             a == Tabled(ps, F)
             Rel == {z \in Word \X Word : z[2] \subseteq Ones(rw.width) /\ Near(ps, z[1], z[2])}
  <1>1. /\ Params(ps) /\ ps.width = rw.width /\ Mask(ps) = Mask(rw)
        /\ CrcShift(ps) = CrcShift(rw) /\ Shift(rw, g) = CrcShift(rw)
    <2>1. rw \in RawParams
      BY DEF Fits
    <2> QED
      BY <2>1, MaskedIs, ShiftIs
  <1>2. a \in Word
    BY <1>1, InTabled
  <1>3. \A r, v \in Word : <<r, v>> \in Rel <=> v \subseteq Ones(rw.width) /\ Near(ps, r, v)
    OBVIOUS
  <1> HIDE DEF Rel
  <1>4. <<a, F>> \in Rel
    BY <1>2, <1>3 DEF Near
  <1>5. \A c \in Octet : \A r \in Word : /\ f[c][r] = TableCOctet(rw, g, r, c)
                                         /\ h[c][r] = BitByBitFastOctet(ps, r, c)
    BY AlgorithmCases DEF COctets, FastOctets
  <1>6. \A c \in Octet : \A r \in Word : f[c][r] \in Word /\ h[c][r] \in Word
    <2> SUFFICES ASSUME NEW c \in Octet, NEW r \in Word
                 PROVE  TableCOctet(rw, g, r, c) \in Word /\ BitByBitFastOctet(ps, r, c) \in Word
      BY <1>5
    <2> DEFINE n == g.table_idx_width
               z == TableCLoop(rw, g, n, c)
               y == FastPass(ps, ReflectIf(ps.reflect_in, c, 8))
    <2>1. TableCOctet(rw, g, r, c)
            = Times(8 \div n, z, r) \cap (IF n = 8 THEN ShiftLeft(Mask(rw), Shift(rw, g)) ELSE Ones(64))
      BY Zenon DEF TableCOctet, TableCLoop
    <2>2. 8 \div n \in Nat /\ Takes(8 \div n, z)
      BY IdxWidth, Pieces, TableLoopTakes
    <2>3. BitByBitFastOctet(ps, r, c) = Times(8, y, r) \cap Mask(ps)
      BY FastOctetIs
    <2>4. Takes(8, y)
      <3> HIDE DEF ps
      <3> QED
        BY <1>1, FastTakes
    <2> HIDE DEF n, z, y, ps
    <2>5. Times(8 \div n, z, r) \in Word /\ Times(8, y, r) \in Word
      BY <2>2, <2>4, TimesWord
    <2> QED
      BY <2>1, <2>3, <2>5, CapWord
  <1>7. /\ f = [c \in Octet |-> [r \in Word |-> f[c][r]]]
        /\ h = [c \in Octet |-> [r \in Word |-> h[c][r]]]
    BY DEF COctets, FastOctets
  <1> HIDE DEF f, h
  <1>8. f \in [Octet -> [Word -> Word]] /\ h \in [Octet -> [Word -> Word]]
    BY <1>6, <1>7
  <1>9. \A c \in Octet : \A r, v \in Word : <<r, v>> \in Rel => <<f[c][r], h[c][v]>> \in Rel
    <2> SUFFICES ASSUME NEW c \in Octet, NEW r \in Word, NEW v \in Word, <<r, v>> \in Rel
                 PROVE  <<f[c][r], h[c][v]>> \in Rel
      OBVIOUS
    <2>1. v \subseteq Ones(rw.width) /\ Near(ps, r, v)
      BY <1>3
    <2>2. BitByBitFastOctet(ps, v, c) \subseteq Ones(rw.width)
          /\ Near(ps, TableCOctet(rw, g, r, c), BitByBitFastOctet(ps, v, c))
      BY <2>1, TableOctetIs
    <2>3. f[c][r] \in Word /\ h[c][v] \in Word
      BY <1>6
    <2> QED
      BY <1>3, <1>5, <2>2, <2>3
  <1> HIDE DEF a
  <1>10. <<OverOctets(f, a, s), OverOctets(h, F, s)>> \in Rel
         /\ OverOctets(f, a, s) \in Word /\ OverOctets(h, F, s) \in Word
    BY <1>2, <1>4, <1>8, <1>9, OctetsRelated
  <1>11. OverOctets(h, F, s) \subseteq Ones(ps.width) /\ Near(ps, OverOctets(f, a, s), OverOctets(h, F, s))
    BY <1>1, <1>3, <1>10
  <1>12. OverOctets(f, a, s) \cap ShiftLeft(Mask(ps), CrcShift(ps)) = Tabled(ps, OverOctets(h, F, s))
    <2> HIDE DEF ps
    <2> QED
      BY <1>1, <1>10, <1>11, NearIs
  <1>13. crc_update(rw, g, a, s) = OverOctets(f, a, s) \cap ShiftLeft(Mask(ps), CrcShift(ps))
    BY <1>1, UpdateCIs DEF f
  <1> QED
    BY <1>12, <1>13 DEF a, h, ps

LEMMA UpdateKeeps ==
    ASSUME NEW rw, NEW g, Fits(rw, g), NEW a, NEW B \in Word,
           NEW F \in Word, F \subseteq Ones(rw.width), Keeps(rw, g, a, B, F), NEW s \in Seq(Octet)
    PROVE  Keeps(rw, g, crc_update(rw, g, a, s), OverOctets(BitOctets(Masked(rw)), B, s),
                 OverOctets(FastOctets(Masked(rw)), F, s))
  <1>1. g.algorithm = "bit-by-bit-fast" => crc_update(rw, g, a, s) \subseteq Ones(rw.width)
    <2> SUFFICES ASSUME g.algorithm = "bit-by-bit-fast"
                 PROVE  crc_update(rw, g, a, s) \subseteq Ones(rw.width)
      OBVIOUS
    <2>1. Shift(rw, g) = 0
      BY ShiftIs
    <2>2. Mask(rw) = Ones(rw.width) /\ Ones(rw.width) \in Word
      BY MaskedIs DEF Fits, Ones, Word
    <2>3. crc_update(rw, g, a, s) = OverOctets(COctets(rw, g), a, s) \cap Ones(rw.width)
      BY <2>1, <2>2, NoShift, UpdateCIs
    <2> QED
      BY <2>3
  <1>2. g.algorithm = "bit-by-bit" /\ Narrow(rw, g)
          => <<crc_update(rw, g, a, s), OverOctets(BitOctets(Masked(rw)), B, s)>> \in Related(rw.width)
    BY BitUpdate DEF Keeps, Related
  <1>3. g.algorithm = "bit-by-bit-fast" /\ Narrow(rw, g)
          => <<crc_update(rw, g, a, s), OverOctets(FastOctets(Masked(rw)), F, s)>> \in Related(rw.width)
    BY FastUpdate DEF Keeps, Related
  <1>4. g.algorithm = "table-driven" /\ Shiftable(rw, g)
          => crc_update(rw, g, a, s) = Tabled(Masked(rw), OverOctets(FastOctets(Masked(rw)), F, s))
    BY TableUpdate DEF Keeps
  <1> QED
    BY <1>1, <1>2, <1>3, <1>4 DEF Keeps

-----------------------------------------------------------------------------
\* Where a program starts.
LEMMA BitCInitIs ==
    ASSUME NEW rw, NEW g, Fits(rw, g), Cfg(rw, g).poly = Masked(rw).poly,
           Cfg(rw, g).xor_in = Masked(rw).xor_in
    PROVE  BitByBitCInit(rw, g) = NonDirectInit(Masked(rw))
  <1> DEFINE ps == Masked(rw)
             w == rw.width
             f == [i \in 0 .. w - 1 |-> [crc_ \in Word |->
                     IF 0 \in crc_ THEN ShiftRight(CrcT(rw, g, Xor(crc_, Cfg(rw, g).poly)), 1) \cup {MSB(rw)}
                                   ELSE ShiftRight(crc_, 1)]]
             h == BackPass(ps)
             a == ps.xor_in
             Rel == {z \in Word \X Word : z[1] = z[2] /\ z[2] \subseteq Ones(w)}
  <1>1. /\ Params(ps) /\ ps.width = w /\ w \in Nat \ {0} /\ MSB(rw) = MSB(ps) /\ Mask(rw) = Mask(ps)
        /\ ps.poly \in Word /\ ps.poly \subseteq Ones(w) /\ a \in Word /\ a \subseteq Ones(w)
    <2>1. rw \in RawParams
      BY DEF Fits
    <2>2. Params(ps) /\ ps.width = w /\ w \in Nat \ {0} /\ MSB(rw) = MSB(ps) /\ Mask(rw) = Mask(ps)
      BY <2>1, MaskedIs
    <2> QED
      BY <2>2 DEF Params, Generator
  <1>2. \A r \in Word : r \subseteq Ones(w) => CrcT(rw, g, r) = r
    <2>1. Ones(w) \subseteq Ones(Top(rw))
      BY <1>1, TypeHolds DEF Ones
    <2> QED
      BY <2>1, InCrcT
  <1>3. BitByBitCInit(rw, g) = Times(w, f, CrcT(rw, g, Cfg(rw, g).xor_in)) \cap Mask(rw)
    BY Zenon DEF BitByBitCInit
  <1>4. NonDirectInit(ps) = Times(w, h, a) \cap Mask(ps)
    <2>1. NonDirectInit(ps) = Times(ps.width, h, a) \cap Mask(ps)
      BY Zenon DEF NonDirectInit, BackPass
    <2> QED
      BY <1>1, <2>1
  <1>5. \A i \in 0 .. w - 1 : \A r \in Word :
          f[i][r] = IF 0 \in r THEN ShiftRight(CrcT(rw, g, Xor(r, ps.poly)), 1) \cup {MSB(ps)}
                               ELSE ShiftRight(r, 1)
    BY <1>1
  <1>6. \A i \in 0 .. w - 1 : \A r \in Word : h[i][r] = Turned(ps, r)
    BY <1>1 DEF BackPass, Turned
  <1>7. \A i \in 0 .. w - 1 : f[i] = [r \in Word |-> f[i][r]] /\ h[i] = [r \in Word |-> h[i][r]]
    BY <1>1 DEF BackPass
  <1> HIDE DEF f, h, w
  <1>8. \A r \in Word : ShiftRight(r, 1) \in Word
    BY RightWord
  <1>9. \A i \in 0 .. w - 1 : \A r \in Word : f[i][r] \in Word
    <2> SUFFICES ASSUME NEW i \in 0 .. w - 1, NEW r \in Word PROVE f[i][r] \in Word
      OBVIOUS
    <2>1. CrcT(rw, g, Xor(r, ps.poly)) \in Word
      BY <1>1, XorWord, InCrcT
    <2>2. MSB(ps) \in Nat
      BY <1>1 DEF MSB
    <2> DEFINE y == ShiftRight(CrcT(rw, g, Xor(r, ps.poly)), 1)
    <2>3. y \in Word /\ ShiftRight(r, 1) \in Word
      BY <1>8, <2>1
    <2>4. y \cup {MSB(ps)} \in Word
      <3> HIDE DEF y
      <3> QED
        BY <2>2, <2>3 DEF Word
    <2>5. f[i][r] = IF 0 \in r THEN y \cup {MSB(ps)} ELSE ShiftRight(r, 1)
      BY <1>5
    <2> HIDE DEF y
    <2> QED
      BY <2>3, <2>4, <2>5
  <1>10. \A i \in 0 .. w - 1 : \A r \in Word : h[i][r] \in Word
    <2>1. \A r \in Word : Turned(ps, r) \in Word
      BY <1>1, InTurned
    <2> QED
      BY <1>6, <2>1
  <1>11. Takes(w, f) /\ Takes(w, h)
    <2>1. \A i \in 0 .. w - 1 : f[i] \in [Word -> Word] /\ h[i] \in [Word -> Word]
      BY <1>7, <1>9, <1>10
    <2> QED
      BY <2>1 DEF Takes
  <1>12. ASSUME NEW i \in 0 .. w - 1, NEW r \in Word, r \subseteq Ones(w)
         PROVE  f[i][r] = h[i][r] /\ h[i][r] \subseteq Ones(w)
    <2>1. Xor(r, ps.poly) \subseteq Ones(w) /\ Xor(r, ps.poly) \in Word
      BY <1>1, <1>12, XorWord, InXor
    <2>2. CrcT(rw, g, Xor(r, ps.poly)) = Xor(r, ps.poly)
      BY <1>2, <2>1
    <2>3. f[i][r] = Turned(ps, r)
      BY <1>5, <2>2 DEF Turned
    <2>4. Turned(ps, r) \subseteq Ones(ps.width)
      BY <1>1, <1>12, TurnedBack
    <2> QED
      BY <1>1, <1>6, <2>3, <2>4
  <1>13. \A r, v \in Word : <<r, v>> \in Rel <=> r = v /\ v \subseteq Ones(w)
    OBVIOUS
  <1> HIDE DEF Rel
  <1>14. \A i \in 0 .. w - 1 : \A r, v \in Word : <<r, v>> \in Rel => <<f[i][r], h[i][v]>> \in Rel
    BY <1>9, <1>10, <1>12, <1>13
  <1>15. <<Times(w, f, a), Times(w, h, a)>> \in Rel
    <2>1. <<a, a>> \in Rel
      BY <1>1, <1>13
    <2> HIDE DEF a
    <2> QED
      BY <1>1, <1>11, <1>14, <2>1, TimesRelated
  <1>16. Times(w, f, a) \in Word /\ Times(w, h, a) \in Word
    BY <1>1, <1>11, TimesWord
  <1>17. Times(w, f, a) = Times(w, h, a)
    BY <1>13, <1>15, <1>16
  <1>18. CrcT(rw, g, Cfg(rw, g).xor_in) = a
    BY <1>1, <1>2
  <1> QED
    BY <1>1, <1>3, <1>4, <1>17, <1>18

\* The two ways an initial value goes wrong.
Unbracketed(rw, g) ==
    g.algorithm = "table-driven" /\ rw.width < 8 /\ ~ rw.reflect_in /\ ~ ConstantCrcInit(g)

Unmasked(rw, g) ==
    g.algorithm = "bit-by-bit" /\ ~ ConstantCrcInit(g)
        /\ ~ (Cfg(rw, g).poly \cup Cfg(rw, g).xor_in \subseteq Mask(rw))

LEMMA StartOf ==
    ASSUME NEW rw, NEW g
    PROVE  /\ g.algorithm = "bit-by-bit"
                => crc_init(rw, g) = CrcT(rw, g, IF ConstantCrcInit(g) THEN NonDirectInit(Masked(rw))
                                                 ELSE BitByBitCInit(rw, g))
           /\ g.algorithm = "bit-by-bit-fast"
                => crc_init(rw, g) = CrcT(rw, g, IF ConstantCrcInit(g) THEN Cfg(rw, g).xor_in
                                                 ELSE Cfg(rw, g).xor_in \cap Mask(rw))
           /\ g.algorithm = "table-driven"
                => crc_init(rw, g)
                     = CrcT(rw, g, IF ConstantCrcInit(g)
                                   THEN ShiftLeft(ReflectIf(rw.reflect_in, Masked(rw).xor_in, rw.width),
                                                  Shift(rw, g))
                                   ELSE TableCInit(rw, g))
  BY DEF crc_init, ConstantInit

LEMMA BitStarts ==
    ASSUME NEW rw, NEW g, Fits(rw, g), ~ Unmasked(rw, g), g.algorithm = "bit-by-bit"
    PROVE  <<crc_init(rw, g), NonDirectInit(Masked(rw))>> \in Related(rw.width)
  <1> DEFINE ps == Masked(rw)
             a == NonDirectInit(ps)
  <1>1. /\ Params(ps) /\ ps.width = rw.width /\ rw.width \in Nat
        /\ Mask(rw) = Ones(rw.width)
    <2>1. rw \in RawParams
      BY DEF Fits
    <2> QED
      BY <2>1, MaskedIs
  <1>2. a \in Word
    BY <1>1, StartLeads
  <1>3. crc_init(rw, g) = CrcT(rw, g, a)
    <2>1. CASE ConstantCrcInit(g)
      BY <2>1, StartOf
    <2>2. CASE ~ ConstantCrcInit(g)
      <3>1. Cfg(rw, g).poly \subseteq Ones(rw.width) /\ Cfg(rw, g).xor_in \subseteq Ones(rw.width)
        BY <1>1, <2>2 DEF Unmasked
      <3>2. Cfg(rw, g).poly = ps.poly /\ Cfg(rw, g).xor_in = ps.xor_in
        BY <3>1, CfgIs
      <3>3. BitByBitCInit(rw, g) = a
        BY <3>2, BitCInitIs
      <3> QED
        BY <2>2, <3>3, StartOf
    <2> QED
      BY <2>1, <2>2
  <1> HIDE DEF a
  <1>4. CrcT(rw, g, a) \in Word /\ \A x \in 0 .. Top(rw) - 1 : x \in CrcT(rw, g, a) <=> x \in a
    BY <1>2, InCrcT
  <1>5. \A x \in 0 .. rw.width - 1 : x \in 0 .. Top(rw) - 1
    BY <1>1, TypeHolds
  <1>6. <<CrcT(rw, g, a), a>> \in Related(rw.width)
    BY <1>2, <1>4, <1>5, InRelated
  <1> QED
    BY <1>3, <1>6 DEF a, ps

LEMMA FastStarted ==
    ASSUME NEW rw, NEW g, Fits(rw, g), g.algorithm = "bit-by-bit-fast"
    PROVE  /\ <<crc_init(rw, g), Masked(rw).xor_in>> \in Related(rw.width)
           /\ Given(g, {"width"}) => crc_init(rw, g) \subseteq Ones(rw.width)
  <1> DEFINE w == rw.width
             z == Cfg(rw, g).xor_in
             a == IF ConstantCrcInit(g) THEN z ELSE z \cap Mask(rw)
             y == Masked(rw).xor_in
  <1>1. /\ w \in Nat /\ Mask(rw) = Ones(w) /\ y \subseteq Ones(w) /\ y \in Word /\ z \in Word
        /\ z \cap Ones(w) = y /\ (Given(g, {"width"}) => z = y)
    <2>1. rw \in RawParams
      BY DEF Fits
    <2>2. w \in Nat /\ Mask(rw) = Ones(w) /\ y = rw.xor_in \cap Ones(w) /\ rw.xor_in \in Word
      BY <2>1, MaskedIs
    <2>3. z \in Word /\ z \cap Ones(w) = y /\ (Given(g, {"width"}) => z = y)
      BY CfgIs
    <2> HIDE DEF y, z
    <2> QED
      BY <2>2, <2>3, CapWord
  <1>2. crc_init(rw, g) = CrcT(rw, g, a)
    BY StartOf
  <1> HIDE DEF z, y
  <1>3. a \in Word /\ a \cap Ones(w) = y /\ (Given(g, {"width"}) => a \subseteq Ones(w))
    BY <1>1, CapWord
  <1> HIDE DEF a
  <1>4. CrcT(rw, g, a) \in Word /\ \A x \in 0 .. Top(rw) - 1 : x \in CrcT(rw, g, a) <=> x \in a
    BY <1>3, InCrcT
  <1>5. CrcT(rw, g, a) \subseteq a
    BY <1>3, InCrcT
  <1>6. \A x \in 0 .. w - 1 : x \in 0 .. Top(rw) - 1
    BY <1>1, TypeHolds
  <1>7. \A x \in 0 .. w - 1 : x \in CrcT(rw, g, a) <=> x \in y
    BY <1>3, <1>4, <1>6 DEF Ones
  <1>8. <<CrcT(rw, g, a), y>> \in Related(w)
    BY <1>1, <1>4, <1>7, InRelated
  <1> QED
    BY <1>2, <1>3, <1>5, <1>8 DEF y, w

LEMMA TableStarts ==
    ASSUME NEW rw, NEW g, Fits(rw, g), ~ Unbracketed(rw, g), g.algorithm = "table-driven"
    PROVE  crc_init(rw, g) = Tabled(Masked(rw), Masked(rw).xor_in)
  <1> DEFINE ps == Masked(rw)
             w == rw.width
             s == CrcShift(rw)
             y == ps.xor_in
             z == Cfg(rw, g).xor_in
             T == Tabled(ps, y)
  <1>1. /\ Params(ps) /\ ps.width = w /\ ps.reflect_in = rw.reflect_in /\ rw.reflect_in \in BOOLEAN
        /\ CrcShift(ps) = s /\ w \in Nat \ {0} /\ s \in Nat /\ Mask(rw) = Ones(w) /\ y \in Word
        /\ y \subseteq Ones(w) /\ Top(rw) = w + s
    <2>1. rw \in RawParams
      BY DEF Fits
    <2>2. /\ Params(ps) /\ ps.width = w /\ ps.reflect_in = rw.reflect_in /\ rw.reflect_in \in BOOLEAN
          /\ CrcShift(ps) = s /\ w \in Nat \ {0} /\ Mask(rw) = Ones(w)
      BY <2>1, MaskedIs
    <2>3. s \in Nat /\ Top(rw) = w + s
      BY TypeHolds
    <2>4. y \in Word /\ y \subseteq Ones(w)
      BY <2>2 DEF Params
    <2> QED
      BY <2>2, <2>3, <2>4
  <1>2. z \in Word /\ z \cap Ones(w) = y
    BY CfgIs
  <1>3. Shift(rw, g) = s
    BY ShiftIs
  <1>4. T = ShiftLeft(ReflectIf(rw.reflect_in, y, w), s)
    BY <1>1 DEF Tabled, ReflectIf
  <1>5. T \in Word /\ T \subseteq Ones(Top(rw))
    <2>1. /\ T \in Word
          /\ \A x \in Int : x \in T <=> IF ps.reflect_in
                                    THEN x - s \in 0 .. w - 1 /\ w - 1 - (x - s) \in y
                                    ELSE x - s \in y
      <3> HIDE DEF ps, y, s, w
      <3> QED
        BY <1>1, InTabled
    <2> HIDE DEF T, y, s, w
    <2>2. \A x \in Nat : x \in T => x \in 0 .. w + s - 1
      <3>1. y \subseteq 0 .. w - 1
        BY <1>1 DEF Ones
      <3> QED
        BY <1>1, <2>1, <3>1
    <2>3. T \subseteq 0 .. w + s - 1
      BY <2>1, <2>2 DEF Word
    <2>4. w + s - 1 = Top(rw) - 1
      BY <1>1
    <2> QED
      BY <2>1, <2>3, <2>4 DEF Ones
  <1>6. CrcT(rw, g, T) = T
    <2> HIDE DEF T
    <2> QED
      BY <1>5, InCrcT
  <1>7. CASE ConstantCrcInit(g)
    <2> HIDE DEF T, s
    <2> QED
      BY <1>3, <1>4, <1>6, <1>7, StartOf DEF T
  <1>8. CASE ~ ConstantCrcInit(g)
    <2>1. TableCInit(rw, g) = IF rw.reflect_in THEN ShiftLeft(reflect(z \cap Mask(rw), w), Shift(rw, g))
                                               ELSE z \cap ShiftLeft(Mask(rw), Shift(rw, g))
      BY Zenon DEF TableCInit
    <2>2. CASE rw.reflect_in
      <3>1. TableCInit(rw, g) = ShiftLeft(reflect(y, w), s)
        BY <1>1, <1>2, <1>3, <2>1, <2>2
      <3>2. T = ShiftLeft(reflect(y, w), s)
        BY <1>4, <2>2 DEF ReflectIf
      <3> HIDE DEF T, s
      <3> QED
        BY <1>6, <1>8, <3>1, <3>2, StartOf DEF T
    <2>3. CASE ~ rw.reflect_in
      <3>1. s = 0
        BY <1>1, <1>8, <2>3 DEF Unbracketed, CrcShift
      <3>2. Ones(w) \in Word
        BY DEF Ones, Word
      <3>3. TableCInit(rw, g) = y
        BY <1>1, <1>2, <1>3, <2>1, <2>3, <3>1, <3>2, NoShift
      <3>4. T = y
        BY <1>1, <1>4, <2>3, <3>1, NoShift DEF ReflectIf
      <3> HIDE DEF T, s, y
      <3> QED
        BY <1>6, <1>8, <3>3, <3>4, StartOf DEF T, y
    <2> QED
      BY <2>2, <2>3
  <1> QED
    BY <1>7, <1>8

LEMMA InitKeeps ==
    ASSUME NEW rw, NEW g, Fits(rw, g), ~ Unbracketed(rw, g), ~ Unmasked(rw, g)
    PROVE  Keeps(rw, g, crc_init(rw, g), NonDirectInit(Masked(rw)), Masked(rw).xor_in)
  BY BitStarts, FastStarted, TableStarts DEF Keeps

-----------------------------------------------------------------------------
\* What a program returns.
LEMMA InFinish ==
    ASSUME NEW ps, ps \in RawParams, ps.xor_out \subseteq Ones(ps.width),
           NEW r \in Word, r \subseteq Ones(ps.width)
    PROVE  /\ Finish(ps, r) \in Word /\ Finish(ps, r) \subseteq Ones(ps.width)
  <1> DEFINE y == ReflectIf(ps.reflect_out, r, ps.width)
  <1>1. ps.width \in Nat /\ ps.reflect_out \in BOOLEAN /\ ps.xor_out \in Word
    BY DEF RawParams
  <1>2. y \in Word
    BY <1>1, ReflectIfWord
  <1>3. y \subseteq Ones(ps.width)
    <2>1. \A x \in Int : x \in reflect(r, ps.width) => x \in 0 .. ps.width - 1
      BY <1>1, InReflect
    <2>2. reflect(r, ps.width) \in Word
      BY <1>1, ReflectWord
    <2>3. reflect(r, ps.width) \subseteq Ones(ps.width)
      BY <2>1, <2>2 DEF Word, Ones
    <2> QED
      BY <2>3 DEF ReflectIf
  <1>4. Finish(ps, r) = Xor(y, ps.xor_out)
    BY DEF Finish
  <1> HIDE DEF y
  <1>5. Xor(y, ps.xor_out) \in Word
    BY <1>1, <1>2, XorWord
  <1>6. Xor(y, ps.xor_out) \subseteq Ones(ps.width)
    BY <1>3, InXor
  <1> QED
    BY <1>4, <1>5, <1>6

LEMMA FinishesAlike ==
    ASSUME NEW rw, NEW g, Fits(rw, g), NEW W \in Word, NEW r \in Word, r \subseteq Ones(rw.width),
           <<W, r>> \in Related(rw.width)
    PROVE  /\ CrcT(rw, g, Xor(ReflectIf(rw.reflect_out, W, rw.width), Cfg(rw, g).xor_out) \cap Mask(rw))
                = Finish(Masked(rw), r)
           /\ Given(g, {"width"}) /\ W \subseteq Ones(rw.width)
                => CrcT(rw, g, Xor(ReflectIf(rw.reflect_out, W, rw.width), Cfg(rw, g).xor_out))
                     = Finish(Masked(rw), r)
  <1> DEFINE ps == Masked(rw)
             w == rw.width
             t == rw.reflect_out
             z == Cfg(rw, g).xor_out
             y == ps.xor_out
             a == ReflectIf(t, W, w)
             b == ReflectIf(t, r, w)
             E == Finish(ps, r)
  <1>1. /\ ps \in RawParams /\ ps.width = w /\ w \in Nat /\ ps.reflect_out = t /\ t \in BOOLEAN
        /\ Mask(rw) = Ones(w) /\ y \in Word /\ y \subseteq Ones(w)
    <2>1. rw \in RawParams
      BY DEF Fits
    <2>2. /\ ps \in RawParams /\ ps.width = w /\ w \in Nat /\ ps.reflect_out = t /\ t \in BOOLEAN
          /\ Mask(rw) = Ones(w) /\ y = rw.xor_out \cap Ones(w) /\ rw.xor_out \in Word
      BY <2>1, MaskedIs
    <2> HIDE DEF ps, y
    <2> QED
      BY <2>2, CapWord
  <1>2. z \in Word /\ z \cap Ones(w) = y /\ (Given(g, {"width"}) => z = y)
    BY CfgIs
  <1>3. E = Xor(b, y) /\ E \in Word /\ E \subseteq Ones(w)
    <2>1. E = Xor(b, y)
      BY <1>1 DEF Finish
    <2>2. E \in Word /\ E \subseteq Ones(ps.width)
      <3> HIDE DEF ps
      <3> QED
        BY <1>1, InFinish
    <2> QED
      BY <1>1, <2>1, <2>2
  <1>4. CrcT(rw, g, E) = E
    <2> HIDE DEF E, w
    <2>1. Ones(w) \subseteq Ones(Top(rw))
      BY <1>1, TypeHolds DEF Ones, w
    <2> QED
      BY <1>3, <2>1, InCrcT
  <1> HIDE DEF ps, w, t, z, y
  <1>5. a \in Word /\ b \in Word
    BY <1>1, ReflectIfWord
  <1>6. \A x \in 0 .. w - 1 : x \in W <=> x \in r
    BY InRelated DEF w
  <1>7. ASSUME NEW x \in 0 .. w - 1 PROVE x \in a <=> x \in b
    <2>1. CASE t
      <3>1. (x \in reflect(W, w) <=> x \in 0 .. w - 1 /\ w - 1 - x \in W)
            /\ (x \in reflect(r, w) <=> x \in 0 .. w - 1 /\ w - 1 - x \in r)
        BY <1>1, InReflect
      <3>2. w - 1 - x \in 0 .. w - 1
        BY <1>1
      <3> QED
        BY <1>6, <2>1, <3>1, <3>2 DEF ReflectIf
    <2>2. CASE ~ t
      BY <1>6, <2>2 DEF ReflectIf
    <2> QED
      BY <1>1, <2>1, <2>2
  <1>8. Xor(a, z) \cap Ones(w) = E
    <2> HIDE DEF a, b, E
    <2>1. Xor(a, z) \in Word
      BY <1>2, <1>5, XorWord
    <2>2. Xor(a, z) \cap Ones(w) \in Word
      BY <2>1, CapWord
    <2>3. ASSUME NEW x \in Nat PROVE x \in Xor(a, z) \cap Ones(w) <=> x \in E
      <3>1. x \in Xor(a, z) <=> ~ (x \in a <=> x \in z)
        BY InXor
      <3>2. x \in E <=> ~ (x \in b <=> x \in y)
        BY <1>3, InXor
      <3>3. CASE x \in 0 .. w - 1
        <4>1. x \in Ones(w) /\ (x \in z <=> x \in y)
          BY <1>2, <3>3 DEF Ones
        <4> QED
          BY <1>7, <3>1, <3>2, <3>3, <4>1
      <3>4. CASE ~ (x \in 0 .. w - 1)
        BY <1>3, <3>4 DEF Ones
      <3> QED
        BY <3>3, <3>4
    <2> QED
      BY <1>3, <2>2, <2>3, SameWord
  <1>9. ASSUME Given(g, {"width"}), W \subseteq Ones(w) PROVE Xor(a, z) = E
    <2>1. W = r
      <3>1. \A x \in Nat : x \in W <=> x \in r
        BY <1>6, <1>9 DEF Ones, w
      <3> QED
        BY <3>1, SameWord
    <2> QED
      BY <1>2, <1>3, <1>9, <2>1
  <1> HIDE DEF a, b, E
  <1>10. Given(g, {"width"}) /\ W \subseteq Ones(w) => CrcT(rw, g, Xor(a, z)) = E
    BY <1>4, <1>9
  <1>11. CrcT(rw, g, Xor(a, z) \cap Ones(w)) = E
    BY <1>4, <1>8
  <1> QED
    BY <1>1, <1>10, <1>11 DEF a, z, E, ps, w, t

\* The last passes of bit-by-bit.
EndCPass(rw, g) == [i \in 0 .. rw.width - 1 |-> [r \in Word |-> BitByBitCPass(rw, g, r, {})]]

LEMMA EndsAlike ==
    ASSUME NEW rw, NEW g, Fits(rw, g), Narrow(rw, g), NEW a \in Word, NEW B \in Word,
           <<a, B>> \in Related(rw.width)
    PROVE  /\ <<Times(rw.width, EndCPass(rw, g), a), Times(rw.width, EndPass(Masked(rw)), B)>>
                \in Related(rw.width)
           /\ Times(rw.width, EndPass(Masked(rw)), B) \subseteq Ones(rw.width)
  <1> DEFINE ps == Masked(rw)
             w == rw.width
             f == EndCPass(rw, g)
             h == EndPass(ps)
  <1>1. Params(ps) /\ ps.width = w /\ w \in Nat \ {0}
    <2>1. rw \in RawParams
      BY DEF Fits
    <2> QED
      BY <2>1, MaskedIs
  <1>2. /\ Takes(w, h)
        /\ \A i \in 0 .. w - 1, r \in Word : h[i][r] = BitByBitBit(ps, r, BitOf(FALSE))
    <2> HIDE DEF ps, w
    <2>1. /\ Takes(ps.width, EndPass(ps))
          /\ \A i \in 0 .. ps.width - 1, r \in Word : EndPass(ps)[i][r] = BitByBitBit(ps, r, BitOf(FALSE))
      BY <1>1, EndTakes
    <2> QED
      BY <1>1, <2>1
  <1>3. ASSUME NEW i \in 0 .. w - 1, NEW r \in Word, NEW v \in Word, <<r, v>> \in Related(w)
        PROVE  f[i][r] \in Word /\ <<f[i][r], h[i][v]>> \in Related(w)
    <2>1. PICK u \in BOOLEAN : u = FALSE
      OBVIOUS
    <2>2. f[i][r] = BitByBitCPass(rw, g, r, BitOf(u))
      BY <2>1 DEF EndCPass, BitOf
    <2>3. h[i][v] = BitByBitBit(ps, v, BitOf(u))
      BY <1>2, <2>1
    <2> HIDE DEF f, h
    <2> QED
      BY <1>3, <2>2, <2>3, BitPassIs
  <1>4. Takes(w, f)
    <2>1. ASSUME NEW i \in 0 .. w - 1 PROVE f[i] \in [Word -> Word]
      <3>1. \A r \in Word : <<r, r>> \in Related(w)
        BY InRelated
      <3>2. \A r \in Word : f[i][r] \in Word
        BY <1>3, <3>1
      <3>3. f[i] = [r \in Word |-> f[i][r]]
        BY DEF EndCPass
      <3> HIDE DEF f
      <3> QED
        BY <3>2, <3>3
    <2> HIDE DEF f, w
    <2> QED
      BY <2>1 DEF Takes
  <1> HIDE DEF f, h, w
  <1>5. <<Times(w, f, a), Times(w, h, B)>> \in Related(w)
    BY <1>1, <1>2, <1>3, <1>4, TimesRelated DEF w
  <1>6. Times(w, h, B) \subseteq Ones(w)
    <2>1. PICK q : Iterates(q, w, h, B) /\ Times(w, h, B) = q[w]
      BY <1>1, <1>2, TimesIterates
    <2>2. w - 1 \in 0 .. w - 1 /\ w - 1 \in 0 .. w /\ (w - 1) + 1 = w
      BY <1>1
    <2>3. q[w] = h[w - 1][q[w - 1]] /\ q[w - 1] \in Word
      BY <2>1, <2>2 DEF Iterates
    <2>4. PICK u \in BOOLEAN : u = FALSE
      OBVIOUS
    <2>5. q[w] = BitByBitBit(ps, q[w - 1], BitOf(u))
      BY <1>2, <2>2, <2>3, <2>4
    <2> HIDE DEF ps
    <2>6. BitByBitBit(ps, q[w - 1], BitOf(u)) \subseteq Ones(ps.width)
      BY <1>1, <2>3, InBit
    <2> QED
      BY <1>1, <2>1, <2>5, <2>6
  <1> QED
    BY <1>5, <1>6 DEF w, f, h

LEMMA EndOf ==
    ASSUME NEW rw, NEW g, NEW a, NEW W,
           W = IF g.algorithm = "bit-by-bit" THEN Times(rw.width, EndCPass(rw, g), a)
                                             ELSE ShiftRight(a, Shift(rw, g)),
           NEW t, t = IF g.algorithm = "table-driven" THEN rw.reflect_in # rw.reflect_out
                                                      ELSE rw.reflect_out
    PROVE  crc_finalize(rw, g, a)
             = CrcT(rw, g, IF InlineCrcFinalize(g)
                           THEN Xor(ReflectIf(t, W, rw.width), Cfg(rw, g).xor_out)
                           ELSE Xor(ReflectIf(t, W, rw.width), Cfg(rw, g).xor_out) \cap Mask(rw))
  BY Zenon DEF crc_finalize, EndCPass

LEMMA BitEnds ==
    ASSUME NEW rw, NEW g, Fits(rw, g), Narrow(rw, g), g.algorithm = "bit-by-bit", NEW a, NEW B \in Word,
           <<a, B>> \in Related(rw.width)
    PROVE  crc_finalize(rw, g, a) = BitByBitEnd(Masked(rw), B)
  <1> DEFINE w == rw.width
             W == Times(w, EndCPass(rw, g), a)
             E == Times(w, EndPass(Masked(rw)), B)
  <1>1. a \in Word
    BY DEF Related
  <1>2. <<W, E>> \in Related(w) /\ E \subseteq Ones(w)
    BY <1>1, EndsAlike
  <1>3. BitByBitEnd(Masked(rw), B) = Finish(Masked(rw), E)
    <2>1. Masked(rw).width = w
      BY MaskedIs DEF Fits
    <2>2. BitByBitEnd(Masked(rw), B)
            = Finish(Masked(rw), Times(Masked(rw).width, EndPass(Masked(rw)), B))
      BY Zenon DEF BitByBitEnd, EndPass
    <2> QED
      BY <2>1, <2>2
  <1>4. ~ InlineCrcFinalize(g)
    BY DEF InlineCrcFinalize
  <1>5. crc_finalize(rw, g, a)
          = CrcT(rw, g, Xor(ReflectIf(rw.reflect_out, W, w), Cfg(rw, g).xor_out) \cap Mask(rw))
    <2>1. W = IF g.algorithm = "bit-by-bit" THEN Times(rw.width, EndCPass(rw, g), a)
                                            ELSE ShiftRight(a, Shift(rw, g))
      OBVIOUS
    <2>2. rw.reflect_out = IF g.algorithm = "table-driven" THEN rw.reflect_in # rw.reflect_out
                                                           ELSE rw.reflect_out
      OBVIOUS
    <2> HIDE DEF W
    <2>3. crc_finalize(rw, g, a)
             = CrcT(rw, g, IF InlineCrcFinalize(g)
                           THEN Xor(ReflectIf(rw.reflect_out, W, rw.width), Cfg(rw, g).xor_out)
                           ELSE Xor(ReflectIf(rw.reflect_out, W, rw.width), Cfg(rw, g).xor_out)
                                  \cap Mask(rw))
      BY <2>1, <2>2, EndOf
    <2> QED
      BY <1>4, <2>3
  <1> HIDE DEF W, E
  <1>6. W \in Word /\ E \in Word
    BY <1>2 DEF Related
  <1> QED
    BY <1>2, <1>3, <1>5, <1>6, FinishesAlike

LEMMA FastEnds ==
    ASSUME NEW rw, NEW g, Fits(rw, g), g.algorithm = "bit-by-bit-fast", NEW a, NEW F \in Word,
           F \subseteq Ones(rw.width), <<a, F>> \in Related(rw.width),
           Given(g, {"width"}) => a \subseteq Ones(rw.width)
    PROVE  crc_finalize(rw, g, a) = Finish(Masked(rw), F)
  <1>1. a \in Word
    BY DEF Related
  <1>2. ShiftRight(a, Shift(rw, g)) = a
    <2>1. Shift(rw, g) = 0
      BY ShiftIs
    <2>2. ShiftRight(a, 0) \in Word
      BY <1>1, RightWord
    <2>3. \A x \in Nat : x \in ShiftRight(a, 0) <=> x >= 0 /\ x + 0 \in a
      BY <1>1, InRight
    <2>4. ShiftRight(a, 0) = a
      BY <1>1, <2>2, <2>3, SameWord
    <2> QED
      BY <2>1, <2>4
  <1>3. crc_finalize(rw, g, a)
          = CrcT(rw, g, IF InlineCrcFinalize(g)
                        THEN Xor(ReflectIf(rw.reflect_out, a, rw.width), Cfg(rw, g).xor_out)
                        ELSE Xor(ReflectIf(rw.reflect_out, a, rw.width), Cfg(rw, g).xor_out) \cap Mask(rw))
    <2>1. a = IF g.algorithm = "bit-by-bit" THEN Times(rw.width, EndCPass(rw, g), a)
                                            ELSE ShiftRight(a, Shift(rw, g))
      BY <1>2
    <2>2. rw.reflect_out = IF g.algorithm = "table-driven" THEN rw.reflect_in # rw.reflect_out
                                                           ELSE rw.reflect_out
      OBVIOUS
    <2> QED
      BY <2>1, <2>2, EndOf
  <1>4. InlineCrcFinalize(g) => Given(g, {"width"})
    BY DEF InlineCrcFinalize, Given
  <1> QED
    BY <1>1, <1>3, <1>4, FinishesAlike

LEMMA TableProgramEnds ==
    ASSUME NEW rw, NEW g, Fits(rw, g), g.algorithm = "table-driven", NEW F \in Word,
           F \subseteq Ones(rw.width)
    PROVE  crc_finalize(rw, g, Tabled(Masked(rw), F)) = Finish(Masked(rw), F)
  <1> DEFINE ps == Masked(rw)
             w == rw.width
             s == CrcShift(rw)
             a == Tabled(ps, F)
             W == ReflectIf(rw.reflect_in, F, w)
             t == rw.reflect_in # rw.reflect_out
  <1>1. /\ Params(ps) /\ ps.width = w /\ ps.reflect_in = rw.reflect_in /\ rw.reflect_in \in BOOLEAN
        /\ rw.reflect_out \in BOOLEAN /\ CrcShift(ps) = s /\ w \in Nat /\ s \in Nat
    <2>1. rw \in RawParams
      BY DEF Fits
    <2> QED
      BY <2>1, MaskedIs, TypeHolds
  <1>2. F \subseteq 0 .. w - 1 /\ W \in Word
    BY <1>1, ReflectIfWord DEF Ones
  <1>3. a = ShiftLeft(W, s)
    BY <1>1 DEF Tabled, ReflectIf
  <1>4. ShiftRight(a, Shift(rw, g)) = W
    <2>1. Shift(rw, g) = s
      BY ShiftIs
    <2> HIDE DEF W, a
    <2>2. PICK d \in Nat : d = s
      BY <1>1
    <2>3. ShiftLeft(W, d) \in Word /\ \A x \in Int : x \in ShiftLeft(W, d) <=> x - d \in W
      BY <1>2, LeftWord, InLeft
    <2>4. PICK z \in Word : z = ShiftLeft(W, d)
      BY <2>3
    <2>5. ShiftRight(z, d) \in Word /\ \A x \in Int : x \in ShiftRight(z, d) <=> x >= 0 /\ x + d \in z
      BY RightWord, InRight
    <2>6. \A x \in Nat : x \in ShiftRight(z, d) <=> x \in W
      <3> SUFFICES ASSUME NEW x \in Nat PROVE x \in ShiftRight(z, d) <=> x \in W
        OBVIOUS
      <3>1. PICK y \in Int : y = x + d
        OBVIOUS
      <3>2. y - d = x
        BY <3>1
      <3> QED
        BY <2>3, <2>4, <2>5, <3>1, <3>2
    <2>7. ShiftRight(z, d) = W
      BY <1>2, <2>5, <2>6, SameWord
    <2> QED
      BY <1>3, <2>1, <2>2, <2>4, <2>7
  <1>5. ReflectIf(t, W, w) = ReflectIf(rw.reflect_out, F, w)
    <2>1. reflect(reflect(F, w), w) = F
      <3>1. /\ reflect(F, w) \in Word
            /\ \A x \in Int : x \in reflect(F, w) <=> x \in 0 .. w - 1 /\ w - 1 - x \in F
        BY <1>1, ReflectWord, InReflect
      <3>2. PICK z \in Word : z = reflect(F, w)
        BY <3>1
      <3>3. /\ reflect(z, w) \in Word
            /\ \A x \in Int : x \in reflect(z, w) <=> x \in 0 .. w - 1 /\ w - 1 - x \in z
        BY <1>1, ReflectWord, InReflect
      <3>4. \A x \in Nat : x \in reflect(z, w) <=> x \in F
        <4> SUFFICES ASSUME NEW x \in Nat PROVE x \in reflect(z, w) <=> x \in F
          OBVIOUS
        <4> HIDE DEF w
        <4>1. PICK y \in Int : y = w - 1 - x
          BY <1>1
        <4>2. w - 1 - y = x /\ (x \in 0 .. w - 1 => y \in 0 .. w - 1)
          BY <1>1, <4>1
        <4>3. x \in reflect(z, w) <=> x \in 0 .. w - 1 /\ y \in z
          BY <3>3, <4>1
        <4>4. y \in z <=> y \in 0 .. w - 1 /\ x \in F
          BY <3>1, <3>2, <4>2
        <4> QED
          BY <1>2, <4>2, <4>3, <4>4
      <3>5. reflect(z, w) = F
        BY <3>3, <3>4, SameWord
      <3> QED
        BY <3>2, <3>5
    <2>2. CASE rw.reflect_in /\ rw.reflect_out
      BY <2>2 DEF ReflectIf
    <2>3. CASE rw.reflect_in /\ ~ rw.reflect_out
      BY <2>1, <2>3 DEF ReflectIf
    <2>4. CASE ~ rw.reflect_in /\ rw.reflect_out
      BY <2>4 DEF ReflectIf
    <2>5. CASE ~ rw.reflect_in /\ ~ rw.reflect_out
      <3>1. rw.reflect_in = rw.reflect_out
        BY <1>1, <2>5
      <3> QED
        BY <2>5, <3>1 DEF ReflectIf
    <2> QED
      BY <2>2, <2>3, <2>4, <2>5
  <1>6. crc_finalize(rw, g, a)
          = CrcT(rw, g, IF InlineCrcFinalize(g)
                        THEN Xor(ReflectIf(t, W, w), Cfg(rw, g).xor_out)
                        ELSE Xor(ReflectIf(t, W, w), Cfg(rw, g).xor_out) \cap Mask(rw))
    <2>1. W = IF g.algorithm = "bit-by-bit" THEN Times(rw.width, EndCPass(rw, g), a)
                                            ELSE ShiftRight(a, Shift(rw, g))
      BY <1>4
    <2>2. t = IF g.algorithm = "table-driven" THEN rw.reflect_in # rw.reflect_out
                                              ELSE rw.reflect_out
      OBVIOUS
    <2> HIDE DEF W, a, t
    <2> QED
      BY <2>1, <2>2, EndOf
  <1>7. InlineCrcFinalize(g) => Given(g, {"width"})
    BY DEF InlineCrcFinalize, Given
  <1>8. <<F, F>> \in Related(w)
    BY InRelated
  <1>9. crc_finalize(rw, g, a)
          = CrcT(rw, g, IF InlineCrcFinalize(g)
                        THEN Xor(ReflectIf(rw.reflect_out, F, w), Cfg(rw, g).xor_out)
                        ELSE Xor(ReflectIf(rw.reflect_out, F, w), Cfg(rw, g).xor_out) \cap Mask(rw))
    <2> HIDE DEF W, a, t
    <2> QED
      BY <1>5, <1>6
  <1> QED
    BY <1>7, <1>8, <1>9, FinishesAlike

-----------------------------------------------------------------------------
(***************************************************************************)
(* The generated program in every state of the specification.              *)
(***************************************************************************)
ProgramKeeps ==
    Keeps(raw, program, crc, register["bit_by_bit"], register["bit_by_bit_fast"])

PInv ==
    /\ IInv
    /\ Fits(raw, program)
    /\ ~ Unbracketed(raw, program) /\ ~ Unmasked(raw, program) => ProgramKeeps

\* A crc_t has at most 64 bits.
WordsFit == \A c \in Cases : c.raw.width <= 64

LEMMA InitPInv == WordsFit /\ Init => PInv
  <1> SUFFICES ASSUME WordsFit, Init PROVE PInv
    OBVIOUS
  <1>1. PICK c \in Cases : raw = c.raw /\ program = c.program
    BY DEF Init
  <1>2. Fits(raw, program)
    BY <1>1, CasesAssumption DEF Fits, RawParams, WordsFit
  <1>3. register = [m \in Methods |->
                     CASE m = "bit_by_bit" -> NonDirectInit(p)
                       [] m = "bit_by_bit_fast" -> p.xor_in
                       [] m = "table_driven" -> TableInit(p)
                       [] m = "check_file" -> FileInit(p)]
    BY DEF Init
  <1>4. register["bit_by_bit"] = NonDirectInit(p) /\ register["bit_by_bit_fast"] = p.xor_in
    BY <1>3 DEF Methods
  <1>5. crc = crc_init(raw, program)
    BY DEF Init
  <1>6. ~ Unbracketed(raw, program) /\ ~ Unmasked(raw, program) => ProgramKeeps
    BY <1>2, <1>4, <1>5, InitKeeps DEF ProgramKeeps, p
  <1> QED
    BY <1>2, <1>6, InitIInv DEF PInv

LEMMA OctetsAre ==
    Loop("bit_by_bit") = BitOctets(Masked(raw)) /\ Loop("bit_by_bit_fast") = FastOctets(Masked(raw))
  BY DEF Loop, OneOctet, BitOctets, FastOctets, p

\* The register of bit_by_bit_fast has the bits of the CRC only.
LEMMA RegisterBits ==
    ASSUME IInv
    PROVE  /\ register["bit_by_bit"] \in Word
           /\ register["bit_by_bit_fast"] \in Word
           /\ register["bit_by_bit_fast"] \subseteq Ones(raw.width)
           /\ Finish(p, register["bit_by_bit_fast"]) = Checksum("bit_by_bit_fast")
           /\ Checksum("table_driven") = Checksum("bit_by_bit_fast")
           /\ Checksum("bit_by_bit") = BitByBitEnd(p, register["bit_by_bit"])
  <1>1. Params(p) /\ in_str \in Seq(Octet) /\ done \in 0 .. Len(in_str) /\ done \in Nat
        /\ p.width = raw.width
    <2>1. raw \in RawParams
      BY DEF IInv, RawParams
    <2> QED
      BY <2>1, MaskedIs DEF IInv, p
  <1>2. \A m \in Methods : RegisterIs(m, register[m], done)
    BY DEF IInv, RegisterHolds
  <1>3. Fast(done) \in Word /\ Fast(done) \subseteq Ones(p.width)
    <2> DEFINE t == 8 * done + p.width
    <2>1. t \in Nat /\ Generator(p.width, p.poly)
      BY <1>1 DEF Params, Generator
    <2>2. Dividend(done) \in Word /\ Dividend(done) \subseteq 0 .. t
      BY <1>1, DividendBits
    <2> HIDE DEF t
    <2> QED
      BY <2>1, <2>2, RemainderWord DEF Fast
  <1>4. register["bit_by_bit_fast"] = Fast(done) /\ register["bit_by_bit"] \in Word
    BY <1>2 DEF RegisterIs, Methods
  <1> QED
    BY <1>1, <1>3, <1>4, WhatIsReturned DEF Checksum

LEMMA ProgramUpdateIs ==
    ASSUME NEW n, Update(n)
    PROVE  /\ raw' = raw /\ program' = program
           /\ crc' = crc_update(raw, program, crc, SubSeq(in_str, done + 1, done + n))
           /\ register' = [m \in Methods |-> OverOctets(Loop(m), register[m],
                                                        SubSeq(in_str, done + 1, done + n))]
           /\ done + n <= Len(in_str)
  BY Zenon DEF Update, Loop, OneOctet

LEMMA NextPInv == PInv /\ [Next]_vars => PInv'
  <1> SUFFICES ASSUME PInv, [Next]_vars PROVE PInv'
    OBVIOUS
  <1>1. IInv /\ IInv'
    BY NextIInv DEF PInv
  <1>2. in_str \in Seq(Octet) /\ done \in Nat
    BY <1>1 DEF IInv
  <1>3. CASE UNCHANGED vars
    BY <1>1, <1>3 DEF PInv, ProgramKeeps, vars
  <1>4. ASSUME NEW n \in 0 .. MaxChunk, Update(n) PROVE PInv'
    <2> DEFINE s == SubSeq(in_str, done + 1, done + n)
    <2>1. n \in Nat
      BY MaxChunkAssumption
    <2>2. /\ raw' = raw /\ program' = program /\ crc' = crc_update(raw, program, crc, s)
          /\ register' = [m \in Methods |-> OverOctets(Loop(m), register[m], s)]
          /\ done + n <= Len(in_str)
      BY <1>4, ProgramUpdateIs
    <2>3. s \in Seq(Octet)
      <3>1. \A i \in (done + 1) .. (done + n) : in_str[i] \in Octet
        BY <1>2, <2>1, <2>2
      <3> QED
        BY <1>2, <2>1, <2>2, <3>1
    <2> HIDE DEF s
    <2>4. /\ register'["bit_by_bit"] = OverOctets(BitOctets(Masked(raw)), register["bit_by_bit"], s)
          /\ register'["bit_by_bit_fast"]
               = OverOctets(FastOctets(Masked(raw)), register["bit_by_bit_fast"], s)
      BY <2>2, OctetsAre DEF Methods
    <2>5. ASSUME ~ Unbracketed(raw, program), ~ Unmasked(raw, program)
          PROVE  Keeps(raw, program, crc', register'["bit_by_bit"], register'["bit_by_bit_fast"])
      <3>1. /\ Fits(raw, program)
            /\ Keeps(raw, program, crc, register["bit_by_bit"], register["bit_by_bit_fast"])
        BY <2>5 DEF PInv, ProgramKeeps
      <3> QED
        BY <1>1, <2>2, <2>3, <2>4, <3>1, RegisterBits, UpdateKeeps
    <2> QED
      BY <1>1, <2>2, <2>5 DEF PInv, ProgramKeeps
  <1> QED
    BY <1>3, <1>4 DEF Next

LEMMA PInvAgrees == PInv => ProgramAgrees
  <1> SUFFICES ASSUME PInv, ~ NarrowTable, ~ UnbracketedInit, ~ WideBool, ~ UnmaskedInit
               PROVE  ProgramSays = PycrcSays
    BY DEF ProgramAgrees
  <1> DEFINE B == register["bit_by_bit"]
             F == register["bit_by_bit_fast"]
  <1>1. IInv /\ Fits(raw, program) /\ raw.width \in Nat /\ raw.reflect_in \in BOOLEAN
    BY MaskedIs DEF PInv, Fits
  <1>2. B \in Word /\ F \in Word /\ F \subseteq Ones(raw.width)
    BY <1>1, RegisterBits
  <1>3. ~ Unbracketed(raw, program) /\ ~ Unmasked(raw, program)
    BY DEF UnbracketedInit, UnmaskedInit, Unbracketed, Unmasked
  <1>4. Keeps(raw, program, crc, B, F)
    BY <1>3 DEF PInv, ProgramKeeps
  <1>5. program.algorithm # "table-driven" => Narrow(raw, program)
    BY <1>1 DEF WideBool, Narrow
  <1>6. program.algorithm = "table-driven" => Shiftable(raw, program)
    <2>1. program.table_idx_width \in {1, 2, 4, 8}
      BY <1>1, IdxWidth
    <2> QED
      BY <1>1, <2>1 DEF NarrowTable, Shiftable, CrcShift
  <1> HIDE DEF B, F
  <1>7. CASE program.algorithm = "bit-by-bit"
    <2>1. <<crc, B>> \in Related(raw.width)
      BY <1>4, <1>5, <1>7 DEF Keeps
    <2>2. ProgramSays = BitByBitEnd(Masked(raw), B)
      BY <1>1, <1>2, <1>5, <1>7, <2>1, BitEnds DEF ProgramSays
    <2>3. PycrcSays = Checksum("bit_by_bit")
      BY <1>7 DEF PycrcSays
    <2> QED
      BY <1>1, <2>2, <2>3, RegisterBits DEF p, B
  <1>8. CASE program.algorithm = "bit-by-bit-fast"
    <2>1. <<crc, F>> \in Related(raw.width)
          /\ (Given(program, {"width"}) => crc \subseteq Ones(raw.width))
      BY <1>4, <1>5, <1>8 DEF Keeps
    <2>2. ProgramSays = Finish(Masked(raw), F)
      BY <1>1, <1>2, <1>8, <2>1, FastEnds DEF ProgramSays
    <2>3. PycrcSays = Checksum("bit_by_bit_fast")
      BY <1>8 DEF PycrcSays
    <2> QED
      BY <1>1, <2>2, <2>3, RegisterBits DEF p, F
  <1>9. CASE program.algorithm = "table-driven"
    <2>1. crc = Tabled(Masked(raw), F)
      BY <1>4, <1>6, <1>9 DEF Keeps
    <2>2. ProgramSays = Finish(Masked(raw), F)
      BY <1>1, <1>2, <1>9, <2>1, TableProgramEnds DEF ProgramSays
    <2>3. PycrcSays = Checksum("table_driven")
      BY <1>9 DEF PycrcSays
    <2> QED
      BY <1>1, <2>2, <2>3, RegisterBits DEF p, F
  <1> QED
    BY <1>1, <1>7, <1>8, <1>9, AlgorithmCases

(***************************************************************************)
(* Every program pycrc generates, whichever of its parameters are          *)
(* constants and however the string is cut into calls of crc_update,       *)
(* returns what pycrc computes of the string, unless it has one of the     *)
(* four defects and as long as the CRC fits into the widest crc_t.         *)
(***************************************************************************)
THEOREM ProgramsAlwaysAgree == WordsFit => (Spec => []ProgramAgrees)
  <1> SUFFICES ASSUME WordsFit PROVE Spec => []ProgramAgrees
    OBVIOUS
  <1>1. Init => PInv
    BY InitPInv
  <1> QED
    BY <1>1, NextPInv, PInvAgrees, PTL DEF Spec
=============================================================================
