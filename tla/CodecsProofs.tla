---------------------------- MODULE CodecsProofs ----------------------------
(***************************************************************************)
(* The algorithms of the codecs, for any commands, payloads, values,       *)
(* powers and register contents the library allows.  A register is 65536   *)
(* values: they are reasoned about by their digits, not enumerated.        *)
(***************************************************************************)
EXTENDS Codecs, TLAPS, SequenceTheorems, FiniteSetTheorems

-----------------------------------------------------------------------------
(* Words and bytes *)

LEMMA UpTo ==
    ASSUME NEW top \in Int, NEW v
    PROVE  v \in 0..top <=> v \in Int /\ 0 <= v /\ v <= top
  OBVIOUS

LEMMA WordIs == ASSUME NEW v PROVE v \in Word <=> v \in Int /\ 0 <= v /\ v <= 65535
<1> DEFINE top == 65535
<1>1. top \in Int
  OBVIOUS
<1>2. top = 65535
  OBVIOUS
<1> HIDE DEF top
<1>3. Word = 0..top
  BY <1>2, SMT DEF Word
<1>4. v \in 0..top <=> v \in Int /\ 0 <= v /\ v <= top
  BY <1>1, UpTo
<1>5. v \in Word <=> v \in Int /\ 0 <= v /\ v <= top
  BY <1>3, <1>4
<1> QED
  BY <1>2, <1>5

LEMMA ByteIs == ASSUME NEW v PROVE v \in Byte <=> v \in Int /\ 0 <= v /\ v <= 255
<1> DEFINE top == 255
<1>1. top \in Int
  OBVIOUS
<1>2. top = 255
  OBVIOUS
<1> HIDE DEF top
<1>3. Byte = 0..top
  BY <1>2, SMT DEF Byte
<1>4. v \in 0..top <=> v \in Int /\ 0 <= v /\ v <= top
  BY <1>1, UpTo
<1>5. v \in Byte <=> v \in Int /\ 0 <= v /\ v <= top
  BY <1>3, <1>4
<1> QED
  BY <1>2, <1>5

\* A word is its two bytes.
LEMMA HalvesOfWord ==
    ASSUME NEW w \in Word
    PROVE  /\ Hi(w) \in Byte /\ Lo(w) \in Byte
           /\ Hi(w) = w \div 256
           /\ U16(Hi(w), Lo(w)) = w
<1>1. w \in Int /\ 0 <= w /\ w <= 65535
  BY WordIs
<1> QED
  BY <1>1, ByteIs DEF Hi, Lo, U16

LEMMA WordOfHalves ==
    ASSUME NEW hi \in Byte, NEW lo \in Byte
    PROVE  /\ U16(hi, lo) \in Word
           /\ Hi(U16(hi, lo)) = hi /\ Lo(U16(hi, lo)) = lo
<1>1. hi \in Int /\ 0 <= hi /\ hi <= 255 /\ lo \in Int /\ 0 <= lo /\ lo <= 255
  BY ByteIs
<1>2. U16(hi, lo) \in Word
  BY <1>1, WordIs DEF U16
<1>3. Hi(U16(hi, lo)) = hi /\ Lo(U16(hi, lo)) = lo
  BY <1>1 DEF U16, Hi, Lo
<1> QED
  BY <1>2, <1>3

\* The bytes of any number are those of the word it is congruent to.
LEMMA HalvesOfInteger ==
    ASSUME NEW v \in Int
    PROVE  /\ Hi(v) \in Byte /\ Lo(v) \in Byte
           /\ U16(Hi(v), Lo(v)) = v % 65536
           /\ v % 65536 \in Word
<1>1. U16(Hi(v), Lo(v)) = v % 65536
  BY DEF Hi, Lo, U16
<1> QED
  BY <1>1, ByteIs, WordIs DEF Hi, Lo

LEMMA SignedFacts ==
    ASSUME NEW w \in Word
    PROVE  /\ Signed16(w) \in Int
           /\ -32768 <= Signed16(w) /\ Signed16(w) <= 32767
           /\ Signed16(w) % 65536 = w
<1>1. w \in Int /\ 0 <= w /\ w <= 65535
  BY WordIs
<1> QED
  BY <1>1 DEF Signed16

-----------------------------------------------------------------------------
(* Sums.  The library folds a set by taking away an element that CHOOSE      *)
(* names, over and over: it computes a value only if there is a function     *)
(* that does so on all subsets.  There is one, by induction on the subsets   *)
(* (a smallest one without it leads to a contradiction), and only one.       *)

Chosen(s) == CHOOSE x \in s : TRUE
\* f sums the values of v over the subsets of S.
Sums(f, S, v) ==
    f = [s \in SUBSET S |-> IF s = {} THEN 0 ELSE v[Chosen(s)] + f[s \ {Chosen(s)}]]

\* The same of a function on more subsets than those of S.
SumsWithin(f, S, v) ==
    \A s \in SUBSET S : f[s] = IF s = {} THEN 0 ELSE v[Chosen(s)] + f[s \ {Chosen(s)}]

LEMMA ChosenIsIn == ASSUME NEW s, s # {} PROVE Chosen(s) \in s
  BY DEF Chosen

LEMMA LeastSubset ==
    ASSUME NEW S, IsFiniteSet(S), NEW T \in SUBSET (SUBSET S), T # {}
    PROVE  \E t \in T : \A u \in T : u \subseteq t => u = t
<1>1. FiniteSubsetsOf(S) = SUBSET S
  BY FS_FiniteSubsetsOfFinite
<1>2. IsWellFoundedOn(StrictSubsetOrdering(S), SUBSET S)
  BY <1>1, FS_StrictSubsetOrderingWellFounded
<1>3. PICK t \in T : \A u \in T : ~(<<u, t>> \in StrictSubsetOrdering(S))
  BY <1>2, WFMin
<1>4. ASSUME NEW u \in T, u \subseteq t, u # t PROVE FALSE
  <2>1. <<u, t>> \in StrictSubsetOrdering(S)
    BY <1>4 DEF StrictSubsetOrdering
  <2> QED
    BY <1>3, <2>1
<1> QED
  BY <1>4

LEMMA SumsStep ==
    ASSUME NEW S, NEW T \in SUBSET S, NEW v, NEW f, Sums(f, S, v)
    PROVE  SumsWithin(f, T, v)
  BY DEF Sums, SumsWithin

\* Two functions that sum the same values agree.
LEMMA SumsAgree ==
    ASSUME NEW S, IsFiniteSet(S), NEW v, NEW f, NEW g,
           SumsWithin(f, S, v), SumsWithin(g, S, v)
    PROVE  \A s \in SUBSET S : f[s] = g[s]
<1> DEFINE T == {s \in SUBSET S : f[s] # g[s]}
<1>1. SUFFICES ASSUME T # {} PROVE FALSE
  OBVIOUS
<1>2. PICK t \in T : \A u \in T : u \subseteq t => u = t
  <2>1. T \in SUBSET (SUBSET S)
    OBVIOUS
  <2> HIDE DEF T
  <2> QED
    BY <1>1, <2>1, LeastSubset
<1>3. t # {}
  BY DEF SumsWithin
<1>4. Chosen(t) \in t /\ t \ {Chosen(t)} \in SUBSET S /\ t \ {Chosen(t)} # t
  BY <1>3, ChosenIsIn
<1>5. t \ {Chosen(t)} \notin T
  BY <1>2, <1>4
<1>6. f[t \ {Chosen(t)}] = g[t \ {Chosen(t)}]
  BY <1>4, <1>5
<1>7. f[t] = g[t]
  BY <1>3, <1>6 DEF SumsWithin
<1> QED
  BY <1>7

\* A sum over all subsets exists, and is a natural number if the values are.
LEMMA SumsExist ==
    ASSUME NEW S, IsFiniteSet(S), NEW v \in [S -> Nat]
    PROVE  \E f \in [SUBSET S -> Nat] : Sums(f, S, v)
<1> DEFINE GoodSums(s) == \E f \in [SUBSET s -> Nat] : Sums(f, s, v)
           T == {s \in SUBSET S : ~GoodSums(s)}
<1>1. SUFFICES ASSUME T # {} PROVE FALSE
  OBVIOUS
<1> HIDE DEF GoodSums
<1>2. PICK t \in T : \A u \in T : u \subseteq t => u = t
  <2>1. T \in SUBSET (SUBSET S)
    OBVIOUS
  <2> HIDE DEF T
  <2> QED
    BY <1>1, <2>1, LeastSubset
<1>3. \A s \in SUBSET t : s # t => GoodSums(s)
  BY <1>2
<1> DEFINE SumOver(s) == CHOOSE f \in [SUBSET s -> Nat] : Sums(f, s, v)
<1>4. \A s \in SUBSET t : s # t => SumOver(s) \in [SUBSET s -> Nat] /\ Sums(SumOver(s), s, v)
  BY <1>3 DEF GoodSums
<1> HIDE DEF SumOver
<1>5. ASSUME NEW s \in SUBSET t, s # t, s # {}
      PROVE  SumOver(s)[s] = v[Chosen(s)] + SumOver(s \ {Chosen(s)})[s \ {Chosen(s)}]
  <2> DEFINE r == s \ {Chosen(s)}
  <2>1. Chosen(s) \in s /\ r \in SUBSET s /\ r \in SUBSET t /\ r # t
    BY <1>5, ChosenIsIn
  <2>2. IsFiniteSet(r)
    BY <2>1, FS_Subset
  <2>3. Sums(SumOver(s), s, v) /\ Sums(SumOver(r), r, v)
    BY <1>4, <1>5, <2>1
  <2> HIDE DEF r
  <2>4. SumsWithin(SumOver(r), r, v)
    BY <2>3, SumsStep
  <2>5. SumsWithin(SumOver(s), r, v)
    BY <2>1, <2>3, SumsStep
  <2>6. SumOver(s)[r] = SumOver(r)[r]
    BY <2>2, <2>4, <2>5, SumsAgree
  <2>7. SumOver(s)[s] = v[Chosen(s)] + SumOver(s)[r]
    <3>1. SumsWithin(SumOver(s), s, v)
      BY <2>3, SumsStep
    <3> QED
      BY <3>1, <1>5 DEF r, SumsWithin
  <2> QED
    BY <2>6, <2>7 DEF r
<1> DEFINE f == [s \in SUBSET t |->
                   IF s = t THEN IF t = {} THEN 0 ELSE v[Chosen(t)] + SumOver(t \ {Chosen(t)})[t \ {Chosen(t)}]
                   ELSE SumOver(s)[s]]
<1>6. ASSUME NEW s \in SUBSET t, s # t PROVE SumOver(s)[s] \in Nat /\ (s = {} => SumOver(s)[s] = 0)
  <2>1. SumsWithin(SumOver(s), s, v)
    BY <1>4, <1>6, SumsStep
  <2> QED
    BY <1>4, <1>6, <2>1 DEF SumsWithin
<1>7. t # {} => Chosen(t) \in t /\ Chosen(t) \in S /\ v[Chosen(t)] \in Nat /\ t \ {Chosen(t)} # t
  BY ChosenIsIn
<1>8. f \in [SUBSET t -> Nat]
  <2>1. ASSUME NEW s \in SUBSET t PROVE f[s] \in Nat
    <3>1. CASE s # t
      BY <1>6, <3>1
    <3>2. CASE s = t /\ t # {}
      <4>1. SumOver(t \ {Chosen(t)})[t \ {Chosen(t)}] \in Nat
        BY <1>6, <1>7, <3>2
      <4> QED
        BY <1>7, <3>2, <4>1
    <3>3. CASE s = t /\ t = {}
      BY <3>3
    <3> QED
      BY <3>1, <3>2, <3>3
  <2> QED
    BY <2>1
<1>9. ASSUME NEW s \in SUBSET t
      PROVE  f[s] = IF s = {} THEN 0 ELSE v[Chosen(s)] + f[s \ {Chosen(s)}]
  <2>1. CASE s = {}
    <3>1. CASE t = {}
      BY <2>1, <3>1
    <3>2. CASE t # {}
      BY <1>6, <2>1, <3>2
    <3> QED
      BY <3>1, <3>2
  <2>2. CASE s # {}
    <3>1. Chosen(s) \in s /\ s \ {Chosen(s)} \in SUBSET t /\ s \ {Chosen(s)} # t
      BY <2>2, ChosenIsIn
    <3>2. f[s \ {Chosen(s)}] = SumOver(s \ {Chosen(s)})[s \ {Chosen(s)}]
      BY <3>1
    <3>3. CASE s = t
      BY <2>2, <3>2, <3>3
    <3>4. CASE s # t
      BY <1>5, <2>2, <3>2, <3>4
    <3> QED
      BY <3>3, <3>4
  <2> QED
    BY <2>1, <2>2
<1>10. Sums(f, t, v)
  <2>1. f = [s \in SUBSET t |-> f[s]]
    OBVIOUS
  <2> HIDE DEF f
  <2>2. [s \in SUBSET t |-> f[s]]
          = [s \in SUBSET t |-> IF s = {} THEN 0 ELSE v[Chosen(s)] + f[s \ {Chosen(s)}]]
    BY <1>9
  <2> QED
    BY <2>1, <2>2 DEF Sums
<1>11. GoodSums(t)
  <2> HIDE DEF f
  <2> QED
    BY <1>8, <1>10 DEF GoodSums
<1> QED
  BY <1>11

\* The sum of an AA55 frame.
LEMMA SumOfBytes ==
    ASSUME NEW d \in Seq(Nat)
    PROVE  SumOf(d) \in Nat
<1> DEFINE D == DOMAIN d
<1>1. SumOf(d) = (CHOOSE f : Sums(f, D, d))[D]
  BY DEF SumOf, FoldSeq, FoldFunction, FoldFunctionOnSet, MapThenFoldSet, Sums, Chosen
<1>2. Len(d) \in Nat /\ D = 1..Len(d) /\ d \in [D -> Nat]
  BY LenProperties
<1>3. IsFiniteSet(D)
  BY <1>2, FS_Interval
<1> HIDE DEF D
<1>4. PICK f \in [SUBSET D -> Nat] : Sums(f, D, d)
  BY <1>2, <1>3, SumsExist
<1> DEFINE g == CHOOSE h : Sums(h, D, d)
<1>5. Sums(g, D, d)
  BY <1>4
<1>6. SumOf(d) = g[D]
  BY <1>1
<1> HIDE DEF g
<1>7. SumsWithin(f, D, d) /\ SumsWithin(g, D, d)
  BY <1>4, <1>5, SumsStep
<1>8. g[D] = f[D]
  BY <1>3, <1>7, SumsAgree
<1> QED
  BY <1>4, <1>6, <1>8

\* The sum of a set of numbers is what adds up one element at a time.
LEMMA SumSetIs ==
    ASSUME NEW S \in SUBSET Nat, IsFiniteSet(S), NEW g \in [SUBSET S -> Nat], g[{}] = 0,
           \A s \in SUBSET S : \A x \in s : g[s] = x + g[s \ {x}]
    PROVE  SumSet(S) = g[S]
<1> DEFINE v == [x \in S |-> x]
           Adds(f) == f = [s \in SUBSET S |-> IF s = {} THEN 0 ELSE Chosen(s) + f[s \ {Chosen(s)}]]
           h == CHOOSE f : Adds(f)
<1>1. SumSet(S) = h[S]
  BY DEF SumSet, FoldSet, MapThenFoldSet, Chosen
<1>2. Adds(g)
  <2>1. \A s \in SUBSET S : g[s] = IF s = {} THEN 0 ELSE Chosen(s) + g[s \ {Chosen(s)}]
    BY ChosenIsIn
  <2>2. g = [s \in SUBSET S |-> g[s]]
    OBVIOUS
  <2> QED
    BY <2>1, <2>2, Zenon
<1>3. Adds(h)
  <2> HIDE DEF Adds
  <2> QED
    BY <1>2
<1> HIDE DEF h
<1>4. SumsWithin(g, S, v) /\ SumsWithin(h, S, v)
  <2>1. \A s \in SUBSET S : s # {} => v[Chosen(s)] = Chosen(s)
    BY ChosenIsIn
  <2>2. SumsWithin(g, S, v)
    BY <2>1, ChosenIsIn DEF SumsWithin
  <2>3. SumsWithin(h, S, v)
    <3>1. \A s \in SUBSET S : h[s] = IF s = {} THEN 0 ELSE Chosen(s) + h[s \ {Chosen(s)}]
      BY <1>3, Zenon
    <3> QED
      BY <2>1, <3>1 DEF SumsWithin
  <2> QED
    BY <2>2, <2>3
<1>5. h[S] = g[S]
  <2> HIDE DEF v
  <2> QED
    BY <1>4, SumsAgree
<1> QED
  BY <1>1, <1>5

-----------------------------------------------------------------------------
(* Masks: the sum of the powers of two a set of positions names, and the     *)
(* positions of the bits of a number.                                        *)

LEMMA Powers2 ==
    /\ 2^0 = 1 /\ 2^1 = 2 /\ 2^2 = 4 /\ 2^3 = 8 /\ 2^4 = 16 /\ 2^5 = 32 /\ 2^6 = 64 /\ 2^7 = 128
    /\ 2^8 = 256 /\ 2^9 = 512 /\ 2^10 = 1024 /\ 2^11 = 2048
    /\ 2^12 = 4096 /\ 2^13 = 8192 /\ 2^14 = 16384 /\ 2^15 = 32768
  BY SMT

\* The bit at a position, spelt out.
Bit(w, i) ==
    CASE i = 0 -> w % 2 [] i = 1 -> (w \div 2) % 2 [] i = 2 -> (w \div 4) % 2
      [] i = 3 -> (w \div 8) % 2 [] i = 4 -> (w \div 16) % 2 [] i = 5 -> (w \div 32) % 2
      [] i = 6 -> (w \div 64) % 2 [] i = 7 -> (w \div 128) % 2 [] i = 8 -> (w \div 256) % 2
      [] i = 9 -> (w \div 512) % 2 [] i = 10 -> (w \div 1024) % 2 [] i = 11 -> (w \div 2048) % 2
      [] i = 12 -> (w \div 4096) % 2 [] i = 13 -> (w \div 8192) % 2
      [] i = 14 -> (w \div 16384) % 2 [] i = 15 -> (w \div 32768) % 2

Positions == 0..15
LEMMA PositionIs ==
    ASSUME NEW i PROVE i \in Positions <=> i \in {0, 1, 2, 3, 4, 5, 6, 7, 8, 9, 10, 11, 12, 13, 14, 15}
  BY DEF Positions

Twelve == 0..11
LEMMA TwelveIs ==
    ASSUME NEW i PROVE i \in Twelve <=> i \in {0, 1, 2, 3, 4, 5, 6, 7, 8, 9, 10, 11}
  BY DEF Twelve

LEMMA TwelveMembers ==
    /\ 0 \in Twelve /\ 1 \in Twelve /\ 2 \in Twelve /\ 3 \in Twelve /\ 4 \in Twelve
    /\ 5 \in Twelve /\ 6 \in Twelve /\ 7 \in Twelve /\ 8 \in Twelve /\ 9 \in Twelve
    /\ 10 \in Twelve /\ 11 \in Twelve
  BY TwelveIs

Power(i) == 2^i
LEMMA PowerIs ==
    /\ Power(0) = 1 /\ Power(1) = 2 /\ Power(2) = 4 /\ Power(3) = 8 /\ Power(4) = 16
    /\ Power(5) = 32 /\ Power(6) = 64 /\ Power(7) = 128 /\ Power(8) = 256 /\ Power(9) = 512
    /\ Power(10) = 1024 /\ Power(11) = 2048
  BY Powers2 DEF Power

LEMMA BitsAre ==
    ASSUME NEW w \in Nat
    PROVE  Bits(w) = {i \in Positions : Bit(w, i) = 1}
<1>1. ASSUME NEW i \in Positions PROVE (w \div 2^i) % 2 = Bit(w, i)
  <2>1. w \div 1 = w
    OBVIOUS
  <2>2. /\ (w \div 2^0) % 2 = Bit(w, 0) /\ (w \div 2^1) % 2 = Bit(w, 1)
        /\ (w \div 2^2) % 2 = Bit(w, 2) /\ (w \div 2^3) % 2 = Bit(w, 3)
        /\ (w \div 2^4) % 2 = Bit(w, 4) /\ (w \div 2^5) % 2 = Bit(w, 5)
        /\ (w \div 2^6) % 2 = Bit(w, 6) /\ (w \div 2^7) % 2 = Bit(w, 7)
    BY <2>1, Powers2 DEF Bit
  <2>3. /\ (w \div 2^8) % 2 = Bit(w, 8) /\ (w \div 2^9) % 2 = Bit(w, 9)
        /\ (w \div 2^10) % 2 = Bit(w, 10) /\ (w \div 2^11) % 2 = Bit(w, 11)
        /\ (w \div 2^12) % 2 = Bit(w, 12) /\ (w \div 2^13) % 2 = Bit(w, 13)
        /\ (w \div 2^14) % 2 = Bit(w, 14) /\ (w \div 2^15) % 2 = Bit(w, 15)
    BY Powers2 DEF Bit
  <2>4. i \in {0, 1, 2, 3, 4, 5, 6, 7, 8, 9, 10, 11, 12, 13, 14, 15}
    BY PositionIs
  <2> QED
    BY <2>2, <2>3, <2>4
<1>2. Bits(w) = {i \in Positions : (w \div 2^i) % 2 = 1}
  BY DEF Bits, Positions
<1> QED
  BY <1>1, <1>2

\* Twelve digits make a number below 4096, and are its bits.
Binary(b) ==
    b[0] + 2 * b[1] + 4 * b[2] + 8 * b[3] + 16 * b[4] + 32 * b[5] + 64 * b[6] + 128 * b[7]
      + 256 * b[8] + 512 * b[9] + 1024 * b[10] + 2048 * b[11]

\* The number that twelve digits make, one by one.
Spelt(w, b0, b1, b2, b3, b4, b5, b6, b7, b8, b9, b10, b11) ==
    /\ b0 \in Int /\ b1 \in Int /\ b2 \in Int /\ b3 \in Int /\ b4 \in Int /\ b5 \in Int
    /\ b6 \in Int /\ b7 \in Int /\ b8 \in Int /\ b9 \in Int /\ b10 \in Int /\ b11 \in Int
    /\ 0 <= b0 /\ b0 <= 1 /\ 0 <= b1 /\ b1 <= 1 /\ 0 <= b2 /\ b2 <= 1 /\ 0 <= b3 /\ b3 <= 1
    /\ 0 <= b4 /\ b4 <= 1 /\ 0 <= b5 /\ b5 <= 1 /\ 0 <= b6 /\ b6 <= 1 /\ 0 <= b7 /\ b7 <= 1
    /\ 0 <= b8 /\ b8 <= 1 /\ 0 <= b9 /\ b9 <= 1 /\ 0 <= b10 /\ b10 <= 1 /\ 0 <= b11 /\ b11 <= 1
    /\ w \in Int
    /\ w = b0 + 2 * b1 + 4 * b2 + 8 * b3 + 16 * b4 + 32 * b5 + 64 * b6 + 128 * b7
             + 256 * b8 + 512 * b9 + 1024 * b10 + 2048 * b11
DigitsAre(w, b0, b1, b2, b3, b4, b5, b6, b7, b8, b9, b10, b11) ==
    /\ 0 <= w /\ w <= 4095
    /\ w % 2 = b0
    /\ (w \div 2) % 2 = b1
    /\ (w \div 4) % 2 = b2
    /\ (w \div 8) % 2 = b3
    /\ (w \div 16) % 2 = b4
    /\ (w \div 32) % 2 = b5
    /\ (w \div 64) % 2 = b6
    /\ (w \div 128) % 2 = b7
    /\ (w \div 256) % 2 = b8
    /\ (w \div 512) % 2 = b9
    /\ (w \div 1024) % 2 = b10
    /\ (w \div 2048) % 2 = b11
    /\ (w \div 4096) % 2 = 0
    /\ (w \div 8192) % 2 = 0
    /\ (w \div 16384) % 2 = 0
    /\ (w \div 32768) % 2 = 0

LEMMA TwelveDigits ==
    ASSUME NEW b0, NEW b1, NEW b2, NEW b3, NEW b4, NEW b5,
           NEW b6, NEW b7, NEW b8, NEW b9, NEW b10, NEW b11, NEW w,
           Spelt(w, b0, b1, b2, b3, b4, b5, b6, b7, b8, b9, b10, b11)
    PROVE  DigitsAre(w, b0, b1, b2, b3, b4, b5, b6, b7, b8, b9, b10, b11)
<1> USE DEF Spelt
<1>0. 0 <= w /\ w <= 4095
  OBVIOUS
<1>1. w % 2 = b0
  OBVIOUS
<1>2. (w \div 2) % 2 = b1
  <2> DEFINE q == b1 + 2 * b2 + 4 * b3 + 8 * b4 + 16 * b5 + 32 * b6 + 64 * b7 + 128 * b8 + 256 * b9 + 512 * b10 + 1024 * b11
  <2>1. w = 2 * q + (b0) /\ q \in Int
    OBVIOUS
  <2>2. 0 <= b0 /\ b0 < 2
    OBVIOUS
  <2>3. w \div 2 = q
    <3> HIDE DEF q
    <3> DEFINE rest == b0
    <3>1. rest \in Int /\ 0 <= rest /\ rest < 2 /\ w = 2 * q + rest
      BY <2>1, <2>2
    <3> HIDE DEF rest
    <3> QED
      BY <2>1, <3>1
  <2> QED
    BY <2>3
<1>3. (w \div 4) % 2 = b2
  <2> DEFINE q == b2 + 2 * b3 + 4 * b4 + 8 * b5 + 16 * b6 + 32 * b7 + 64 * b8 + 128 * b9 + 256 * b10 + 512 * b11
  <2>1. w = 4 * q + (b0 + 2 * b1) /\ q \in Int
    OBVIOUS
  <2>2. 0 <= b0 + 2 * b1 /\ b0 + 2 * b1 < 4
    OBVIOUS
  <2>3. w \div 4 = q
    <3> HIDE DEF q
    <3> DEFINE rest == b0 + 2 * b1
    <3>1. rest \in Int /\ 0 <= rest /\ rest < 4 /\ w = 4 * q + rest
      BY <2>1, <2>2
    <3> HIDE DEF rest
    <3> QED
      BY <2>1, <3>1
  <2> QED
    BY <2>3
<1>4. (w \div 8) % 2 = b3
  <2> DEFINE q == b3 + 2 * b4 + 4 * b5 + 8 * b6 + 16 * b7 + 32 * b8 + 64 * b9 + 128 * b10 + 256 * b11
  <2>1. w = 8 * q + (b0 + 2 * b1 + 4 * b2) /\ q \in Int
    OBVIOUS
  <2>2. 0 <= b0 + 2 * b1 + 4 * b2 /\ b0 + 2 * b1 + 4 * b2 < 8
    OBVIOUS
  <2>3. w \div 8 = q
    <3> HIDE DEF q
    <3> DEFINE rest == b0 + 2 * b1 + 4 * b2
    <3>1. rest \in Int /\ 0 <= rest /\ rest < 8 /\ w = 8 * q + rest
      BY <2>1, <2>2
    <3> HIDE DEF rest
    <3> QED
      BY <2>1, <3>1
  <2> QED
    BY <2>3
<1>5. (w \div 16) % 2 = b4
  <2> DEFINE q == b4 + 2 * b5 + 4 * b6 + 8 * b7 + 16 * b8 + 32 * b9 + 64 * b10 + 128 * b11
  <2>1. w = 16 * q + (b0 + 2 * b1 + 4 * b2 + 8 * b3) /\ q \in Int
    OBVIOUS
  <2>2. 0 <= b0 + 2 * b1 + 4 * b2 + 8 * b3 /\ b0 + 2 * b1 + 4 * b2 + 8 * b3 < 16
    OBVIOUS
  <2>3. w \div 16 = q
    <3> HIDE DEF q
    <3> DEFINE rest == b0 + 2 * b1 + 4 * b2 + 8 * b3
    <3>1. rest \in Int /\ 0 <= rest /\ rest < 16 /\ w = 16 * q + rest
      BY <2>1, <2>2
    <3> HIDE DEF rest
    <3> QED
      BY <2>1, <3>1
  <2> QED
    BY <2>3
<1>6. (w \div 32) % 2 = b5
  <2> DEFINE q == b5 + 2 * b6 + 4 * b7 + 8 * b8 + 16 * b9 + 32 * b10 + 64 * b11
  <2>1. w = 32 * q + (b0 + 2 * b1 + 4 * b2 + 8 * b3 + 16 * b4) /\ q \in Int
    OBVIOUS
  <2>2. 0 <= b0 + 2 * b1 + 4 * b2 + 8 * b3 + 16 * b4 /\ b0 + 2 * b1 + 4 * b2 + 8 * b3 + 16 * b4 < 32
    OBVIOUS
  <2>3. w \div 32 = q
    <3> HIDE DEF q
    <3> DEFINE rest == b0 + 2 * b1 + 4 * b2 + 8 * b3 + 16 * b4
    <3>1. rest \in Int /\ 0 <= rest /\ rest < 32 /\ w = 32 * q + rest
      BY <2>1, <2>2
    <3> HIDE DEF rest
    <3> QED
      BY <2>1, <3>1
  <2> QED
    BY <2>3
<1>7. (w \div 64) % 2 = b6
  <2> DEFINE q == b6 + 2 * b7 + 4 * b8 + 8 * b9 + 16 * b10 + 32 * b11
  <2>1. w = 64 * q + (b0 + 2 * b1 + 4 * b2 + 8 * b3 + 16 * b4 + 32 * b5) /\ q \in Int
    OBVIOUS
  <2>2. 0 <= b0 + 2 * b1 + 4 * b2 + 8 * b3 + 16 * b4 + 32 * b5 /\ b0 + 2 * b1 + 4 * b2 + 8 * b3 + 16 * b4 + 32 * b5 < 64
    OBVIOUS
  <2>3. w \div 64 = q
    <3> HIDE DEF q
    <3> DEFINE rest == b0 + 2 * b1 + 4 * b2 + 8 * b3 + 16 * b4 + 32 * b5
    <3>1. rest \in Int /\ 0 <= rest /\ rest < 64 /\ w = 64 * q + rest
      BY <2>1, <2>2
    <3> HIDE DEF rest
    <3> QED
      BY <2>1, <3>1
  <2> QED
    BY <2>3
<1>8. (w \div 128) % 2 = b7
  <2> DEFINE q == b7 + 2 * b8 + 4 * b9 + 8 * b10 + 16 * b11
  <2>1. w = 128 * q + (b0 + 2 * b1 + 4 * b2 + 8 * b3 + 16 * b4 + 32 * b5 + 64 * b6) /\ q \in Int
    OBVIOUS
  <2>2. 0 <= b0 + 2 * b1 + 4 * b2 + 8 * b3 + 16 * b4 + 32 * b5 + 64 * b6 /\ b0 + 2 * b1 + 4 * b2 + 8 * b3 + 16 * b4 + 32 * b5 + 64 * b6 < 128
    OBVIOUS
  <2>3. w \div 128 = q
    <3> HIDE DEF q
    <3> DEFINE rest == b0 + 2 * b1 + 4 * b2 + 8 * b3 + 16 * b4 + 32 * b5 + 64 * b6
    <3>1. rest \in Int /\ 0 <= rest /\ rest < 128 /\ w = 128 * q + rest
      BY <2>1, <2>2
    <3> HIDE DEF rest
    <3> QED
      BY <2>1, <3>1
  <2> QED
    BY <2>3
<1>9. (w \div 256) % 2 = b8
  <2> DEFINE q == b8 + 2 * b9 + 4 * b10 + 8 * b11
  <2>1. w = 256 * q + (b0 + 2 * b1 + 4 * b2 + 8 * b3 + 16 * b4 + 32 * b5 + 64 * b6 + 128 * b7) /\ q \in Int
    OBVIOUS
  <2>2. 0 <= b0 + 2 * b1 + 4 * b2 + 8 * b3 + 16 * b4 + 32 * b5 + 64 * b6 + 128 * b7 /\ b0 + 2 * b1 + 4 * b2 + 8 * b3 + 16 * b4 + 32 * b5 + 64 * b6 + 128 * b7 < 256
    OBVIOUS
  <2>3. w \div 256 = q
    <3> HIDE DEF q
    <3> DEFINE rest == b0 + 2 * b1 + 4 * b2 + 8 * b3 + 16 * b4 + 32 * b5 + 64 * b6 + 128 * b7
    <3>1. rest \in Int /\ 0 <= rest /\ rest < 256 /\ w = 256 * q + rest
      BY <2>1, <2>2
    <3> HIDE DEF rest
    <3> QED
      BY <2>1, <3>1
  <2> QED
    BY <2>3
<1>10. (w \div 512) % 2 = b9
  <2> DEFINE q == b9 + 2 * b10 + 4 * b11
  <2>1. w = 512 * q + (b0 + 2 * b1 + 4 * b2 + 8 * b3 + 16 * b4 + 32 * b5 + 64 * b6 + 128 * b7 + 256 * b8) /\ q \in Int
    OBVIOUS
  <2>2. 0 <= b0 + 2 * b1 + 4 * b2 + 8 * b3 + 16 * b4 + 32 * b5 + 64 * b6 + 128 * b7 + 256 * b8 /\ b0 + 2 * b1 + 4 * b2 + 8 * b3 + 16 * b4 + 32 * b5 + 64 * b6 + 128 * b7 + 256 * b8 < 512
    OBVIOUS
  <2>3. w \div 512 = q
    <3> HIDE DEF q
    <3> DEFINE rest == b0 + 2 * b1 + 4 * b2 + 8 * b3 + 16 * b4 + 32 * b5 + 64 * b6 + 128 * b7 + 256 * b8
    <3>1. rest \in Int /\ 0 <= rest /\ rest < 512 /\ w = 512 * q + rest
      BY <2>1, <2>2
    <3> HIDE DEF rest
    <3> QED
      BY <2>1, <3>1
  <2> QED
    BY <2>3
<1>11. (w \div 1024) % 2 = b10
  <2> DEFINE q == b10 + 2 * b11
  <2>1. w = 1024 * q + (b0 + 2 * b1 + 4 * b2 + 8 * b3 + 16 * b4 + 32 * b5 + 64 * b6 + 128 * b7 + 256 * b8 + 512 * b9) /\ q \in Int
    OBVIOUS
  <2>2. 0 <= b0 + 2 * b1 + 4 * b2 + 8 * b3 + 16 * b4 + 32 * b5 + 64 * b6 + 128 * b7 + 256 * b8 + 512 * b9 /\ b0 + 2 * b1 + 4 * b2 + 8 * b3 + 16 * b4 + 32 * b5 + 64 * b6 + 128 * b7 + 256 * b8 + 512 * b9 < 1024
    OBVIOUS
  <2>3. w \div 1024 = q
    <3> HIDE DEF q
    <3> DEFINE rest == b0 + 2 * b1 + 4 * b2 + 8 * b3 + 16 * b4 + 32 * b5 + 64 * b6 + 128 * b7 + 256 * b8 + 512 * b9
    <3>1. rest \in Int /\ 0 <= rest /\ rest < 1024 /\ w = 1024 * q + rest
      BY <2>1, <2>2
    <3> HIDE DEF rest
    <3> QED
      BY <2>1, <3>1
  <2> QED
    BY <2>3
<1>12. (w \div 2048) % 2 = b11
  <2> DEFINE q == b11
  <2>1. w = 2048 * q + (b0 + 2 * b1 + 4 * b2 + 8 * b3 + 16 * b4 + 32 * b5 + 64 * b6 + 128 * b7 + 256 * b8 + 512 * b9 + 1024 * b10) /\ q \in Int
    OBVIOUS
  <2>2. 0 <= b0 + 2 * b1 + 4 * b2 + 8 * b3 + 16 * b4 + 32 * b5 + 64 * b6 + 128 * b7 + 256 * b8 + 512 * b9 + 1024 * b10 /\ b0 + 2 * b1 + 4 * b2 + 8 * b3 + 16 * b4 + 32 * b5 + 64 * b6 + 128 * b7 + 256 * b8 + 512 * b9 + 1024 * b10 < 2048
    OBVIOUS
  <2>3. w \div 2048 = q
    <3> HIDE DEF q
    <3> DEFINE rest == b0 + 2 * b1 + 4 * b2 + 8 * b3 + 16 * b4 + 32 * b5 + 64 * b6 + 128 * b7 + 256 * b8 + 512 * b9 + 1024 * b10
    <3>1. rest \in Int /\ 0 <= rest /\ rest < 2048 /\ w = 2048 * q + rest
      BY <2>1, <2>2
    <3> HIDE DEF rest
    <3> QED
      BY <2>1, <3>1
  <2> QED
    BY <2>3
<1>13. /\ (w \div 4096) % 2 = 0
       /\ (w \div 8192) % 2 = 0
       /\ (w \div 16384) % 2 = 0
       /\ (w \div 32768) % 2 = 0
  BY <1>0
<1> QED
  BY <1>0, <1>1, <1>2, <1>3, <1>4, <1>5, <1>6, <1>7, <1>8, <1>9, <1>10, <1>11, <1>12, <1>13 DEF DigitsAre

LEMMA BinaryBits ==
    ASSUME NEW b \in [Twelve -> {0, 1}]
    PROVE  /\ Binary(b) \in Int /\ 0 <= Binary(b) /\ Binary(b) <= 4095
           /\ \A i \in Positions : Bit(Binary(b), i) = IF i \in Twelve THEN b[i] ELSE 0
<1>1. \A i \in Twelve : b[i] \in Int /\ 0 <= b[i] /\ b[i] <= 1
  OBVIOUS
<1>2. /\ b[0] \in Int /\ b[1] \in Int /\ b[2] \in Int /\ b[3] \in Int /\ b[4] \in Int /\ b[5] \in Int
      /\ b[6] \in Int /\ b[7] \in Int /\ b[8] \in Int /\ b[9] \in Int /\ b[10] \in Int /\ b[11] \in Int
  BY <1>1, TwelveMembers
<1>3. /\ 0 <= b[0] /\ b[0] <= 1 /\ 0 <= b[1] /\ b[1] <= 1 /\ 0 <= b[2] /\ b[2] <= 1
      /\ 0 <= b[3] /\ b[3] <= 1 /\ 0 <= b[4] /\ b[4] <= 1 /\ 0 <= b[5] /\ b[5] <= 1
      /\ 0 <= b[6] /\ b[6] <= 1 /\ 0 <= b[7] /\ b[7] <= 1 /\ 0 <= b[8] /\ b[8] <= 1
      /\ 0 <= b[9] /\ b[9] <= 1 /\ 0 <= b[10] /\ b[10] <= 1 /\ 0 <= b[11] /\ b[11] <= 1
  BY <1>1, TwelveMembers
<1> DEFINE w == Binary(b)
<1>4. Spelt(w, b[0], b[1], b[2], b[3], b[4], b[5], b[6], b[7], b[8], b[9], b[10], b[11])
  <2> DEFINE b0 == b[0]
            b1 == b[1]
            b2 == b[2]
            b3 == b[3]
            b4 == b[4]
            b5 == b[5]
            b6 == b[6]
            b7 == b[7]
            b8 == b[8]
            b9 == b[9]
            b10 == b[10]
            b11 == b[11]
  <2>1. /\ b0 \in Int /\ b1 \in Int /\ b2 \in Int /\ b3 \in Int /\ b4 \in Int /\ b5 \in Int
        /\ b6 \in Int /\ b7 \in Int /\ b8 \in Int /\ b9 \in Int /\ b10 \in Int /\ b11 \in Int
    BY <1>2
  <2>2. w = b0 + 2 * b1 + 4 * b2 + 8 * b3 + 16 * b4 + 32 * b5 + 64 * b6 + 128 * b7
             + 256 * b8 + 512 * b9 + 1024 * b10 + 2048 * b11
    BY DEF Binary
  <2> HIDE DEF b0, b1, b2, b3, b4, b5, b6, b7, b8, b9, b10, b11, w
  <2>3. w \in Int
    BY <2>1, <2>2
  <2>4. Spelt(w, b0, b1, b2, b3, b4, b5, b6, b7, b8, b9, b10, b11)
    <3>1. \A x \in {b0, b1, b2, b3, b4, b5, b6, b7, b8, b9, b10, b11} : 0 <= x /\ x <= 1
      BY <1>3 DEF b0, b1, b2, b3, b4, b5, b6, b7, b8, b9, b10, b11
    <3> QED
      BY <2>1, <2>2, <2>3, <3>1 DEF Spelt
  <2> QED
    BY <2>4 DEF b0, b1, b2, b3, b4, b5, b6, b7, b8, b9, b10, b11
<1> HIDE DEF w
<1>5. DigitsAre(w, b[0], b[1], b[2], b[3], b[4], b[5], b[6], b[7], b[8], b[9], b[10], b[11])
  BY <1>4, TwelveDigits
<1>6. /\ w \in Int /\ 0 <= w /\ w <= 4095
      /\ w % 2 = b[0]
      /\ (w \div 2) % 2 = b[1]
      /\ (w \div 4) % 2 = b[2]
      /\ (w \div 8) % 2 = b[3]
      /\ (w \div 16) % 2 = b[4]
      /\ (w \div 32) % 2 = b[5]
      /\ (w \div 64) % 2 = b[6]
      /\ (w \div 128) % 2 = b[7]
      /\ (w \div 256) % 2 = b[8]
      /\ (w \div 512) % 2 = b[9]
      /\ (w \div 1024) % 2 = b[10]
      /\ (w \div 2048) % 2 = b[11]
      /\ (w \div 4096) % 2 = 0
      /\ (w \div 8192) % 2 = 0
      /\ (w \div 16384) % 2 = 0
      /\ (w \div 32768) % 2 = 0
  BY <1>4, <1>5 DEF DigitsAre, Spelt
<1>7. ASSUME NEW i \in Positions PROVE Bit(w, i) = IF i \in Twelve THEN b[i] ELSE 0
  <2>1. i \in {0, 1, 2, 3, 4, 5, 6, 7, 8, 9, 10, 11, 12, 13, 14, 15}
    BY PositionIs
  <2> QED
    BY <2>1, <1>6, TwelveIs DEF Bit
<1> QED
  BY <1>6, <1>7 DEF w

\* Seven digits make a number below 128.
LEMMA SevenDigits ==
    ASSUME NEW b \in [Twelve -> {0, 1}], \A i \in Twelve : i > 6 => b[i] = 0
    PROVE  Binary(b) < 128
<1>1. /\ b[0] \in {0, 1} /\ b[1] \in {0, 1} /\ b[2] \in {0, 1} /\ b[3] \in {0, 1}
      /\ b[4] \in {0, 1} /\ b[5] \in {0, 1} /\ b[6] \in {0, 1}
  BY TwelveMembers
<1>2. b[7] = 0 /\ b[8] = 0 /\ b[9] = 0 /\ b[10] = 0 /\ b[11] = 0
  BY TwelveMembers
<1> QED
  BY <1>1, <1>2 DEF Binary

LEMMA BitRange ==
    ASSUME NEW w \in Int, 0 <= w, w <= 4095
    PROVE  /\ \A i \in Positions : Bit(w, i) \in {0, 1}
           /\ \A i \in Positions : i \notin Twelve => Bit(w, i) = 0
           /\ w < 128 => \A i \in Positions : i > 6 => Bit(w, i) = 0
<1>1. \A i \in Positions : Bit(w, i) \in {0, 1}
  BY PositionIs DEF Bit
<1>2. \A i \in Positions : i \notin Twelve => Bit(w, i) = 0
  BY PositionIs, TwelveIs DEF Bit
<1>3. w < 128 => \A i \in Positions : i > 6 => Bit(w, i) = 0
  BY PositionIs DEF Bit
<1> QED
  BY <1>1, <1>2, <1>3

LEMMA BinaryOf ==
    ASSUME NEW w \in Int, 0 <= w, w <= 4095
    PROVE  w = Binary([i \in Twelve |-> Bit(w, i)])
<1> DEFINE b == [i \in Twelve |-> Bit(w, i)]
<1>1. /\ b[0] = w % 2 /\ b[1] = (w \div 2) % 2 /\ b[2] = (w \div 4) % 2 /\ b[3] = (w \div 8) % 2
      /\ b[4] = (w \div 16) % 2 /\ b[5] = (w \div 32) % 2 /\ b[6] = (w \div 64) % 2
      /\ b[7] = (w \div 128) % 2 /\ b[8] = (w \div 256) % 2 /\ b[9] = (w \div 512) % 2
      /\ b[10] = (w \div 1024) % 2 /\ b[11] = (w \div 2048) % 2
  <2>1. \A i \in Twelve : b[i] = Bit(w, i)
    OBVIOUS
  <2> HIDE DEF b
  <2> QED
    BY <2>1, TwelveMembers DEF Bit
<1>2. /\ w = 2 * (w \div 2) + (w % 2) /\ w \div 2 = 2 * (w \div 4) + ((w \div 2) % 2)
      /\ w \div 4 = 2 * (w \div 8) + ((w \div 4) % 2) /\ w \div 8 = 2 * (w \div 16) + ((w \div 8) % 2)
  OBVIOUS
<1>3. /\ w \div 16 = 2 * (w \div 32) + ((w \div 16) % 2) /\ w \div 32 = 2 * (w \div 64) + ((w \div 32) % 2)
      /\ w \div 64 = 2 * (w \div 128) + ((w \div 64) % 2)
      /\ w \div 128 = 2 * (w \div 256) + ((w \div 128) % 2)
  OBVIOUS
<1>4. /\ w \div 256 = 2 * (w \div 512) + ((w \div 256) % 2)
      /\ w \div 512 = 2 * (w \div 1024) + ((w \div 512) % 2)
      /\ w \div 1024 = 2 * (w \div 2048) + ((w \div 1024) % 2)
      /\ w \div 2048 = (w \div 2048) % 2
  OBVIOUS
<1>5. w = Binary(b)
  <2> HIDE DEF b
  <2> QED
    BY <1>1, <1>2, <1>3, <1>4 DEF Binary
<1>6. Binary(b) = Binary([i \in Twelve |-> Bit(w, i)])
  OBVIOUS
<1> HIDE DEF b
<1> QED
  BY <1>5, <1>6

\* The sum of the powers of two in a set, if they are below 4096.
In(x, s) == IF x \in s THEN x ELSE 0
Total(s) ==
    In(1, s) + In(2, s) + In(4, s) + In(8, s) + In(16, s) + In(32, s) + In(64, s) + In(128, s)
      + In(256, s) + In(512, s) + In(1024, s) + In(2048, s)
TwelvePowers == {1, 2, 4, 8, 16, 32, 64, 128, 256, 512, 1024, 2048}

LEMMA TotalIsTheSum ==
    ASSUME NEW S \in SUBSET TwelvePowers
    PROVE  SumSet(S) = Total(S)
<1> DEFINE g == [s \in SUBSET S |-> Total(s)]
<1>1. \A s : \A x \in TwelvePowers : In(x, s) \in {0, x} /\ x \in Nat
  BY DEF In, TwelvePowers
<1>2. \A s : Total(s) \in Nat
  BY <1>1 DEF Total, TwelvePowers
<1>3. g[{}] = 0
  BY DEF Total, In
<1>4. ASSUME NEW s \in SUBSET S, NEW x \in s PROVE Total(s) = x + Total(s \ {x})
  <2>1. x \in TwelvePowers
    OBVIOUS
  <2>2. \A y \in TwelvePowers : In(y, s \ {x}) = IF y = x THEN 0 ELSE In(y, s)
    BY DEF In
  <2>3. In(x, s) = x
    BY DEF In
  <2>4. /\ In(1, s) \in Int /\ In(2, s) \in Int /\ In(4, s) \in Int /\ In(8, s) \in Int
        /\ In(16, s) \in Int /\ In(32, s) \in Int /\ In(64, s) \in Int /\ In(128, s) \in Int
        /\ In(256, s) \in Int /\ In(512, s) \in Int /\ In(1024, s) \in Int /\ In(2048, s) \in Int
    BY DEF In
  <2> QED
    BY <2>1, <2>2, <2>3, <2>4 DEF Total, TwelvePowers
<1>5. IsFiniteSet(TwelvePowers)
  <2>1. TwelvePowers \in SUBSET Nat /\ \A x \in TwelvePowers : x <= 2048
    BY DEF TwelvePowers
  <2> QED
    BY <2>1, FS_BoundedSetOfNaturals
<1>6. IsFiniteSet(S) /\ S \in SUBSET Nat
  BY <1>1, <1>5, FS_Subset
<1>7. g \in [SUBSET S -> Nat]
  BY <1>2
<1>8. \A s \in SUBSET S : \A x \in s : g[s] = x + g[s \ {x}]
  BY <1>4
<1>9. g[S] = Total(S)
  OBVIOUS
<1> HIDE DEF g
<1> QED
  BY <1>3, <1>6, <1>7, <1>8, <1>9, SumSetIs

Digits12(positions) == [i \in Twelve |-> IF i \in positions THEN 1 ELSE 0]

LEMMA MaskIsBinary ==
    ASSUME NEW positions \in SUBSET Twelve
    PROVE  MaskOf(positions) = Binary(Digits12(positions))
<1> DEFINE S == {Power(i) : i \in positions}
<1>1. S \in SUBSET TwelvePowers
  BY TwelveIs, PowerIs DEF TwelvePowers
<1>2. \A i, j \in Twelve : Power(i) = Power(j) => i = j
  BY TwelveIs, PowerIs
<1>3. \A i \in Twelve : Power(i) \in S <=> i \in positions
  BY <1>2
<1> HIDE DEF S
<1>4. /\ 1 \in S <=> 0 \in positions
      /\ 2 \in S <=> 1 \in positions
      /\ 4 \in S <=> 2 \in positions
      /\ 8 \in S <=> 3 \in positions
      /\ 16 \in S <=> 4 \in positions
      /\ 32 \in S <=> 5 \in positions
      /\ 64 \in S <=> 6 \in positions
      /\ 128 \in S <=> 7 \in positions
      /\ 256 \in S <=> 8 \in positions
      /\ 512 \in S <=> 9 \in positions
      /\ 1024 \in S <=> 10 \in positions
      /\ 2048 \in S <=> 11 \in positions
  BY <1>3, TwelveMembers, PowerIs
<1>5. Total(S) = Binary(Digits12(positions))
  BY <1>4, TwelveMembers DEF Total, In, Binary, Digits12
<1>6. MaskOf(positions) = SumSet(S)
  BY DEF MaskOf, S, Power
<1> QED
  BY <1>1, <1>5, <1>6, TotalIsTheSum

\* A mask is read back, and so are the positions.
LEMMA BitsOfMask ==
    ASSUME NEW positions \in SUBSET Twelve
    PROVE  /\ MaskOf(positions) \in Int /\ 0 <= MaskOf(positions) /\ MaskOf(positions) <= 4095
           /\ Bits(MaskOf(positions)) = positions
           /\ (\A i \in positions : i <= 6) => MaskOf(positions) < 128
<1> DEFINE b == Digits12(positions)
<1>1. b \in [Twelve -> {0, 1}] /\ \A i \in Twelve : b[i] = 1 <=> i \in positions
  BY DEF Digits12
<1>2. MaskOf(positions) = Binary(b)
  BY MaskIsBinary
<1> HIDE DEF b
<1>3. /\ Binary(b) \in Int /\ 0 <= Binary(b) /\ Binary(b) <= 4095
      /\ \A i \in Positions : Bit(Binary(b), i) = IF i \in Twelve THEN b[i] ELSE 0
      /\ (\A i \in Twelve : i > 6 => b[i] = 0) => Binary(b) < 128
  BY <1>1, BinaryBits, SevenDigits
<1>4. Bits(Binary(b)) = {i \in Positions : Bit(Binary(b), i) = 1}
  BY <1>3, BitsAre
<1>5. Bits(Binary(b)) = positions
  <2>1. Twelve \subseteq Positions
    BY DEF Positions, Twelve
  <2> QED
    BY <1>1, <1>3, <1>4, <2>1
<1>6. (\A i \in positions : i <= 6) => \A i \in Twelve : i > 6 => b[i] = 0
  BY <1>1, TwelveIs
<1> QED
  BY <1>2, <1>3, <1>5, <1>6

LEMMA MaskOfBits ==
    ASSUME NEW w \in Int, 0 <= w, w <= 4095
    PROVE  /\ Bits(w) \in SUBSET Twelve
           /\ MaskOf(Bits(w)) = w
           /\ w < 128 => \A i \in Bits(w) : i <= 6
<1>1. Bits(w) = {i \in Positions : Bit(w, i) = 1}
  BY BitsAre
<1>2. Bits(w) \in SUBSET Twelve
  BY <1>1, BitRange
<1>3. w < 128 => \A i \in Bits(w) : i <= 6
  <2>1. \A i \in Positions : i \in Int
    BY PositionIs
  <2> QED
    BY <1>1, <2>1, BitRange
<1> DEFINE b == [i \in Twelve |-> Bit(w, i)]
<1>4. Digits12(Bits(w)) = b
  <2>1. Twelve \subseteq Positions
    BY DEF Positions, Twelve
  <2>2. \A i \in Twelve : (IF i \in Bits(w) THEN 1 ELSE 0) = Bit(w, i)
    BY <2>1, <1>1, BitRange
  <2> QED
    BY <2>2 DEF Digits12
<1>5. MaskOf(Bits(w)) = Binary(Digits12(Bits(w)))
  BY <1>2, MaskIsBinary
<1>6. Binary(b) = w
  BY BinaryOf
<1> HIDE DEF b
<1>7. MaskOf(Bits(w)) = w
  BY <1>4, <1>5, <1>6
<1> QED
  BY <1>2, <1>3, <1>7

-----------------------------------------------------------------------------
(* The inductive invariant: the input is what one of the actions makes it.  *)

AnswerInput ==
    \E sent \in Commands, awaited \in Commands, fill \in Fill, refused \in BOOLEAN :
      input = [of |-> "answer", sent |-> sent, awaited |-> awaited, fill |-> fill, refused |-> refused]
PieceInput ==
    \E sent \in {k \in Commands : k.cmd = READ}, fill \in Fill :
      \E n \in 0..(2 * sent.value + 9) : input = [of |-> "piece", sent |-> sent, fill |-> fill, n |-> n]
Aa55Input ==
    \E type \in Aa55Types, awaited \in Aa55Types, payload \in Payloads :
      \E n \in 0..(Len(payload) + 9) :
        input = [of |-> "aa55", type |-> type, awaited |-> awaited, payload |-> payload, n |-> n]
NumberInput ==
    \E kind \in DOMAIN Kinds : \E value \in [1..Kinds[kind].words -> Parts] :
      input = [of |-> "number", kind |-> kind, value |-> value]
HalfInput ==
    \E half \in {"H", "L"}, value \in -129..128, register \in Registers :
      input = [of |-> "half", half |-> half, value |-> value, register |-> register]
TimeInput == \E h \in -1..24, m \in -1..60 : input = [of |-> "time", hours |-> h, minutes |-> m]
WeekInput ==
    \E mode \in Byte, days \in SUBSET (0..6) : input = [of |-> "week", mode |-> mode, days |-> days]
MonthsInput == \E months \in SUBSET (0..11) : input = [of |-> "months", months |-> months]
RegisterInput == \E register \in Word : input = [of |-> "register", register |-> register]
EcoInput ==
    \E current \in ScheduleType, is745 \in BOOLEAN, power \in Powers, soc \in Socs :
      input = [of |-> "eco", current |-> current, is745 |-> is745, power |-> power, soc |-> soc]
LabelInput ==
    \E high \in Registers, low \in Registers : input = [of |-> "label", high |-> high, low |-> low]
TableInput == \E reading \in Readings : input = [of |-> "table", reading |-> reading]
SettingsInput == \E family \in DOMAIN SettingsOf : input = [of |-> "settings", family |-> family]

InputInv ==
    \/ input = Empty
    \/ AnswerInput \/ PieceInput \/ Aa55Input
    \/ NumberInput \/ HalfInput
    \/ TimeInput \/ WeekInput \/ MonthsInput \/ RegisterInput
    \/ EcoInput \/ LabelInput \/ TableInput \/ SettingsInput

\* The input is always one that an action of the model makes (the callers of the
\* codecs): what the properties say of an input can be proved of its parts.
THEOREM InputsAreTheActions == Spec => []InputInv
<1>1. Init => InputInv
  BY DEF Init, InputInv
<1>2. InputInv /\ [Next]_vars => InputInv'
  <2> SUFFICES ASSUME InputInv, [Next]_vars PROVE InputInv'
    OBVIOUS
  <2>1. CASE UNCHANGED vars
    <3>1. input' = input
      BY <2>1 DEF vars
    <3> QED
      BY <3>1 DEF InputInv, AnswerInput, PieceInput, Aa55Input, NumberInput, HalfInput, TimeInput, WeekInput,
                  MonthsInput, RegisterInput, EcoInput, LabelInput, TableInput, SettingsInput
  <2>2. CASE AnswerArrives
    BY <2>2 DEF AnswerArrives, InputInv, AnswerInput
  <2>3. CASE PieceArrives
    BY <2>3 DEF PieceArrives, InputInv, PieceInput
  <2>4. CASE Aa55AnswerArrives
    BY <2>4 DEF Aa55AnswerArrives, InputInv, Aa55Input
  <2>5. CASE ValueHeld
    BY <2>5 DEF ValueHeld, InputInv, NumberInput
  <2>6. CASE HalfWritten
    BY <2>6 DEF HalfWritten, InputInv, HalfInput
  <2>7. CASE TimeWritten
    BY <2>7 DEF TimeWritten, InputInv, TimeInput
  <2>8. CASE WorkWeekWritten
    BY <2>8 DEF WorkWeekWritten, InputInv, WeekInput
  <2>9. CASE MonthsWritten
    BY <2>9 DEF MonthsWritten, InputInv, MonthsInput
  <2>10. CASE RegisterFound
    BY <2>10 DEF RegisterFound, InputInv, RegisterInput
  <2>11. CASE EcoModeSet
    BY <2>11 DEF EcoModeSet, InputInv, EcoInput
  <2>12. CASE LabelShown
    BY <2>12 DEF LabelShown, InputInv, LabelInput
  <2>13. CASE TableRead
    BY <2>13 DEF TableRead, InputInv, TableInput
  <2>14. CASE SettingsKnown
    BY <2>14 DEF SettingsKnown, InputInv, SettingsInput
  <2> QED
    BY <2>1, <2>2, <2>3, <2>4, <2>5, <2>6, <2>7, <2>8, <2>9, <2>10, <2>11, <2>12, <2>13, <2>14 DEF Next
<1> QED
  BY <1>1, <1>2, PTL DEF Spec

\* What an input is for tells which action made it.
Shape(shape, of) == shape => input.of = of
LEMMA ShapesOf ==
    /\ Shape(input = Empty, "nothing")
    /\ Shape(AnswerInput, "answer") /\ Shape(PieceInput, "piece") /\ Shape(Aa55Input, "aa55")
    /\ Shape(NumberInput, "number") /\ Shape(HalfInput, "half")
    /\ Shape(TimeInput, "time") /\ Shape(WeekInput, "week") /\ Shape(MonthsInput, "months")
    /\ Shape(RegisterInput, "register")
    /\ Shape(EcoInput, "eco") /\ Shape(LabelInput, "label")
    /\ Shape(TableInput, "table") /\ Shape(SettingsInput, "settings")
<1>1. Shape(input = Empty, "nothing")
  BY DEF Shape, Empty
<1>2. Shape(AnswerInput, "answer") /\ Shape(PieceInput, "piece") /\ Shape(Aa55Input, "aa55")
  BY DEF Shape, AnswerInput, PieceInput, Aa55Input
<1>3. Shape(NumberInput, "number") /\ Shape(HalfInput, "half")
  <2>1. ASSUME NumberInput PROVE input.of = "number"
    <3>1. PICK kind, value : input = [of |-> "number", kind |-> kind, value |-> value]
      BY <2>1 DEF NumberInput
    <3> QED
      BY <3>1
  <2>2. Shape(HalfInput, "half")
    BY DEF Shape, HalfInput
  <2> QED
    BY <2>1, <2>2 DEF Shape
<1>4. Shape(TimeInput, "time") /\ Shape(WeekInput, "week") /\ Shape(MonthsInput, "months")
  BY DEF Shape, TimeInput, WeekInput, MonthsInput
<1>5. Shape(RegisterInput, "register") /\ Shape(EcoInput, "eco") /\ Shape(LabelInput, "label")
  BY DEF Shape, RegisterInput, EcoInput, LabelInput
<1>6. Shape(TableInput, "table") /\ Shape(SettingsInput, "settings")
  BY DEF Shape, TableInput, SettingsInput
<1> QED
  BY <1>1, <1>2, <1>3, <1>4, <1>5, <1>6

LEMMA MadeBy ==
    ASSUME InputInv
    PROVE  /\ input.of = "answer" => AnswerInput
           /\ input.of = "piece" => PieceInput
           /\ input.of = "aa55" => Aa55Input
           /\ input.of = "number" => NumberInput
           /\ input.of = "half" => HalfInput
           /\ input.of = "time" => TimeInput
           /\ input.of = "week" => WeekInput
           /\ input.of = "months" => MonthsInput
           /\ input.of = "register" => RegisterInput
           /\ input.of = "eco" => EcoInput
           /\ input.of = "label" => LabelInput
           /\ input.of = "table" => TableInput
           /\ input.of = "settings" => SettingsInput
  BY ShapesOf DEF Shape, InputInv

-----------------------------------------------------------------------------
(* Registers of the time-of-use schedule *)

\* An interval with both bounds as numbers.
LEMMA Between ==
    ASSUME NEW bottom \in Int, NEW top \in Int, NEW v
    PROVE  v \in bottom..top <=> v \in Int /\ bottom <= v /\ v <= top
  OBVIOUS

Hours == 0..23
Minutes == 0..59
LEMMA HoursAre == ASSUME NEW v PROVE v \in Hours <=> v \in Int /\ 0 <= v /\ v <= 23
  BY DEF Hours
LEMMA MinutesAre == ASSUME NEW v PROVE v \in Minutes <=> v \in Int /\ 0 <= v /\ v <= 59
  BY DEF Minutes

LEMMA TimesReadBack ==
    ASSUME NEW h \in Int, NEW m \in Int
    PROVE  IF h \in 0..23 /\ m \in 0..59
           THEN ReadTimeOfDay(EncodeTime(h, m)[2]) = Value(<<h, m>>)
           ELSE EncodeTime(h, m) = ValueError
<1>1. EncodeTime(h, m) = IF h \in Hours /\ m \in Minutes THEN Value(U16(h, m)) ELSE ValueError
  BY DEF EncodeTime, Hours, Minutes
<1>2. CASE h \in Hours /\ m \in Minutes
  <2>1. h \in Byte /\ m \in Byte
    BY <1>2, HoursAre, MinutesAre, ByteIs
  <2>2. Hi(U16(h, m)) = h /\ Lo(U16(h, m)) = m
    BY <2>1, WordOfHalves
  <2>3. U16(h, m) # 65535
    BY <1>2, HoursAre, MinutesAre DEF U16
  <2>4. EncodeTime(h, m)[2] = U16(h, m)
    BY <1>1, <1>2 DEF Value
  <2>5. ReadTimeOfDay(U16(h, m)) = Value(<<h, m>>)
    <3> DEFINE r == U16(h, m)
    <3>1. Hi(r) = h /\ Lo(r) = m /\ r # 65535
      BY <2>2, <2>3
    <3> HIDE DEF r
    <3>2. DecodeTime(r) = <<h, m>>
      BY <3>1 DEF DecodeTime
    <3>3. ReadTimeOfDay(r) = Value(DecodeTime(r))
      BY <3>1 DEF ReadTimeOfDay, Guarded
    <3> QED
      BY <3>2, <3>3 DEF r
  <2> QED
    BY <1>2, <2>4, <2>5 DEF Hours, Minutes
<1>3. CASE ~(h \in Hours /\ m \in Minutes)
  BY <1>1, <1>3 DEF Hours, Minutes
<1> QED
  BY <1>2, <1>3

\* The modes of the work week.
LEMMA ModesAre ==
    /\ ModeBytes = {85, 255, 0, 254, 1, 253, 2, 252, 3, 251, 4, 249}
    /\ WorkWeekMode.PEAK_SHAVING_ENABLE = 252 /\ WorkWeekMode.PEAK_SHAVING_DISABLE = 3
<1>1. WorkWeekMode.PEAK_SHAVING_ENABLE = 252 /\ WorkWeekMode.PEAK_SHAVING_DISABLE = 3
  BY DEF WorkWeekMode
<1>2. DOMAIN WorkWeekMode =
        {"NOT_SET", "ECO_ENABLE", "ECO_DISABLE", "DRY_CONTACT_LOAD_ENABLE", "DRY_CONTACT_LOAD_DISABLE",
         "DRY_CONTACT_SMART_LOAD_ENABLE", "DRY_CONTACT_SMART_LOAD_DISABLE", "PEAK_SHAVING_ENABLE",
         "PEAK_SHAVING_DISABLE", "BACKUP_MODE_ENABLE", "BACKUP_MODE_DISABLE", "BATTERY_POWER_PERMILLAGE"}
  BY DEF WorkWeekMode
<1>3. /\ WorkWeekMode["NOT_SET"] = 85 /\ WorkWeekMode["ECO_ENABLE"] = 255 /\ WorkWeekMode["ECO_DISABLE"] = 0
      /\ WorkWeekMode["DRY_CONTACT_LOAD_ENABLE"] = 254 /\ WorkWeekMode["DRY_CONTACT_LOAD_DISABLE"] = 1
      /\ WorkWeekMode["DRY_CONTACT_SMART_LOAD_ENABLE"] = 253
      /\ WorkWeekMode["DRY_CONTACT_SMART_LOAD_DISABLE"] = 2
      /\ WorkWeekMode["PEAK_SHAVING_ENABLE"] = 252 /\ WorkWeekMode["PEAK_SHAVING_DISABLE"] = 3
      /\ WorkWeekMode["BACKUP_MODE_ENABLE"] = 251 /\ WorkWeekMode["BACKUP_MODE_DISABLE"] = 4
      /\ WorkWeekMode["BATTERY_POWER_PERMILLAGE"] = 249
  BY DEF WorkWeekMode
<1>4. ModeBytes = {85, 255, 0, 254, 1, 253, 2, 252, 3, 251, 4, 249}
  BY <1>2, <1>3 DEF ModeBytes
<1> QED
  BY <1>1, <1>4

Week == 0..6
LEMMA WeekIs == ASSUME NEW v PROVE v \in Week <=> v \in Int /\ 0 <= v /\ v <= 6
  BY DEF Week

\* The days of a week are a mask below 128, and are read back from it.
LEMMA DaysReadBack ==
    ASSUME NEW days \in SUBSET Week
    PROVE  /\ MaskOf(days) \in Int /\ 0 <= MaskOf(days) /\ MaskOf(days) < 128
           /\ Bits(MaskOf(days)) = days
<1>1. days \in SUBSET Twelve /\ \A i \in days : i <= 6
  BY WeekIs, TwelveIs
<1> QED
  BY <1>1, BitsOfMask

LEMMA WeeksReadBack ==
    ASSUME NEW mode \in Byte, NEW days \in SUBSET Week
    PROVE  IF mode \in ModeBytes
           THEN ReadWorkWeek(EncodeWorkWeek(mode, days)[2])
                  = Value([mode |-> mode, known |-> TRUE, days |-> days])
           ELSE EncodeWorkWeek(mode, days) = ValueError
<1> DEFINE mask == MaskOf(days)
<1>1. mask \in Int /\ 0 <= mask /\ mask < 128 /\ Bits(mask) = days
  BY DaysReadBack
<1>2. EncodeWorkWeek(mode, days) = IF mode \in ModeBytes THEN Value(U16(mode, mask)) ELSE ValueError
  BY DEF EncodeWorkWeek, Week
<1> HIDE DEF mask
<1>3. CASE mode \in ModeBytes
  <2> DEFINE r == U16(mode, mask)
  <2>1. mask \in Byte
    BY <1>1, ByteIs
  <2>2. r \in Word /\ Hi(r) = mode /\ Lo(r) = mask
    BY <2>1, WordOfHalves
  <2>3. mode \in Int
    BY ByteIs
  <2>4. r % 128 = mask /\ r # 65535
    BY <1>1, <2>3, ByteIs DEF U16
  <2> HIDE DEF r
  <2>5. EncodeWorkWeek(mode, days)[2] = r
    BY <1>2, <1>3 DEF Value, r
  <2>6. DecodeWorkWeek(r) = [mode |-> mode, known |-> TRUE, days |-> days]
    <3>1. (Hi(r) \in ModeBytes) = TRUE
      BY <1>3, <2>2, Zenon
    <3>2. Hi(r) = mode /\ Bits(r % 128) = days
      BY <1>1, <2>2, <2>4
    <3> QED
      BY <3>1, <3>2, Zenon DEF DecodeWorkWeek
  <2>7. ReadWorkWeek(r) = Value([mode |-> mode, known |-> TRUE, days |-> days])
    BY <2>4, <2>6 DEF ReadWorkWeek, Guarded
  <2> QED
    BY <1>3, <2>5, <2>7
<1>4. CASE mode \notin ModeBytes
  BY <1>2, <1>4
<1> QED
  BY <1>3, <1>4

LEMMA MonthsReadBack ==
    ASSUME NEW months \in SUBSET Twelve
    PROVE  ReadMonthMask(EncodeMonths(months)[2]) = Value(months)
<1> DEFINE mask == MaskOf(months)
<1>1. mask \in Int /\ 0 <= mask /\ mask <= 4095 /\ Bits(mask) = months
  BY BitsOfMask
<1>2. EncodeMonths(months)[2] = mask
  BY DEF EncodeMonths, Twelve, Value
<1> HIDE DEF mask
<1>3. mask # 65535 /\ mask % 4096 = mask
  BY <1>1
<1> QED
  BY <1>1, <1>2, <1>3 DEF ReadMonthMask, Guarded, DecodeMonths

\* A register read as a valid time is written back as it was found.
LEMMA TimesFoundAreKept ==
    ASSUME NEW r \in Word, EncodeTime(Hi(r), Lo(r)) # ValueError
    PROVE  EncodeTime(Hi(r), Lo(r))[2] = r
<1>1. EncodeTime(Hi(r), Lo(r)) = Value(U16(Hi(r), Lo(r)))
  BY DEF EncodeTime
<1> QED
  BY <1>1, HalvesOfWord DEF Value

\* A work week read is written back as it was found, but for bit 7.
LEMMA WeeksFoundAreKept ==
    ASSUME NEW r \in Word, DecodeWorkWeek(r).known
    PROVE  /\ EncodeWorkWeek(DecodeWorkWeek(r).mode, DecodeWorkWeek(r).days)[2] \in {r, r - 128}
<1> DEFINE mask == r % 128
           days == Bits(mask)
<1>1. r \in Int /\ 0 <= r /\ r <= 65535
  BY WordIs
<1>2. mask \in Int /\ 0 <= mask /\ mask < 128
  BY <1>1
<1>3. DecodeWorkWeek(r).mode = Hi(r) /\ DecodeWorkWeek(r).days = days /\ Hi(r) \in ModeBytes
  BY DEF DecodeWorkWeek
<1>4. Hi(r) = r \div 256
  BY HalvesOfWord
<1>5. 256 * (r \div 256) + mask \in {r, r - 128}
  BY <1>1
<1> HIDE DEF mask
<1>6. days \in SUBSET Twelve /\ MaskOf(days) = mask /\ \A i \in days : i <= 6
  BY <1>2, MaskOfBits
<1>7. days \subseteq 0..6
  BY <1>6, TwelveIs
<1> HIDE DEF days
<1>8. EncodeWorkWeek(Hi(r), days)[2] = U16(Hi(r), mask)
  BY <1>3, <1>6, <1>7 DEF EncodeWorkWeek, Value
<1> QED
  BY <1>3, <1>4, <1>5, <1>8 DEF U16

LEMMA MonthsFoundAreKept ==
    ASSUME NEW r \in Word
    PROVE  EncodeMonths(DecodeMonths(r))[2] = r % 4096
<1> DEFINE mask == r % 4096
           months == Bits(mask)
<1>1. r \in Int /\ 0 <= r /\ r <= 65535
  BY WordIs
<1>2. mask \in Int /\ 0 <= mask /\ mask <= 4095
  BY <1>1
<1> HIDE DEF mask
<1>3. months \in SUBSET Twelve /\ MaskOf(months) = mask
  BY <1>2, MaskOfBits
<1>4. DecodeMonths(r) = months
  BY DEF DecodeMonths, mask
<1> HIDE DEF months
<1>5. EncodeMonths(months) = Value(MaskOf(months))
  BY <1>3 DEF EncodeMonths, Twelve
<1> QED
  BY <1>3, <1>4, <1>5 DEF Value, mask

LEMMA NoBits == Bits(0) = {}
<1>1. Bits(0) = {i \in Positions : Bit(0, i) = 1}
  BY BitsAre
<1>2. \A i \in Positions : Bit(0, i) = 0
  BY PositionIs DEF Bit
<1> QED
  BY <1>1, <1>2

\* Days and months of a schedule group are those of the register.
LEMMA SameDaysAndMonths ==
    ASSUME NEW r \in Word
    PROVE  /\ ~DaysRaise(Lo(r) % 128) /\ DaysOfWeek(Lo(r) % 128) = DecodeWorkWeek(r).days
           /\ ~MonthsRaise(r % 4096)
           /\ r % 4096 # 4095 => Months(r % 4096) = DecodeMonths(r)
<1> DEFINE seven == r % 128
           twelve == r % 4096
<1>1. r \in Int /\ 0 <= r /\ r <= 65535
  BY WordIs
<1>2. Lo(r) % 128 = seven
  BY <1>1 DEF Lo
<1>3. seven \in Int /\ 0 <= seven
  BY <1>1
<1>4. twelve \in Int /\ 0 <= twelve /\ twelve <= 4095
  BY <1>1
<1>5. DecodeWorkWeek(r).days = Bits(seven) /\ DecodeMonths(r) = Bits(twelve)
  BY DEF DecodeWorkWeek, DecodeMonths
<1> HIDE DEF seven, twelve
<1>6. ~DaysRaise(seven) /\ DaysOfWeek(seven) = Bits(seven)
  <2>1. Magnitude(seven) = seven
    BY <1>3 DEF Magnitude
  <2> QED
    BY <1>3, <2>1 DEF DaysRaise, DaysOfWeek
<1>7. ~MonthsRaise(twelve)
  <2>1. 12 \notin Digits(twelve)
    BY <1>4, Powers2 DEF Digits
  <2> QED
    BY <2>1 DEF MonthsRaise
<1>8. twelve # 4095 => Months(twelve) = Bits(twelve)
  BY <1>4, NoBits DEF Months
<1> QED
  BY <1>2, <1>5, <1>6, <1>7, <1>8 DEF twelve

LEMMA ValuesDiffer ==
    /\ \A v : Value(v) # TypeError /\ Value(v) # ValueError /\ Value(v) # OverflowError /\ Value(v) # IndexError
    /\ \A v, u : Value(v) = Value(u) => v = u
    /\ \A v : Value(v)[2] = v
  BY DEF Value, TypeError, ValueError, OverflowError, IndexError

LEMMA SwitchLemma == ASSUME NEW r \in Word PROVE SwitchAgreesWithWorkWeek(r)
<1> DEFINE on == 64512
           off == 768
           all == 65535
           enabled == 252
           disabled == 3
           isOn == Hi(r) = enabled
<1>1. /\ Lo(on) = 0 /\ Lo(off) = 0 /\ Hi(on) = enabled /\ Hi(off) = disabled
      /\ on % 128 = 0 /\ off % 128 = 0
  BY DEF Lo, Hi
<1>2. WorkWeekMode.PEAK_SHAVING_ENABLE = enabled /\ WorkWeekMode.PEAK_SHAVING_DISABLE = disabled
  BY ModesAre
<1>3. ReadSwitch(on, off, r) =
        IF Lo(on) = 0 /\ Lo(off) = 0 THEN IF r = all THEN TypeError ELSE Value(Hi(r) = Hi(on)) ELSE Value(r = on)
  BY DEF ReadSwitch
<1>4. ReadWorkWeek(r) = IF r = all THEN TypeError ELSE Value(DecodeWorkWeek(r))
  BY DEF ReadWorkWeek, Guarded
<1>5. SwitchAgreesWithWorkWeek(r) <=>
        /\ (ReadSwitch(on, off, r) = TypeError) <=> (ReadWorkWeek(r) = TypeError)
        /\ (ReadSwitch(on, off, r) = Value(TRUE))
             <=> (r # all /\ DecodeWorkWeek(r).mode = WorkWeekMode.PEAK_SHAVING_ENABLE)
        /\ DecodeWorkWeek(EncodeSwitch(on, off, TRUE)) =
             [mode |-> WorkWeekMode.PEAK_SHAVING_ENABLE, known |-> TRUE, days |-> {}]
        /\ DecodeWorkWeek(EncodeSwitch(on, off, FALSE)) =
             [mode |-> WorkWeekMode.PEAK_SHAVING_DISABLE, known |-> TRUE, days |-> {}]
  BY DEF SwitchAgreesWithWorkWeek
<1> HIDE DEF on, off, all, enabled, disabled
<1>6. \A w : DecodeWorkWeek(w).mode = Hi(w)
  BY DEF DecodeWorkWeek
<1>7. EncodeSwitch(on, off, TRUE) = on /\ EncodeSwitch(on, off, FALSE) = off
  BY DEF EncodeSwitch
<1>8. ReadSwitch(on, off, r) = IF r = all THEN TypeError ELSE Value(isOn)
  BY <1>1, <1>3
<1> HIDE DEF isOn
<1>9. isOn \in BOOLEAN /\ (isOn <=> Hi(r) = enabled)
  BY DEF isOn
<1>10. (ReadSwitch(on, off, r) = TypeError) <=> (r = all)
  BY <1>8, ValuesDiffer, Zenon
<1>11. (ReadWorkWeek(r) = TypeError) <=> (r = all)
  BY <1>4, ValuesDiffer, Zenon
<1>12. (ReadSwitch(on, off, r) = Value(TRUE)) <=> (r # all /\ isOn)
  <2>1. ASSUME r # all, isOn PROVE ReadSwitch(on, off, r) = Value(TRUE)
    <3>1. isOn = TRUE
      BY <1>9, <2>1, Zenon
    <3> QED
      BY <1>8, <2>1, <3>1, Zenon
  <2>2. ASSUME ReadSwitch(on, off, r) = Value(TRUE) PROVE r # all /\ isOn
    <3>1. r # all
      BY <1>10, <2>2, ValuesDiffer, Zenon
    <3>2. Value(isOn) = Value(TRUE)
      BY <1>8, <2>2, <3>1, Zenon
    <3>3. isOn = TRUE
      BY <3>2, ValuesDiffer, Zenon
    <3> QED
      BY <3>1, <3>3, Zenon
  <2> QED
    BY <2>1, <2>2, Zenon
<1>13. /\ DecodeWorkWeek(on) = [mode |-> enabled, known |-> TRUE, days |-> {}]
       /\ DecodeWorkWeek(off) = [mode |-> disabled, known |-> TRUE, days |-> {}]
  <2>1. enabled \in ModeBytes /\ disabled \in ModeBytes
    BY <1>2 DEF ModeBytes, WorkWeekMode
  <2>2. (Hi(on) \in ModeBytes) = TRUE /\ (Hi(off) \in ModeBytes) = TRUE
    BY <1>1, <2>1, Zenon
  <2>3. Bits(on % 128) = {} /\ Bits(off % 128) = {}
    BY <1>1, NoBits, Zenon
  <2> QED
    BY <1>1, <2>2, <2>3, Zenon DEF DecodeWorkWeek
<1> QED
  BY <1>1, <1>2, <1>5, <1>6, <1>7, <1>9, <1>10, <1>11, <1>12, <1>13, Zenon

LEMMA TimeOfUseOfInput == InputInv => TimeOfUseReadsBack
<1> SUFFICES ASSUME InputInv PROVE TimeOfUseReadsBack
  OBVIOUS
<1>1. CASE input.of = "time"
  <2>1. PICK h \in -1..24, m \in -1..60 : input = [of |-> "time", hours |-> h, minutes |-> m]
    BY <1>1, MadeBy DEF TimeInput
  <2>2. h \in Int /\ m \in Int
    OBVIOUS
  <2>3. input.hours = h /\ input.minutes = m
    BY <2>1
  <2>4. IF h \in 0..23 /\ m \in 0..59
        THEN ReadTimeOfDay(EncodeTime(h, m)[2]) = Value(<<h, m>>)
        ELSE EncodeTime(h, m) = ValueError
    BY <2>2, TimesReadBack
  <2> QED
    BY <1>1, <2>3, <2>4 DEF TimeOfUseReadsBack
<1>2. CASE input.of = "week"
  <2>1. PICK mode \in Byte, days \in SUBSET (0..6) : input = [of |-> "week", mode |-> mode, days |-> days]
    BY <1>2, MadeBy DEF WeekInput
  <2>2. input.mode = mode /\ input.days = days
    BY <2>1
  <2>3. days \in SUBSET Week
    BY DEF Week
  <2>4. IF mode \in ModeBytes
        THEN ReadWorkWeek(EncodeWorkWeek(mode, days)[2])
               = Value([mode |-> mode, known |-> TRUE, days |-> days])
        ELSE EncodeWorkWeek(mode, days) = ValueError
    BY <2>3, WeeksReadBack
  <2> QED
    BY <1>2, <2>2, <2>4 DEF TimeOfUseReadsBack
<1>3. CASE input.of = "months"
  <2>1. PICK months \in SUBSET (0..11) : input = [of |-> "months", months |-> months]
    BY <1>3, MadeBy DEF MonthsInput
  <2>2. months \in SUBSET Twelve
    BY DEF Twelve
  <2>3. ReadMonthMask(EncodeMonths(months)[2]) = Value(months)
    BY <2>2, MonthsReadBack
  <2> QED
    BY <1>3, <2>1, <2>3 DEF TimeOfUseReadsBack
<1>4. CASE input.of = "register"
  <2>1. PICK r \in Word : input = [of |-> "register", register |-> r]
    BY <1>4, MadeBy DEF RegisterInput
  <2>2. input.register = r
    BY <2>1
  <2>3. EncodeTime(Hi(r), Lo(r)) # ValueError => EncodeTime(Hi(r), Lo(r))[2] = r
    BY TimesFoundAreKept
  <2>4. DecodeWorkWeek(r).known =>
          EncodeWorkWeek(DecodeWorkWeek(r).mode, DecodeWorkWeek(r).days)[2] \in {r, r - 128}
    BY WeeksFoundAreKept
  <2>5. EncodeMonths(DecodeMonths(r))[2] = r % 4096
    BY MonthsFoundAreKept
  <2> QED
    BY <1>4, <2>2, <2>3, <2>4, <2>5, SameDaysAndMonths, SwitchLemma DEF TimeOfUseReadsBack
<1> QED
  BY <1>1, <1>2, <1>3, <1>4 DEF TimeOfUseReadsBack

\* What is written to the time-of-use registers is read back as it was given, and
\* what is found in them is written back but for the bits no name stands for,
\* for all 65536 contents of a register.
THEOREM TimeOfUseIsReadBack == Spec => []TimeOfUseReadsBack
  BY InputsAreTheActions, TimeOfUseOfInput, PTL

-----------------------------------------------------------------------------
(* Groups of the battery schedule *)

\* A whole day of a group with this switch, power, state of charge and months.
EcoGroup(g, onOff, power, soc, months) ==
    /\ g.start_h = 0 /\ g.start_m = 0 /\ g.end_h = 23 /\ g.end_m = 59
    /\ g.on_off = onOff /\ g.day_bits = 127 /\ g.power = power /\ g.soc = soc /\ g.month_bits = months

LEMMA TypesOfEco ==
    ASSUME NEW current \in ScheduleType, NEW is745 \in BOOLEAN
    PROVE  SetType(current, ECO_MODE, is745) \in {ECO_MODE, ECO_MODE_745}
  BY DEF SetType

LEMMA MonthsAll ==
    /\ ~MonthsRaise(0) /\ ~MonthsRaise(4095)
    /\ ~DaysRaise(127) /\ ~DaysRaise(0)
<1>1. 12 \notin Digits(4095)
  BY Powers2 DEF Digits
<1>2. ~MonthsRaise(0) /\ ~MonthsRaise(4095)
  BY <1>1 DEF MonthsRaise
<1>3. ~DaysRaise(127) /\ ~DaysRaise(0)
  BY DEF DaysRaise
<1> QED
  BY <1>2, <1>3

LEMMA DetectsEco ==
    /\ DetectType(-1) = ECO_MODE /\ DetectType(-7) = ECO_MODE_745
    /\ DetectType(0) = ECO_MODE /\ DetectType(6) = ECO_MODE_745
    /\ Signed8(255 - ECO_MODE) = -1 /\ Signed8(255 - ECO_MODE_745) = -7
    /\ ECO_MODE \in ScheduleType /\ ECO_MODE_745 \in ScheduleType
    /\ ECO_MODE # ECO_MODE_745
  BY DEF DetectType, ECO_MODE, ECO_MODE_745, Signed8, ScheduleType, NOT_SET

Percent == 0..100
LEMMA PercentIs == ASSUME NEW v PROVE v \in Percent <=> v \in Int /\ 0 <= v /\ v <= 100
  BY DEF Percent

\* The power that is written fits its type and shows as what was asked for.
LEMMA PowersShow ==
    ASSUME NEW p \in Percent, NEW t \in {ECO_MODE, ECO_MODE_745}
    PROVE  /\ EncodePower(t, p) \in Int /\ 0 <= EncodePower(t, p)
           /\ EncodePower(t, p) = 0 <=> p = 0
           /\ InRange(t, EncodePower(t, p)) /\ InRange(t, -EncodePower(t, p))
           /\ DecodePower(t, EncodePower(t, p)) = p /\ DecodePower(t, -EncodePower(t, p)) = -p
<1>1. p \in Int /\ 0 <= p /\ p <= 100
  BY PercentIs
<1>2. CASE t = ECO_MODE
  <2>1. EncodePower(t, p) = p /\ \A v : DecodePower(t, v) = v
    BY <1>2 DEF EncodePower, DecodePower, ECO_MODE, ECO_MODE_745, PEAK_SHAVING, NOT_SET
  <2>2. \A v \in Int : -100 <= v /\ v <= 100 => InRange(t, v)
    BY <1>2, Between DEF InRange, ECO_MODE
  <2> QED
    BY <1>1, <2>1, <2>2
<1>3. CASE t = ECO_MODE_745
  <2>1. EncodePower(t, p) = p * 10 /\ \A v : DecodePower(t, v) = Tenth(v)
    BY <1>3 DEF EncodePower, DecodePower, ECO_MODE, ECO_MODE_745, PEAK_SHAVING, NOT_SET
  <2> DEFINE bottom == -1000
             top == 1000
  <2>2. \A v : InRange(t, v) <=> v \in bottom..top
    BY <1>3 DEF InRange, ECO_MODE, ECO_MODE_745
  <2>3. bottom \in Int /\ top \in Int /\ bottom <= -p * 10 /\ p * 10 <= top
    BY <1>1
  <2> HIDE DEF bottom, top
  <2>4. InRange(t, p * 10) /\ InRange(t, -(p * 10))
    BY <1>1, <2>2, <2>3, Between
  <2>5. Tenth(p * 10) = p /\ Tenth(-(p * 10)) = -p
    BY <1>1 DEF Tenth
  <2> QED
    BY <1>1, <2>1, <2>4, <2>5
<1> QED
  BY <1>2, <1>3

\* A group that covers the day is readable if its power and state of charge are.
CoversDay(g) ==
    /\ <<g.start_h, g.start_m, g.end_h, g.end_m>> = <<0, 0, 23, 59>>
    /\ g.day_bits = 127 /\ g.month_bits \in {0, 4095}
LEMMA RecognisedAs ==
    ASSUME NEW g
    PROVE  /\ IsCharge(g) <=> CoversDay(g) /\ IsOn(g) /\ g.power < 0
           /\ IsDischarge(g) <=> CoversDay(g) /\ IsOn(g) /\ g.power > 0
  BY DEF IsCharge, IsDischarge, IsAllDay, CoversDay

LEMMA EcoGroupsReadable ==
    ASSUME NEW g, NEW t \in {ECO_MODE, ECO_MODE_745}, NEW power, NEW soc \in Percent,
           EcoGroup(g, Signed8(255 - t), power, soc, AllMonths(t)), InRange(t, power)
    PROVE  /\ EncodeGroup(g, 2) = Value(g) /\ DetectType(g.on_off) = t
           /\ IsOn(g) /\ CoversDay(g)
<1>1. /\ DetectType(g.on_off) = t /\ IsOn(g) /\ DetectType(g.on_off) \in ScheduleType
  BY DetectsEco DEF EcoGroup, IsOn, ECO_MODE, ECO_MODE_745
<1>2. HoursOk(g, {-1}) /\ MinutesOk(g, {-1})
  BY DEF HoursOk, MinutesOk, EcoGroup
<1>3. g.month_bits \in {0, 4095} /\ g.day_bits = 127
  BY DEF EcoGroup, AllMonths
<1>4. ~MonthsRaise(g.month_bits) /\ ~DaysRaise(g.day_bits)
  BY <1>3, MonthsAll
<1>5. ~(g.soc \notin 0..100) /\ InRange(DetectType(g.on_off), g.power)
  BY <1>1 DEF EcoGroup, Percent
<1>6. EncodeGroup(g, 2) = ReadSchedule(g)
  BY DEF EncodeGroup
<1>7. ReadSchedule(g) = Value(g)
  BY <1>1, <1>2, <1>4, <1>5, Zenon DEF ReadSchedule
<1>8. CoversDay(g)
  BY <1>3 DEF CoversDay, EcoGroup
<1> QED
  BY <1>1, <1>6, <1>7, <1>8

LEMMA EcoGroupsOfModel ==
    ASSUME NEW t, NEW p, NEW soc
    PROVE  /\ EcoGroup(Charge(t, p, soc), Signed8(255 - t), -Magnitude(EncodePower(t, p)), soc, AllMonths(t))
           /\ EcoGroup(Discharge(t, p), Signed8(255 - t), Magnitude(EncodePower(t, p)), 100, AllMonths(t))
           /\ EcoGroup(ChargeV1(p), -1, -Magnitude(p), 100, 0)
           /\ EcoGroup(DischargeV1(p), -1, Magnitude(p), 100, 0)
  BY DEF EcoGroup, Charge, Discharge, ChargeV1, DischargeV1, AllDay, Group

\* One with the switch off, and one of the older kind.
LEMMA OffGroups ==
    ASSUME NEW t \in {ECO_MODE, ECO_MODE_745}
    PROVE  /\ EncodeGroup(Off(t), 2) = Value(Off(t)) /\ ~IsOn(Off(t)) /\ DetectType(Off(t).on_off) = t
           /\ EncodeGroup(OffV1, 1) = Value(OffV1) /\ ~IsChargeV1(OffV1) /\ ~IsDischargeV1(OffV1)
<1> DEFINE g == Off(t)
<1>1. /\ g.start_h = 48 /\ g.start_m = 0 /\ g.end_h = 48 /\ g.end_m = 0
      /\ g.on_off = t /\ g.day_bits = 0 /\ g.power = EncodePower(t, 100) /\ g.soc = 100 /\ g.month_bits = 0
  BY DEF Off, Group
<1>2. DetectType(g.on_off) = t /\ DetectType(g.on_off) \in ScheduleType /\ ~IsOn(g)
  BY <1>1, DetectsEco DEF IsOn, ECO_MODE, ECO_MODE_745
<1> HIDE DEF g
<1>3. HoursOk(g, {-1}) /\ MinutesOk(g, {-1})
  BY <1>1 DEF HoursOk, MinutesOk
<1>4. InRange(t, g.power) /\ g.soc \in 0..100
  <2>1. 100 \in Percent
    BY PercentIs
  <2> QED
    BY <1>1, <2>1, PowersShow
<1>5. EncodeGroup(g, 2) = Value(g)
  <2>1. ~MonthsRaise(g.month_bits) /\ ~DaysRaise(g.day_bits)
    BY <1>1, MonthsAll
  <2>2. InRange(DetectType(g.on_off), g.power)
    BY <1>2, <1>4
  <2>3. EncodeGroup(g, 2) = ReadSchedule(g)
    BY DEF EncodeGroup
  <2>4. ~(g.soc \notin 0..100)
    BY <1>4
  <2>5. ReadSchedule(g) = Value(g)
    BY <1>2, <1>3, <2>1, <2>2, <2>4, Zenon DEF ReadSchedule
  <2> QED
    BY <2>3, <2>5
<1> DEFINE old == OffV1
<1>6. /\ old.start_h = 48 /\ old.start_m = 0 /\ old.end_h = 48 /\ old.end_m = 0
      /\ old.on_off = 0 /\ old.day_bits = 0 /\ old.power = 100
  BY DEF OffV1, Group
<1> HIDE DEF old
<1>7. EncodeGroup(old, 1) = Value(old)
  <2>1. EncodeGroup(old, 1) = ReadV1(old)
    BY DEF EncodeGroup
  <2>2. HoursOk(old, {}) /\ MinutesOk(old, {}) /\ old.power \in -100..100 /\ old.on_off \in {0, -1}
    BY <1>6 DEF HoursOk, MinutesOk
  <2>3. ~DaysRaise(old.day_bits)
    BY <1>6, MonthsAll
  <2>4. ReadV1(old) = Value(old)
    BY <2>2, <2>3, Zenon DEF ReadV1
  <2> QED
    BY <2>1, <2>4
<1>8. ~IsChargeV1(old) /\ ~IsDischargeV1(old)
  BY <1>6 DEF IsChargeV1, IsDischargeV1, IsAllDay
<1> QED
  BY <1>2, <1>5, <1>7, <1>8 DEF g, old

LEMMA OlderGroups ==
    ASSUME NEW g, NEW power \in Int, -100 <= power, power <= 100, EcoGroup(g, -1, power, 100, 0)
    PROVE  /\ EncodeGroup(g, 1) = Value(g)
           /\ IsChargeV1(g) <=> power < 0
           /\ IsDischargeV1(g) <=> power > 0
<1>1. EncodeGroup(g, 1) = ReadV1(g)
  BY DEF EncodeGroup
<1>2. g.power \in -100..100 /\ g.on_off \in {0, -1}
  BY DEF EcoGroup
<1>3. HoursOk(g, {}) /\ MinutesOk(g, {})
  BY DEF HoursOk, MinutesOk, EcoGroup
<1>4. ~DaysRaise(g.day_bits)
  BY MonthsAll DEF EcoGroup
<1>5. ReadV1(g) = Value(g)
  BY <1>2, <1>3, <1>4, Zenon DEF ReadV1
<1>6. (IsChargeV1(g) <=> power < 0) /\ (IsDischargeV1(g) <=> power > 0)
  BY DEF IsChargeV1, IsDischargeV1, IsAllDay, EcoGroup
<1> QED
  BY <1>1, <1>5, <1>6

LEMMA GroupsOfInput == InputInv => GroupsReadBack
<1> SUFFICES ASSUME InputInv, input.of = "eco" PROVE GroupsReadBack
  BY DEF GroupsReadBack
<1>1. PICK current \in ScheduleType, is745 \in BOOLEAN, p \in Powers, soc \in Socs :
        input = [of |-> "eco", current |-> current, is745 |-> is745, power |-> p, soc |-> soc]
  BY MadeBy DEF EcoInput
<1>2. p \in Percent /\ soc \in Percent /\ 100 \in Percent
  <2>1. Powers \subseteq 0..100 /\ Socs \subseteq 0..100
    BY ValuesAssumption
  <2>2. p \in Percent /\ soc \in Percent
    BY <2>1 DEF Percent
  <2> QED
    BY <2>2, PercentIs
<1> DEFINE t == SetType(current, ECO_MODE, is745)
           w == EncodePower(t, p)
           charge == Charge(t, p, soc)
           discharge == Discharge(t, p)
<1>3. input.power = p /\ input.soc = soc /\ SetType(input.current, ECO_MODE, input.is745) = t
  BY <1>1
<1>4. t \in {ECO_MODE, ECO_MODE_745}
  BY TypesOfEco
<1> HIDE DEF t
<1>5. p \in Int /\ 0 <= p /\ p <= 100
  BY <1>2, PercentIs
<1>6. /\ w \in Int /\ 0 <= w /\ (w = 0 <=> p = 0) /\ InRange(t, w) /\ InRange(t, -w)
      /\ DecodePower(t, w) = p /\ DecodePower(t, -w) = -p
  BY <1>2, <1>4, PowersShow
<1> HIDE DEF w
<1>7. Magnitude(w) = w /\ Magnitude(p) = p
  BY <1>5, <1>6 DEF Magnitude
<1>8. /\ EcoGroup(charge, Signed8(255 - t), -w, soc, AllMonths(t))
      /\ EcoGroup(discharge, Signed8(255 - t), w, 100, AllMonths(t))
  BY <1>7, EcoGroupsOfModel DEF w
<1>9. EcoGroup(ChargeV1(p), -1, -p, 100, 0) /\ EcoGroup(DischargeV1(p), -1, p, 100, 0)
  BY <1>7, EcoGroupsOfModel
<1> HIDE DEF charge, discharge
<1>10. /\ EncodeGroup(charge, 2) = Value(charge) /\ DetectType(charge.on_off) = t
       /\ IsOn(charge) /\ CoversDay(charge)
  BY <1>2, <1>4, <1>6, <1>8, EcoGroupsReadable
<1>11. /\ EncodeGroup(discharge, 2) = Value(discharge) /\ DetectType(discharge.on_off) = t
       /\ IsOn(discharge) /\ CoversDay(discharge)
  BY <1>2, <1>4, <1>6, <1>8, EcoGroupsReadable
<1>12. charge.power = -w /\ discharge.power = w
  BY <1>8 DEF EcoGroup
<1>13. /\ IsCharge(charge) <=> p # 0
       /\ IsDischarge(discharge) <=> p # 0
       /\ ~IsDischarge(charge) /\ ~IsCharge(discharge)
  <2>1. /\ IsCharge(charge) <=> charge.power < 0
        /\ IsDischarge(charge) <=> charge.power > 0
    BY <1>10, RecognisedAs
  <2>2. /\ IsCharge(discharge) <=> discharge.power < 0
        /\ IsDischarge(discharge) <=> discharge.power > 0
    BY <1>11, RecognisedAs
  <2> QED
    BY <1>5, <1>6, <1>12, <2>1, <2>2
<1>14. /\ EncodeGroup(ChargeV1(p), 1) = Value(ChargeV1(p)) /\ (IsChargeV1(ChargeV1(p)) <=> -p < 0)
       /\ EncodeGroup(DischargeV1(p), 1) = Value(DischargeV1(p)) /\ (IsDischargeV1(DischargeV1(p)) <=> p > 0)
  BY <1>5, <1>9, OlderGroups
<1>15. (-p < 0 <=> p # 0) /\ (p > 0 <=> p # 0)
  BY <1>5
<1>16. DecodePower(t, charge.power) = -p /\ DecodePower(t, discharge.power) = p
  BY <1>6, <1>12
<1> DEFINE Shows(g, power) ==
             EncodeGroup(g, 2) = Value(g) /\ DetectType(g.on_off) = t /\ DecodePower(t, g.power) = power
<1>17. GroupsReadBack <=>
         /\ t \in {ECO_MODE, ECO_MODE_745}
         /\ Shows(charge, -p) /\ Shows(discharge, p)
         /\ IsCharge(charge) <=> p # 0
         /\ IsDischarge(discharge) <=> p # 0
         /\ ~IsDischarge(charge) /\ ~IsCharge(discharge)
         /\ EncodeGroup(Off(t), 2) = Value(Off(t)) /\ ~IsOn(Off(t)) /\ DetectType(Off(t).on_off) = t
         /\ EncodeGroup(ChargeV1(p), 1) = Value(ChargeV1(p)) /\ (IsChargeV1(ChargeV1(p)) <=> p # 0)
         /\ EncodeGroup(DischargeV1(p), 1) = Value(DischargeV1(p)) /\ (IsDischargeV1(DischargeV1(p)) <=> p # 0)
         /\ EncodeGroup(OffV1, 1) = Value(OffV1) /\ ~IsChargeV1(OffV1) /\ ~IsDischargeV1(OffV1)
  BY <1>3 DEF GroupsReadBack, charge, discharge
<1> QED
  BY <1>4, <1>10, <1>11, <1>13, <1>14, <1>15, <1>16, <1>17, OffGroups

\* The group an eco mode writes can be read, is recognised, shows the power asked for
\* and is of a flavour of eco mode, for any powers and states of charge that
\* are percentages and whatever kind of group was there before.
THEOREM GroupsAreReadBack == Spec => []GroupsReadBack
  BY InputsAreTheActions, GroupsOfInput, PTL

-----------------------------------------------------------------------------
(* Numbers and settings *)

LEMMA KindsAre ==
    ASSUME NEW kind \in DOMAIN Kinds
    PROVE  /\ Kinds[kind].words \in {1, 2, 4} /\ Kinds[kind].signed \in BOOLEAN
           /\ Kinds[kind].scale \in {1, 10, 100}
           /\ kind \in Writable => Kinds[kind].words = 1
<1> DEFINE Sized(k) == k.words \in {1, 2, 4} /\ k.signed \in BOOLEAN /\ k.scale \in {1, 10, 100}
<1>1. /\ \A allOnes, scale \in {1, 10, 100} : /\ Sized(Kind(1, FALSE, allOnes, scale))
                                             /\ Sized(Kind(1, TRUE, allOnes, scale))
      /\ \A allOnes : Sized(Unsigned(1, allOnes)) /\ Sized(Unsigned(2, allOnes)) /\ Sized(Unsigned(4, allOnes))
      /\ Sized(Signed(1)) /\ Sized(Signed(2))
  BY DEF Kind, Unsigned, Signed
<1>2. /\ Sized(Kind(1, FALSE, "zero", 10)) /\ Sized(Kind(1, TRUE, "minus one", 10))
      /\ Sized(Kind(1, TRUE, "minus one", 100))
      /\ Kind(1, FALSE, "zero", 10).words = 1 /\ Kind(1, TRUE, "minus one", 10).words = 1
      /\ Kind(1, TRUE, "minus one", 100).words = 1 /\ Signed(1).words = 1 /\ Unsigned(1, "zero").words = 1
  BY DEF Kind, Unsigned, Signed
<1> HIDE DEF Sized
<1>3. /\ Sized(Kinds["Voltage"]) /\ Sized(Kinds["Current"]) /\ Sized(Kinds["CurrentS"])
      /\ Sized(Kinds["Frequency"]) /\ Sized(Kinds["Power"]) /\ Sized(Kinds["PowerS"])
      /\ Sized(Kinds["Energy"]) /\ Sized(Kinds["Apparent"]) /\ Sized(Kinds["Reactive"])
      /\ Sized(Kinds["CellVoltage"]) /\ Sized(Kinds["Integer"]) /\ Sized(Kinds["IntegerS"])
  BY <1>1, <1>2 DEF Kinds
<1>4. /\ Sized(Kinds["Decimal10"]) /\ Sized(Kinds["Decimal100"])
      /\ Sized(Kinds["Power4"]) /\ Sized(Kinds["Power4S"])
      /\ Sized(Kinds["Energy4"]) /\ Sized(Kinds["Energy4W"]) /\ Sized(Kinds["Energy8"])
      /\ Sized(Kinds["Apparent4"]) /\ Sized(Kinds["Reactive4"])
      /\ Sized(Kinds["Long"]) /\ Sized(Kinds["LongS"])
  BY <1>1, <1>2 DEF Kinds
<1>5. DOMAIN Kinds =
        {"Voltage", "Current", "CurrentS", "Frequency", "Power", "PowerS", "Energy", "Apparent", "Reactive",
         "CellVoltage", "Integer", "IntegerS", "Decimal10", "Decimal100", "Power4", "Power4S", "Energy4",
         "Energy4W", "Energy8", "Apparent4", "Reactive4", "Long", "LongS"}
  BY DEF Kinds
<1>6. Sized(Kinds[kind])
  BY <1>3, <1>4, <1>5
<1>7. kind \in Writable => Kinds[kind].words = 1
  <2>1. /\ Kinds["Voltage"].words = 1 /\ Kinds["Current"].words = 1 /\ Kinds["CurrentS"].words = 1
        /\ Kinds["Integer"].words = 1 /\ Kinds["IntegerS"].words = 1
        /\ Kinds["Decimal10"].words = 1 /\ Kinds["Decimal100"].words = 1
    BY <1>2 DEF Kinds
  <2> QED
    BY <2>1 DEF Writable
<1> QED
  BY <1>6, <1>7 DEF Sized

\* The first word of a signed value, as to_bytes and from_bytes see it.
LEMMA SignedWords ==
    ASSUME NEW v \in Int, -32768 <= v, v <= 32767
    PROVE  v % 65536 \in Word /\ Signed16(v % 65536) = v
  BY WordIs DEF Signed16

\* What fits in the first word.
LEMMA SignedRange ==
    ASSUME NEW v
    PROVE  v \in SignedWord <=> v \in Int /\ -32768 <= v /\ v <= 32767
<1> DEFINE bottom == -32768
           top == 32767
<1>1. bottom \in Int /\ top \in Int
  OBVIOUS
<1>2. SignedWord = bottom..top
  BY DEF SignedWord
<1>3. bottom = -32768 /\ top = 32767
  OBVIOUS
<1> HIDE DEF bottom, top
<1>4. v \in bottom..top <=> v \in Int /\ bottom <= v /\ v <= top
  BY <1>1, Between
<1>5. v \in Int /\ bottom <= v /\ v <= top <=> v \in Int /\ -32768 <= v /\ v <= 32767
  BY <1>3
<1> QED
  BY <1>2, <1>4, <1>5

LEMMA FirstOfSigned ==
    ASSUME NEW k, k.signed, NEW v PROVE v \in FirstWord(k) <=> v \in SignedWord
  BY DEF FirstWord
LEMMA FirstOfUnsigned ==
    ASSUME NEW k, ~k.signed, NEW v PROVE v \in FirstWord(k) <=> v \in Word
  BY DEF FirstWord
LEMMA FirstFits ==
    ASSUME NEW k, NEW value, Fits(k, value)
    PROVE  value[1] \in FirstWord(k)
  BY DEF Fits

LEMMA FirstReplaced ==
    ASSUME NEW n \in Nat, NEW f, DOMAIN f = 1..n, f = [i \in 1..n |-> f[i]], NEW x
    PROVE  /\ [f EXCEPT ![1] = x] = [i \in 1..n |-> IF i = 1 THEN x ELSE f[i]]
  OBVIOUS

\* What to_bytes makes of a value is what is read.
LEMMA BytesReadBack ==
    ASSUME NEW k, k.words \in {1, 2, 4}, k.signed \in BOOLEAN, NEW value \in [1..k.words -> Int], Fits(k, value)
    PROVE  k.signed \/ ToBytes(k, value)[2] # AllOnes(k) => Read(k, ToBytes(k, value)[2]) = value
<1> DEFINE words == [value EXCEPT ![1] = value[1] % 65536]
<1>1. 1 \in 1..k.words /\ DOMAIN value = 1..k.words
  OBVIOUS
<1>2. ToBytes(k, value)[2] = words
  BY DEF ToBytes, Value
<1>3. CASE k.signed
  <2>1. Signed16(value[1] % 65536) = value[1]
    <3>1. value[1] \in Int /\ -32768 <= value[1] /\ value[1] <= 32767
      <4>1. value[1] \in SignedWord
        BY <1>3, FirstFits, FirstOfSigned
      <4> QED
        BY <4>1, SignedRange
    <3> QED
      BY <3>1, SignedWords
  <2>2. words[1] = value[1] % 65536
    BY <1>1
  <2>3. Read(k, words) = [words EXCEPT ![1] = Signed16(words[1])]
    BY <1>3 DEF Read
  <2>4. Signed16(words[1]) = value[1]
    BY <2>1, <2>2
  <2>5. [words EXCEPT ![1] = value[1]] = value
    <3> DEFINE back == [words EXCEPT ![1] = value[1]]
    <3>1. back = [i \in 1..k.words |-> IF i = 1 THEN value[1] ELSE value[i]]
      <4>1. words = [i \in 1..k.words |-> IF i = 1 THEN value[1] % 65536 ELSE value[i]]
        <5> DEFINE n == k.words
                   x == value[1] % 65536
        <5>1. n \in Nat /\ DOMAIN value = 1..n /\ value = [i \in 1..n |-> value[i]]
          OBVIOUS
        <5> HIDE DEF n, x
        <5>2. [value EXCEPT ![1] = x] = [i \in 1..n |-> IF i = 1 THEN x ELSE value[i]]
          BY <5>1, FirstReplaced
        <5> QED
          BY <5>2 DEF n, x
      <4> HIDE DEF words
      <4>2. DOMAIN words = 1..k.words /\ \A i \in 1..k.words : i # 1 => words[i] = value[i]
        BY <4>1
      <4>3. back = [i \in 1..k.words |-> IF i = 1 THEN value[1] ELSE words[i]]
        BY <4>2
      <4> QED
        BY <4>2, <4>3
    <3>2. value = [i \in 1..k.words |-> value[i]]
      BY <1>1
    <3> HIDE DEF words
    <3> QED
      BY <3>1, <3>2
  <2> HIDE DEF words
  <2> QED
    BY <1>2, <2>3, <2>4, <2>5
<1>4. CASE ~k.signed
  <2>1. value[1] \in Word
    BY <1>4, FirstFits, FirstOfUnsigned
  <2>2. value[1] % 65536 = value[1]
    BY <2>1, WordIs
  <2>3. words = value
    BY <1>1, <2>2
  <2>4. words # AllOnes(k) => Read(k, words) = words
    BY <1>4 DEF Read
  <2> HIDE DEF words
  <2> QED
    BY <1>2, <1>4, <2>3, <2>4
<1> QED
  BY <1>3, <1>4

\* int(float(value) * scale) is the value or the one before it, and no tenth is lost:
\* half a unit in the last place outweighs what a division by ten can leave.
LEMMA ScalingLoses ==
    ASSUME NEW n \in Int, NEW scale \in {1, 10, 100}
    PROVE  /\ Truncated(n, scale) \in {n, TowardsZero(n)}
           /\ scale # 100 => Truncated(n, scale) = n
<1> DEFINE m == Magnitude(n)
<1>1. m \in Int
  BY DEF Magnitude
<1> HIDE DEF m
<1>2. ASSUME scale # 100, FallsShort(m, scale) PROVE FALSE
  <2>1. PICK k \in 0..16, h \in 0..7 :
          /\ 2^k <= m /\ m < 2 * 2^k
          /\ scale * 2^k <= m * 2^h
          /\ 2 * Left(m, 52 - k + h, scale) < scale
          /\ 2 * Left(m, 52 - k + h, scale) > 2^h
    BY <1>2 DEF FallsShort
  <2> DEFINE left == Left(m, 52 - k + h, scale)
             below == 2^k
  <2>2. below \in Int /\ 2^h \in Int
    OBVIOUS
  <2>3. left \in Int
    <3> DEFINE p == 52 - k + h
               factor == ((2^(p \div 2) % scale) * (2^(p - p \div 2) % scale)) % scale
    <3>1. p \in Int /\ scale \in Int /\ scale > 0
      OBVIOUS
    <3>2. factor \in Int
      <4> DEFINE a == 2^(p \div 2)
                 b == 2^(p - p \div 2)
      <4>1. a \in Int /\ b \in Int
        <5>1. p \div 2 \in Int /\ p - p \div 2 \in Int /\ p \div 2 >= 0 /\ p - p \div 2 >= 0
          OBVIOUS
        <5> QED
          BY <5>1
      <4> HIDE DEF a, b
      <4>2. (a % scale) \in Int /\ (b % scale) \in Int
        BY <3>1, <4>1
      <4> QED
        BY <3>1, <4>2 DEF a, b
    <3> HIDE DEF p, factor
    <3>3. ((m % scale) * factor) % scale \in Int
      BY <1>1, <3>1, <3>2
    <3> QED
      BY <3>3 DEF Left, factor, p
  <2>4. below <= m /\ m < 2 * below /\ scale * below <= m * 2^h
    BY <2>1
  <2>5. 2 * left < scale /\ 2 * left > 2^h
    BY <2>1
  <2> HIDE DEF left, below
  <2>6. 2^h \in {1, 2, 4} \/ 2^h \in {8, 16, 32, 64, 128}
    <3>1. 2^0 = 1 /\ 2^1 = 2 /\ 2^2 = 4 /\ 2^3 = 8 /\ 2^4 = 16 /\ 2^5 = 32 /\ 2^6 = 64 /\ 2^7 = 128
      OBVIOUS
    <3>2. (h = 0 \/ h = 1 \/ h = 2) \/ (h = 3 \/ h = 4 \/ h = 5 \/ h = 6 \/ h = 7)
      OBVIOUS
    <3>3. ASSUME h = 0 \/ h = 1 \/ h = 2 PROVE 2^h = 1 \/ 2^h = 2 \/ 2^h = 4
      BY <3>1, <3>3, Zenon
    <3>4. ASSUME h = 3 \/ h = 4 \/ h = 5 \/ h = 6 \/ h = 7
          PROVE  2^h = 8 \/ 2^h = 16 \/ 2^h = 32 \/ 2^h = 64 \/ 2^h = 128
      BY <3>1, <3>4, Zenon
    <3>5. (2^h = 1 \/ 2^h = 2 \/ 2^h = 4)
          \/ (2^h = 8 \/ 2^h = 16 \/ 2^h = 32 \/ 2^h = 64 \/ 2^h = 128)
      BY <3>2, <3>3, <3>4, Zenon
    <3> QED
      BY <3>5
  <2>7. scale = 1 \/ scale = 10
    BY <1>2
  <2> DEFINE power == 2^h
  <2>8. /\ power \in {1, 2, 4} \/ power \in {8, 16, 32, 64, 128}
        /\ scale * below <= m * power /\ 2 * left > power
    BY <2>4, <2>5, <2>6
  <2> HIDE DEF power
  <2>9. CASE scale = 1
    BY <2>3, <2>5, <2>8, <2>9
  <2>10. CASE scale = 10 /\ power \in {1, 2, 4}
    <3>1. 10 * below <= m * 1 \/ 10 * below <= m * 2 \/ 10 * below <= m * 4
      BY <2>8, <2>10
    <3> QED
      BY <1>1, <2>2, <2>4, <3>1
  <2>11. CASE scale = 10 /\ power \in {8, 16, 32, 64, 128}
    BY <2>3, <2>5, <2>8, <2>11
  <2> QED
    BY <2>7, <2>8, <2>9, <2>10, <2>11
<1> QED
  BY <1>2 DEF Truncated, m

LEMMA ValuesReadBack ==
    ASSUME NEW k, k.words \in {1, 2, 4}, k.signed \in BOOLEAN, k.scale \in {1, 10, 100},
           NEW value \in [1..k.words -> Int]
    PROVE  KeptByWriting(k, value)
<1> DEFINE w == Truncated(value[1], k.scale)
           written == [value EXCEPT ![1] = w]
           held == Encode(k, value)
<1>1. value[1] \in Int /\ 1 \in 1..k.words
  OBVIOUS
<1>2. /\ w \in {value[1], TowardsZero(value[1])} /\ w \in Int
      /\ k.scale # 100 => w = value[1]
  BY <1>1, ScalingLoses DEF TowardsZero
<1>3. held = ToBytes(k, written)
  BY DEF Encode
<1> HIDE DEF w
<1>4. written \in [1..k.words -> Int] /\ written[1] = w
  BY <1>1, <1>2
<1>5. written \in ReadAs(k, value) /\ (k.scale # 100 => written = value)
  <2>1. w = value[1] => written = value
    OBVIOUS
  <2> QED
    BY <1>2, <2>1 DEF ReadAs
<1> HIDE DEF written, held
<1>6. ASSUME Fits(k, written)
      PROVE  held # OverflowError /\ (k.signed \/ held[2] # AllOnes(k) => Read(k, held[2]) \in ReadAs(k, value))
  <2>1. k.signed \/ held[2] # AllOnes(k) => Read(k, held[2]) = written
    BY <1>3, <1>4, <1>6, BytesReadBack
  <2>2. held # OverflowError
    BY <1>3, <1>6 DEF ToBytes, Value, OverflowError
  <2> QED
    BY <1>5, <2>1, <2>2
<1>7. ~Fits(k, written) => held = OverflowError
  BY <1>3 DEF ToBytes
<1>8. Fits(k, value) => Fits(k, written)
  <2> SUFFICES ASSUME Fits(k, value) PROVE Fits(k, written)
    OBVIOUS
  <2>1. CASE written = value
    BY <2>1
  <2>2. CASE written # value
    <3>1. w = TowardsZero(value[1]) /\ k.scale = 100
      BY <1>2, <1>5, <2>2 DEF written
    <3>2. Len(written) = k.words /\ \A i \in 2..k.words : written[i] = value[i]
      <4>1. Len(written) = k.words
        BY <1>4
      <4> QED
        BY <4>1 DEF written
    <3>3. w \in FirstWord(k)
      <4> DEFINE v == value[1]
      <4>1. v \in FirstWord(k)
        BY FirstFits
      <4> HIDE DEF v
      <4>2. w = TowardsZero(v)
        BY <3>1 DEF v
      <4>3. v \in Int /\ -32768 <= v /\ v <= 32767 => w \in Int /\ -32768 <= w /\ w <= 32767
        BY <4>2 DEF TowardsZero
      <4>4. v \in Word => w \in Word
        <5>1. v \in Word => v \in Int /\ 0 <= v /\ v <= 65535
          BY WordIs
        <5>2. v \in Int /\ 0 <= v /\ v <= 65535 => w \in Int /\ 0 <= w /\ w <= 65535
          BY <4>2 DEF TowardsZero
        <5>3. w \in Int /\ 0 <= w /\ w <= 65535 => w \in Word
          BY WordIs
        <5> QED
          BY <5>1, <5>2, <5>3
      <4>5. v \in SignedWord => w \in SignedWord
        BY <4>3, SignedRange
      <4>6. CASE k.signed
        BY <4>1, <4>5, <4>6, FirstOfSigned
      <4>7. CASE ~k.signed
        BY <4>1, <4>4, <4>7, FirstOfUnsigned
      <4> QED
        BY <4>6, <4>7
    <3>4. \A i \in 2..k.words : value[i] \in Word
      BY DEF Fits
    <3> QED
      BY <1>4, <3>2, <3>3, <3>4 DEF Fits
  <2> QED
    BY <2>1, <2>2
<1> QED
  BY <1>5, <1>6, <1>7, <1>8 DEF KeptByWriting, held

\* What a register of a setting is read as can be written again.
LEMMA RegistersKept ==
    ASSUME NEW kind \in Writable, NEW r \in Word
    PROVE  KeptByWriting(Kinds[kind], Read(Kinds[kind], <<r>>))
<1> DEFINE k == Kinds[kind]
<1>1. /\ k.words = 1 /\ k.signed \in BOOLEAN /\ k.scale \in {1, 10, 100}
      /\ k.allOnes # "none"
  <2>1. kind \in DOMAIN Kinds
    BY DEF Kinds, Writable
  <2>2. /\ \A scale : Kind(1, FALSE, "zero", scale).allOnes # "none"
        /\ \A scale : Kind(1, TRUE, "minus one", scale).allOnes # "none"
    BY DEF Kind
  <2>3. /\ Kinds["Voltage"].allOnes # "none" /\ Kinds["Current"].allOnes # "none"
        /\ Kinds["CurrentS"].allOnes # "none" /\ Kinds["Integer"].allOnes # "none"
        /\ Kinds["IntegerS"].allOnes # "none" /\ Kinds["Decimal10"].allOnes # "none"
        /\ Kinds["Decimal100"].allOnes # "none"
    BY <2>2 DEF Kinds, Unsigned, Signed
  <2>4. k.allOnes # "none"
    BY <2>3 DEF Writable
  <2> QED
    BY <2>1, <2>4, KindsAre
<1> HIDE DEF k
<1>2. Read(k, <<r>>) \in [1..k.words -> Int]
  <2>1. r \in Int /\ Signed16(r) \in Int
    BY DEF Word, Signed16
  <2>2. <<r>> \in [1..1 -> Int] /\ [<<r>> EXCEPT ![1] = Signed16(r)] \in [1..1 -> Int]
    BY <2>1
  <2>3. [i \in 1..1 |-> 0] \in [1..1 -> Int]
    OBVIOUS
  <2>4. Read(k, <<r>>) \in {<<r>>, [<<r>> EXCEPT ![1] = Signed16(r)], [i \in 1..k.words |-> 0]}
    BY <1>1 DEF Read
  <2> QED
    BY <1>1, <2>2, <2>3, <2>4
<1> DEFINE v == Read(k, <<r>>)
<1>3. v \in [1..k.words -> Int]
  BY <1>2
<1>4. k.words \in {1, 2, 4} /\ k.signed \in BOOLEAN /\ k.scale \in {1, 10, 100}
  BY <1>1
<1> HIDE DEF v
<1>5. KeptByWriting(k, v)
  BY <1>3, <1>4, ValuesReadBack
<1> QED
  BY <1>5 DEF v, k

LEMMA TemperaturesRead ==
    ASSUME NEW r \in Word
    PROVE  ReadTemp(r) \in {None, Read(Kinds.IntegerS, <<r>>)}
<1>1. Kinds.IntegerS.signed
  BY DEF Kinds, Kind, Signed
<1>2. Read(Kinds.IntegerS, <<r>>) = [<<r>> EXCEPT ![1] = Signed16(r)]
  <2> DEFINE k == Kinds.IntegerS
  <2>1. k.signed
    BY <1>1
  <2> HIDE DEF k
  <2>2. Read(k, <<r>>) = [<<r>> EXCEPT ![1] = Signed16(r)]
    BY <2>1 DEF Read
  <2> QED
    BY <2>2 DEF k
<1>3. [<<r>> EXCEPT ![1] = Signed16(r)] = <<Signed16(r)>>
  OBVIOUS
<1>4. ReadTemp(r) \in {None, <<Signed16(r)>>}
  BY DEF ReadTemp
<1> QED
  BY <1>2, <1>3, <1>4

\* A setting of one byte is read back, and leaves the other half as it was.
LEMMA HalvesReadBack ==
    ASSUME NEW half \in {"H", "L"}, NEW value \in Int, -128 <= value, value <= 127, NEW register \in Word
    PROVE  LET written == EncodeHalf(half, value, register)
               other == IF half = "H" THEN "L" ELSE "H"
           IN  /\ ReadHalf(half, written[2]) = value
               /\ ReadHalf(other, written[2]) = ReadHalf(other, register)
<1> DEFINE byte == value % 256
           bottom == -128
           top == 127
<1>1. value \in bottom..top /\ byte \in Int /\ 0 <= byte /\ byte <= 255 /\ Signed8(byte) = value
  BY DEF Signed8
<1>2. EncodeHalf(half, value, register)[2] =
        IF half = "H" THEN U16(byte, Lo(register)) ELSE U16(Hi(register), byte)
  BY <1>1 DEF EncodeHalf, Value
<1> HIDE DEF byte
<1>3. byte \in Byte
  BY <1>1, ByteIs
<1>4. Hi(register) \in Byte /\ Lo(register) \in Byte
  BY HalvesOfWord
<1>5. /\ Hi(U16(byte, Lo(register))) = byte /\ Lo(U16(byte, Lo(register))) = Lo(register)
      /\ Hi(U16(Hi(register), byte)) = Hi(register) /\ Lo(U16(Hi(register), byte)) = byte
  BY <1>3, <1>4, WordOfHalves
<1> QED
  BY <1>1, <1>2, <1>5 DEF ReadHalf

LEMMA NumbersOfInput == InputInv => NumbersReadBack
<1> SUFFICES ASSUME InputInv PROVE NumbersReadBack
  OBVIOUS
<1>1. CASE input.of = "number"
  <2>0. PICK kind \in DOMAIN Kinds :
          \E value \in [1..Kinds[kind].words -> Parts] : input = [of |-> "number", kind |-> kind, value |-> value]
    BY <1>1, MadeBy DEF NumberInput
  <2>1. PICK value \in [1..Kinds[kind].words -> Parts] :
          input = [of |-> "number", kind |-> kind, value |-> value]
    BY <2>0
  <2>2. input.kind = kind /\ input.value = value
    BY <2>1
  <2>3. value \in [1..Kinds[kind].words -> Int]
    BY ValuesAssumption
  <2>4. KeptByWriting(Kinds[kind], value)
    BY <2>3, KindsAre, ValuesReadBack
  <2> QED
    BY <1>1, <2>2, <2>4 DEF NumbersReadBack
<1>2. CASE input.of = "register"
  <2>1. PICK r \in Word : input = [of |-> "register", register |-> r]
    BY <1>2, MadeBy DEF RegisterInput
  <2>2. input.register = r
    BY <2>1
  <2> QED
    BY <1>2, <2>2, TemperaturesRead, RegistersKept DEF NumbersReadBack
<1>3. CASE input.of = "half"
  <2> DEFINE lowest == -129
             highest == 128
  <2>1. PICK half \in {"H", "L"}, value \in lowest..highest, register \in Registers :
          input = [of |-> "half", half |-> half, value |-> value, register |-> register]
    BY <1>3, MadeBy DEF HalfInput
  <2>2. input.half = half /\ input.value = value /\ input.register = register
    BY <2>1
  <2>3. register \in Word
    BY ValuesAssumption
  <2> DEFINE bottom == -128
             top == 127
  <2>4. value \in Int
    OBVIOUS
  <2>5. bottom \in Int /\ top \in Int /\ bottom = -128 /\ top = 127
    OBVIOUS
  <2>6. NumbersReadBack <=>
          LET written == EncodeHalf(half, value, register)
              other == IF half = "H" THEN "L" ELSE "H"
          IN  IF value \in bottom..top
              THEN ReadHalf(half, written[2]) = value /\ ReadHalf(other, written[2]) = ReadHalf(other, register)
              ELSE written = OverflowError
    BY <1>3, <2>2 DEF NumbersReadBack
  <2>7. value \notin bottom..top => EncodeHalf(half, value, register) = OverflowError
    BY DEF EncodeHalf
  <2> HIDE DEF bottom, top
  <2>8. value \in bottom..top => -128 <= value /\ value <= 127
    BY <2>4, <2>5, Between
  <2>9. CASE value \in bottom..top
    BY <2>3, <2>4, <2>6, <2>8, <2>9, HalvesReadBack
  <2>10. CASE value \notin bottom..top
    BY <2>6, <2>7, <2>10
  <2> QED
    BY <2>9, <2>10
<1> QED
  BY <1>1, <1>2, <1>3 DEF NumbersReadBack

\* A number given to a setting is read back, but for one hundredth that the float product
\* may lose, what does not fit raises, and a setting of one byte leaves the other
\* half of its register alone: for any values.
THEOREM NumbersAreReadBack == Spec => []NumbersReadBack
  BY InputsAreTheActions, NumbersOfInput, PTL

-----------------------------------------------------------------------------
(* Modbus frames *)

\* Two sequences put together, and a piece of one.
Joined(s, t, c) ==
    /\ c \in Seq(Int) /\ Len(c) = Len(s) + Len(t)
    /\ \A i \in Nat : 0 < i /\ i <= Len(s) => c[i] = s[i]
    /\ \A i \in Nat : 0 < i /\ i <= Len(t) => c[Len(s) + i] = t[i]
LEMMA JoinedIs ==
    ASSUME NEW s \in Seq(Int), NEW t \in Seq(Int)
    PROVE  Joined(s, t, s \o t)
<1> DEFINE c == s \o t
<1>1. /\ c \in Seq(Int) /\ Len(c) = Len(s) + Len(t)
      /\ \A i \in 1..(Len(s) + Len(t)) : c[i] = IF i <= Len(s) THEN s[i] ELSE t[i - Len(s)]
  BY ConcatProperties
<1>2. Len(s) \in Nat /\ Len(t) \in Nat
  BY LenProperties
<1> HIDE DEF c
<1>3. ASSUME NEW i \in Nat, 0 < i, i <= Len(s) PROVE c[i] = s[i]
  BY <1>1, <1>2, <1>3
<1>4. ASSUME NEW i \in Nat, 0 < i, i <= Len(t) PROVE c[Len(s) + i] = t[i]
  <2>1. Len(s) + i \in 1..(Len(s) + Len(t)) /\ ~(Len(s) + i <= Len(s)) /\ (Len(s) + i) - Len(s) = i
    BY <1>2, <1>4
  <2> QED
    BY <1>1, <2>1
<1>5. Joined(s, t, c)
  BY <1>1, <1>3, <1>4 DEF Joined
<1> QED
  BY <1>5 DEF c

PieceOf(c, m, s) ==
    /\ s \in Seq(Int)
    /\ \A i \in Nat : 0 < i /\ i <= Len(s) => s[i] = c[m + i]
LEMMA PieceIs ==
    ASSUME NEW c \in Seq(Int), NEW m \in Nat, NEW n \in Nat, m <= n, n <= Len(c)
    PROVE  PieceOf(c, m, SubSeq(c, m + 1, n)) /\ Len(SubSeq(c, m + 1, n)) = n - m
<1> DEFINE s == SubSeq(c, m + 1, n)
<1>1. Len(c) \in Nat
  BY LenProperties
<1>2. \A i \in (m + 1)..n : c[i] \in Int
  <2> TAKE i \in (m + 1)..n
  <2>1. i \in 1..Len(c)
    BY <1>1
  <2> QED
    BY <2>1, ElementOfSeq
<1>3. m + 1 \in Int /\ n \in Int
  OBVIOUS
<1>4. /\ s \in Seq(Int) /\ Len(s) = IF m + 1 <= n THEN n - (m + 1) + 1 ELSE 0
      /\ \A i \in 1..(n - (m + 1) + 1) : s[i] = c[(m + 1) + i - 1]
  BY <1>2, <1>3, SubSeqProperties
<1> HIDE DEF s
<1>5. Len(s) = n - m
  BY <1>4
<1>6. ASSUME NEW i \in Nat, 0 < i, i <= Len(s) PROVE s[i] = c[m + i]
  <2>1. i \in 1..(n - (m + 1) + 1) /\ (m + 1) + i - 1 = m + i
    BY <1>5, <1>6
  <2> QED
    BY <1>4, <2>1
<1> QED
  BY <1>4, <1>5, <1>6 DEF PieceOf, s

LEMMA SameSeq ==
    ASSUME NEW s \in Seq(Int), NEW t \in Seq(Int), Len(s) = Len(t),
           \A i \in Nat : 0 < i /\ i <= Len(s) => s[i] = t[i]
    PROVE  s = t
<1>1. Len(s) \in Nat
  BY LenProperties
<1>2. \A i \in 1..Len(s) : s[i] = t[i]
  BY <1>1
<1> QED
  BY <1>2, SeqEqual

\* A single write may be of any number, the others count registers.
LEMMA CommandsAre ==
    ASSUME NEW k, Buildable(k)
    PROVE  /\ k.offset \in Word /\ k.value \in Int
           /\ k.cmd \in {READ, WRITE, WRITE_MULTI}
           /\ k.cmd # WRITE => 0 <= k.value /\ k.value <= 127
           /\ k.cmd = WRITE_MULTI => k.data \in Seq(Byte)
<1>1. CASE k.value \in 0..127 /\ k = ReadCommand(k.offset, k.value)
  <2>1. k.cmd = READ
    BY <1>1, SMT DEF ReadCommand
  <2>2. k.value \in Int /\ 0 <= k.value /\ k.value <= 127
    BY <1>1
  <2> QED
    BY <2>1, <2>2 DEF Buildable, READ, WRITE, WRITE_MULTI
<1>2. CASE k.value \in Int /\ k = WriteCommand(k.offset, k.value)
  <2>1. k.cmd = WRITE
    BY <1>2, SMT DEF WriteCommand
  <2> QED
    BY <1>2, <2>1 DEF Buildable, READ, WRITE, WRITE_MULTI
<1>3. CASE k.data \in Seq(Byte) /\ Len(k.data) <= 255 /\ k = WriteMultiCommand(k.offset, k.data)
  <2>1. k.cmd = WRITE_MULTI /\ k.value = Len(k.data) \div 2
    BY <1>3, SMT DEF WriteMultiCommand
  <2>2. Len(k.data) \in Nat
    BY <1>3, LenProperties
  <2>3. k.value \in Int /\ 0 <= k.value /\ k.value <= 127
    <3> DEFINE n == Len(k.data)
    <3>1. n \in Nat /\ n <= 255 /\ k.value = n \div 2
      BY <1>3, <2>1, <2>2
    <3> HIDE DEF n
    <3> QED
      BY <3>1
  <2> QED
    BY <1>3, <2>1, <2>3 DEF Buildable, READ, WRITE, WRITE_MULTI
<1> QED
  BY <1>1, <1>2, <1>3 DEF Buildable

\* The first five bytes of a request.
Heads(pdu, k) ==
    /\ pdu[1] = k.cmd /\ pdu[2] = Hi(k.offset) /\ pdu[3] = Lo(k.offset)
    /\ pdu[4] = Hi(k.value) /\ pdu[5] = Lo(k.value)

LEMMA PduParts ==
    ASSUME NEW k, Buildable(k)
    PROVE  Pdu(k) \in Seq(Int) /\ Len(Pdu(k)) >= 5 /\ Heads(Pdu(k), k)
<1> DEFINE five == <<k.cmd, Hi(k.offset), Lo(k.offset), Hi(k.value), Lo(k.value)>>
           rest == IF k.cmd = WRITE_MULTI THEN <<Len(k.data)>> \o k.data ELSE <<>>
<1>1. five \in Seq(Int) /\ Len(five) = 5 /\ Heads(five, k)
  <2>1. k.cmd \in Int /\ k.offset \in Int /\ k.value \in Int
    BY CommandsAre, WordIs DEF READ, WRITE, WRITE_MULTI
  <2>2. \A v \in Int : Hi(v) \in Int /\ Lo(v) \in Int
    BY DEF Hi, Lo
  <2> QED
    BY <2>1, <2>2 DEF Heads
<1>2. rest \in Seq(Int) /\ Len(rest) \in Nat
  <2>1. CASE k.cmd = WRITE_MULTI
    <3>1. k.data \in Seq(Int)
      <4>1. Byte \subseteq Int
        BY ByteIs
      <4> QED
        BY <2>1, <4>1, CommandsAre, SeqMonotonic
    <3>2. <<Len(k.data)>> \in Seq(Int)
      BY <3>1, LenProperties
    <3>3. <<Len(k.data)>> \o k.data \in Seq(Int)
      BY <3>1, <3>2, ConcatProperties
    <3> QED
      BY <2>1, <3>3, LenProperties
  <2>2. CASE k.cmd # WRITE_MULTI
    BY <2>2, EmptySeq
  <2> QED
    BY <2>1, <2>2
<1> HIDE DEF five, rest
<1>3. Pdu(k) = five \o rest
  BY DEF Pdu, five, rest
<1>4. Joined(five, rest, Pdu(k))
  BY <1>1, <1>2, <1>3, JoinedIs
<1>5. /\ Pdu(k)[1] = five[1] /\ Pdu(k)[2] = five[2] /\ Pdu(k)[3] = five[3]
      /\ Pdu(k)[4] = five[4] /\ Pdu(k)[5] = five[5]
  <2>1. \A i \in Nat : 0 < i /\ i <= 5 => Pdu(k)[i] = five[i]
    <3>1. Len(five) = 5
      BY <1>1
    <3> QED
      BY <1>4, <3>1 DEF Joined
  <2> QED
    BY <2>1
<1>6. Pdu(k) \in Seq(Int) /\ Len(Pdu(k)) >= 5
  BY <1>1, <1>2, <1>4 DEF Joined
<1> QED
  BY <1>1, <1>5, <1>6 DEF Heads

\* The inverter finds the request in what was sent.
LEMMA RequestsFound ==
    ASSUME NEW k, Buildable(k)
    PROVE  /\ RtuRequestPdu(RtuRequest(ADDRESS, k)) = Pdu(k)
           /\ TcpRequestPdu(TcpRequest(TX, ADDRESS, k)) = Pdu(k)
<1> DEFINE p == Pdu(k)
           n == Len(p)
<1>1. p \in Seq(Int) /\ n \in Nat /\ n >= 5
  BY PduParts, LenProperties
<1> HIDE DEF p
<1>2. RtuRequestPdu(RtuRequest(ADDRESS, k)) = p
  <2> DEFINE a == <<ADDRESS>>
             b == a \o p
             z == <<0, 0>>
             c == b \o z
             s == SubSeq(c, 1 + 1, n + 1)
  <2>1. a \in Seq(Int) /\ Len(a) = 1 /\ z \in Seq(Int) /\ Len(z) = 2
    BY DEF ADDRESS
  <2>2. RtuRequestPdu(RtuRequest(ADDRESS, k)) = SubSeq(c, 1 + 1, Len(c) - 2)
    BY DEF RtuRequestPdu, RtuRequest, Frame, p
  <2> HIDE DEF a, z
  <2>3. Joined(a, p, b)
    BY <1>1, <2>1, JoinedIs
  <2>4. b \in Seq(Int) /\ Len(b) = n + 1
    BY <1>1, <2>1, <2>3 DEF Joined
  <2> HIDE DEF b
  <2>5. Joined(b, z, c)
    BY <2>1, <2>4, JoinedIs
  <2>6. c \in Seq(Int) /\ Len(c) = n + 3
    BY <1>1, <2>1, <2>4, <2>5 DEF Joined
  <2> HIDE DEF c
  <2>7. PieceOf(c, 1, s) /\ Len(s) = n
    <3>1. 1 <= n + 1 /\ n + 1 <= Len(c) /\ n + 1 \in Nat /\ (n + 1) - 1 = n
      BY <1>1, <2>6
    <3> HIDE DEF n
    <3> QED
      BY <2>6, <3>1, PieceIs
  <2> HIDE DEF s
  <2>8. ASSUME NEW i \in Nat, 0 < i, i <= n PROVE s[i] = p[i]
    <3>1. s[i] = c[1 + i]
      BY <2>7, <2>8 DEF PieceOf
    <3>2. c[1 + i] = b[1 + i]
      <4> DEFINE m == 1 + i
      <4>1. m \in Nat /\ 0 < m /\ m <= Len(b)
        BY <1>1, <2>4, <2>8
      <4> HIDE DEF m
      <4>2. c[m] = b[m]
        BY <2>5, <4>1 DEF Joined
      <4> QED
        BY <4>2 DEF m
    <3>3. b[1 + i] = p[i]
      BY <2>1, <2>3, <2>8 DEF Joined
    <3> QED
      BY <3>1, <3>2, <3>3
  <2>9. s = p
    BY <1>1, <2>7, <2>8, SameSeq DEF PieceOf
  <2>10. Len(c) - 2 = n + 1
    BY <1>1, <2>6
  <2> QED
    BY <2>2, <2>9, <2>10 DEF s
<1>3. TcpRequestPdu(TcpRequest(TX, ADDRESS, k)) = p
  <2> DEFINE a == <<Hi(TX), Lo(TX), 0, 0, 0, n + 1, ADDRESS>>
             c == a \o p
             s == SubSeq(c, 7 + 1, n + 7)
  <2>1. a \in Seq(Int) /\ Len(a) = 7
    BY <1>1 DEF ADDRESS, TX, Hi, Lo
  <2>2. TcpRequestPdu(TcpRequest(TX, ADDRESS, k)) = SubSeq(c, 7 + 1, Len(c))
    BY DEF TcpRequestPdu, TcpRequest, Frame, p
  <2> HIDE DEF a
  <2>3. Joined(a, p, c)
    BY <1>1, <2>1, JoinedIs
  <2>4. c \in Seq(Int) /\ Len(c) = n + 7
    BY <1>1, <2>1, <2>3 DEF Joined
  <2> HIDE DEF c
  <2>5. PieceOf(c, 7, s) /\ Len(s) = n
    <3>1. 7 <= n + 7 /\ n + 7 <= Len(c) /\ n + 7 \in Nat /\ (n + 7) - 7 = n
      BY <1>1, <2>4
    <3> HIDE DEF n
    <3> QED
      BY <2>4, <3>1, PieceIs
  <2> HIDE DEF s
  <2>6. ASSUME NEW i \in Nat, 0 < i, i <= n PROVE s[i] = p[i]
    <3>1. s[i] = c[7 + i]
      BY <2>5, <2>6 DEF PieceOf
    <3>2. c[7 + i] = p[i]
      BY <2>1, <2>3, <2>6 DEF Joined
    <3> QED
      BY <3>1, <3>2
  <2>7. s = p
    BY <1>1, <2>5, <2>6, SameSeq DEF PieceOf
  <2> QED
    BY <2>2, <2>4, <2>7 DEF s
<1> QED
  BY <1>2, <1>3 DEF p

\* What the frames of an answer have where the validators look.
LEMMA RtuFrame ==
    ASSUME NEW pdu \in Seq(Int)
    PROVE  LET f == Rtu(ADDRESS, pdu) IN
           /\ f.bytes \in Seq(Int) /\ Len(f.bytes) = Len(pdu) + 5 /\ f.sealed = Len(pdu) + 5
           /\ \A i \in Nat : 0 < i /\ i <= Len(pdu) => f.bytes[3 + i] = pdu[i]
<1> DEFINE f == Rtu(ADDRESS, pdu)
           a == <<170, 85, ADDRESS>>
           b == a \o pdu
           z == <<0, 0>>
           c == b \o z
<1>1. a \in Seq(Int) /\ Len(a) = 3 /\ z \in Seq(Int) /\ Len(z) = 2
  BY DEF ADDRESS
<1>2. f.bytes = c /\ f.sealed = Len(pdu) + 5
  BY DEF Rtu, Frame
<1>3. Len(pdu) \in Nat
  BY LenProperties
<1> HIDE DEF a, z, f
<1>4. Joined(a, pdu, b)
  BY <1>1, JoinedIs
<1>5. b \in Seq(Int) /\ Len(b) = Len(pdu) + 3
  BY <1>1, <1>3, <1>4 DEF Joined
<1> HIDE DEF b
<1>6. Joined(b, z, c)
  BY <1>1, <1>5, JoinedIs
<1>7. c \in Seq(Int) /\ Len(c) = Len(pdu) + 5
  BY <1>1, <1>3, <1>5, <1>6 DEF Joined
<1> HIDE DEF c
<1>8. ASSUME NEW i \in Nat, 0 < i, i <= Len(pdu) PROVE c[3 + i] = pdu[i]
  <2> DEFINE m == 3 + i
  <2>1. m \in Nat /\ 0 < m /\ m <= Len(b)
    BY <1>3, <1>5, <1>8
  <2>2. b[m] = pdu[i]
    BY <1>1, <1>4, <1>8 DEF Joined
  <2> HIDE DEF m
  <2>3. c[m] = b[m]
    BY <1>6, <2>1 DEF Joined
  <2> QED
    BY <2>2, <2>3 DEF m
<1> QED
  BY <1>2, <1>7, <1>8 DEF f

LEMMA TcpFrame ==
    ASSUME NEW pdu \in Seq(Int)
    PROVE  LET f == Tcp(TX, ADDRESS, pdu) IN
           /\ f.bytes \in Seq(Int) /\ Len(f.bytes) = Len(pdu) + 7
           /\ \A i \in Nat : 0 < i /\ i <= Len(pdu) => f.bytes[7 + i] = pdu[i]
<1> DEFINE f == Tcp(TX, ADDRESS, pdu)
           a == <<Hi(TX), Lo(TX), 0, 0, 0, Len(pdu) + 1, ADDRESS>>
           c == a \o pdu
<1>1. Len(pdu) \in Nat
  BY LenProperties
<1>2. a \in Seq(Int) /\ Len(a) = 7
  BY <1>1 DEF ADDRESS, TX, Hi, Lo
<1>3. f.bytes = c
  BY DEF Tcp, Frame
<1> HIDE DEF a, f
<1>4. Joined(a, pdu, c)
  BY <1>2, JoinedIs
<1>5. c \in Seq(Int) /\ Len(c) = Len(pdu) + 7
  BY <1>1, <1>2, <1>4 DEF Joined
<1> HIDE DEF c
<1>6. ASSUME NEW i \in Nat, 0 < i, i <= Len(pdu) PROVE c[7 + i] = pdu[i]
  BY <1>2, <1>4, <1>6 DEF Joined
<1> QED
  BY <1>3, <1>5, <1>6 DEF f

\* The inverter's answers: the registers asked for, an echo, a failure.
LEMMA AnswersAre ==
    ASSUME NEW k, Buildable(k), NEW fill \in Byte
    PROVE  LET pdu == AnswerPdu(Pdu(k), fill) IN
           /\ pdu \in Seq(Int)
           /\ k.cmd = READ => Len(pdu) = 2 * k.value + 2 /\ pdu[1] = READ /\ pdu[2] = 2 * k.value
           /\ k.cmd # READ => Len(pdu) = 5 /\ Heads(pdu, k)
<1> DEFINE p == Pdu(k)
           pdu == AnswerPdu(p, fill)
<1>1. p \in Seq(Int) /\ Len(p) >= 5 /\ Heads(p, k)
  BY PduParts
<1>2. Len(p) \in Nat
  BY <1>1, LenProperties
<1> HIDE DEF p
<1>3. CASE k.cmd = READ
  <2> DEFINE n == 2 * U16(p[4], p[5])
             a == <<READ, n>>
             z == [i \in 1..n |-> fill]
  <2>1. k.value \in Int /\ 0 <= k.value /\ k.value <= 127
    BY <1>3, CommandsAre DEF READ, WRITE
  <2>2. n = 2 * k.value
    <3>1. U16(Hi(k.value), Lo(k.value)) = k.value % 65536
      BY <2>1, HalvesOfInteger
    <3>2. k.value % 65536 = k.value
      BY <2>1
    <3> QED
      BY <1>1, <3>1, <3>2 DEF Heads
  <2>3. pdu = a \o z
    BY <1>1, <1>3 DEF AnswerPdu, Heads
  <2>4. n \in Nat
    BY <2>1, <2>2
  <2> HIDE DEF n
  <2>5. fill \in Int
    BY ByteIs
  <2>6. z \in Seq(Int) /\ Len(z) = n
    BY <2>4, <2>5
  <2>7. a \in Seq(Int) /\ Len(a) = 2 /\ a[1] = READ /\ a[2] = n
    BY <2>4 DEF READ
  <2> HIDE DEF a, z, pdu
  <2>8. Joined(a, z, pdu)
    BY <2>3, <2>6, <2>7, JoinedIs
  <2>9. pdu \in Seq(Int) /\ Len(pdu) = n + 2
    BY <2>4, <2>6, <2>7, <2>8 DEF Joined
  <2>10. \A i \in Nat : 0 < i /\ i <= 2 => pdu[i] = a[i]
    BY <2>7, <2>8 DEF Joined
  <2>11. pdu[1] = READ /\ pdu[2] = n
    BY <2>7, <2>10
  <2> QED
    BY <1>3, <2>2, <2>9, <2>11 DEF pdu, p
<1>4. CASE k.cmd # READ
  <2>1. pdu = SubSeq(p, 0 + 1, 5)
    BY <1>1, <1>4 DEF AnswerPdu, Heads
  <2> HIDE DEF pdu
  <2>2. PieceOf(p, 0, pdu) /\ Len(pdu) = 5
    BY <1>1, <1>2, <2>1, PieceIs
  <2>3. \A i \in Nat : 0 < i /\ i <= 5 => pdu[i] = p[0 + i]
    BY <2>2 DEF PieceOf
  <2>4. pdu[1] = p[1] /\ pdu[2] = p[2] /\ pdu[3] = p[3] /\ pdu[4] = p[4] /\ pdu[5] = p[5]
    BY <2>3
  <2> QED
    BY <1>1, <1>4, <2>2, <2>4 DEF PieceOf, Heads, pdu, p
<1> QED
  BY <1>3, <1>4

LEMMA FailuresAre ==
    ASSUME NEW k, Buildable(k), NEW code \in Byte
    PROVE  ExceptionPdu(Pdu(k), code) = <<k.cmd + 128, code>>
  BY PduParts DEF ExceptionPdu, Heads

\* What the validators say of them.
LEMMA ReadVerdicts ==
    ASSUME NEW f, NEW k, NEW n \in Nat, k.value \in Int
    PROVE  /\ Len(f.bytes) = n + 7 /\ f.sealed = n + 7 /\ f.bytes[4] = READ /\ f.bytes[5] = n =>
                RtuVerdict(f, k) = IF n # 2 * k.value THEN Bad ELSE IF k.cmd # READ THEN Rejected(n) ELSE Good
           /\ Len(f.bytes) = n + 9 /\ f.bytes[8] = READ /\ f.bytes[9] = n =>
                TcpVerdict(f, k) = IF n # 2 * k.value THEN Bad ELSE IF k.cmd # READ THEN Rejected(n) ELSE Good
<1> DEFINE d == f.bytes
<1>1. ASSUME Len(d) = n + 7, f.sealed = n + 7, d[4] = READ, d[5] = n
      PROVE  RtuVerdict(f, k) = IF n # 2 * k.value THEN Bad ELSE IF k.cmd # READ THEN Rejected(n) ELSE Good
  <2>1. ~(Len(d) <= 4) /\ ~(Missing(d, d[5] + 7) > 0)
    BY <1>1 DEF Missing
  <2>2. Conclude(d, 4, k) = IF k.cmd # READ THEN Rejected(n) ELSE Good
    BY <1>1 DEF Conclude
  <2>3. READ \notin {WRITE, WRITE_MULTI}
    BY DEF READ, WRITE, WRITE_MULTI
  <2>4. RtuVerdict(f, k) = IF n # 2 * k.value THEN Bad ELSE Conclude(d, 4, k)
    BY <1>1, <2>1, <2>3 DEF RtuVerdict
  <2> QED
    BY <2>2, <2>4
<1>2. ASSUME Len(d) = n + 9, d[8] = READ, d[9] = n
      PROVE  TcpVerdict(f, k) = IF n # 2 * k.value THEN Bad ELSE IF k.cmd # READ THEN Rejected(n) ELSE Good
  <2>1. ~(Len(d) <= 8) /\ ~(Missing(d, d[9] + 9) > 0)
    BY <1>2 DEF Missing
  <2>2. Conclude(d, 8, k) = IF k.cmd # READ THEN Rejected(n) ELSE Good
    BY <1>2 DEF Conclude
  <2>3. READ \notin {WRITE, WRITE_MULTI}
    BY DEF READ, WRITE, WRITE_MULTI
  <2>4. TcpVerdict(f, k) = IF n # 2 * k.value THEN Bad ELSE Conclude(d, 8, k)
    BY <1>2, <2>1, <2>3 DEF TcpVerdict
  <2> QED
    BY <2>2, <2>4
<1> QED
  BY <1>1, <1>2

LEMMA EchoVerdicts ==
    ASSUME NEW f, NEW k, NEW cmd \in {WRITE, WRITE_MULTI}
    PROVE  /\ Len(f.bytes) = 10 /\ f.sealed = 10 /\ f.bytes[4] = cmd =>
                RtuVerdict(f, k) =
                  IF ~EchoMatches(k, U16(f.bytes[5], f.bytes[6]), S16(f.bytes[7], f.bytes[8])) THEN Bad
                  ELSE IF k.cmd # cmd THEN Rejected(f.bytes[5]) ELSE Good
           /\ Len(f.bytes) = 12 /\ f.bytes[8] = cmd =>
                TcpVerdict(f, k) =
                  IF ~EchoMatches(k, U16(f.bytes[9], f.bytes[10]), S16(f.bytes[11], f.bytes[12])) THEN Bad
                  ELSE IF k.cmd # cmd THEN Rejected(f.bytes[9]) ELSE Good
<1> DEFINE d == f.bytes
<1>1. cmd # READ
  BY DEF READ, WRITE, WRITE_MULTI
<1>2. ASSUME Len(d) = 10, f.sealed = 10, d[4] = cmd
      PROVE  RtuVerdict(f, k) =
               IF ~EchoMatches(k, U16(d[5], d[6]), S16(d[7], d[8])) THEN Bad
               ELSE IF k.cmd # cmd THEN Rejected(d[5]) ELSE Good
  <2>1. Conclude(d, 4, k) = IF k.cmd # cmd THEN Rejected(d[5]) ELSE Good
    BY <1>2 DEF Conclude
  <2>2. RtuVerdict(f, k) = IF ~EchoMatches(k, U16(d[5], d[6]), S16(d[7], d[8])) THEN Bad ELSE Conclude(d, 4, k)
    BY <1>1, <1>2 DEF RtuVerdict
  <2> QED
    BY <2>1, <2>2
<1>3. ASSUME Len(d) = 12, d[8] = cmd
      PROVE  TcpVerdict(f, k) =
               IF ~EchoMatches(k, U16(d[9], d[10]), S16(d[11], d[12])) THEN Bad
               ELSE IF k.cmd # cmd THEN Rejected(d[9]) ELSE Good
  <2>1. Conclude(d, 8, k) = IF k.cmd # cmd THEN Rejected(d[9]) ELSE Good
    BY <1>3 DEF Conclude
  <2>2. TcpVerdict(f, k) = IF ~EchoMatches(k, U16(d[9], d[10]), S16(d[11], d[12])) THEN Bad ELSE Conclude(d, 8, k)
    BY <1>1, <1>3 DEF TcpVerdict
  <2> QED
    BY <2>1, <2>2
<1> QED
  BY <1>2, <1>3

LEMMA FailureVerdicts ==
    ASSUME NEW f, NEW k, k.cmd \in {READ, WRITE, WRITE_MULTI}, NEW cmd, cmd \notin {READ, WRITE, WRITE_MULTI}
    PROVE  /\ Len(f.bytes) = 7 /\ f.sealed = 7 /\ f.bytes[4] = cmd => RtuVerdict(f, k) = Rejected(f.bytes[5])
           /\ Len(f.bytes) = 9 /\ f.bytes[8] = cmd => TcpVerdict(f, k) = Rejected(f.bytes[9])
<1> DEFINE d == f.bytes
<1>1. ASSUME Len(d) = 7, f.sealed = 7, d[4] = cmd PROVE RtuVerdict(f, k) = Rejected(d[5])
  <2>1. Conclude(d, 4, k) = Rejected(d[5])
    BY <1>1 DEF Conclude
  <2>2. RtuVerdict(f, k) = Conclude(d, 4, k)
    BY <1>1 DEF RtuVerdict
  <2> QED
    BY <2>1, <2>2
<1>2. ASSUME Len(d) = 9, d[8] = cmd PROVE TcpVerdict(f, k) = Rejected(d[9])
  <2>1. Conclude(d, 8, k) = Rejected(d[9])
    BY <1>2 DEF Conclude
  <2>2. TcpVerdict(f, k) = Conclude(d, 8, k)
    BY <1>2 DEF TcpVerdict
  <2> QED
    BY <2>1, <2>2
<1> QED
  BY <1>1, <1>2

\* An echo is of the same value exactly if it is readable as what was given.
LEMMA EchoesTell ==
    ASSUME NEW j, NEW k, Buildable(j), Buildable(k), j.cmd # READ
    PROVE  EchoMatches(k, U16(Hi(j.offset), Lo(j.offset)), S16(Hi(j.value), Lo(j.value)))
             <=> SameParameters(j, k) /\ EchoReadable(j, k)
<1> DEFINE w == j.value % 65536
           u == k.value
           bottom == -32768
           top == 32767
<1>1. U16(Hi(j.offset), Lo(j.offset)) = j.offset
  BY CommandsAre, HalvesOfWord
<1>2. j.value \in Int /\ u \in Int
  BY CommandsAre
<1>3. S16(Hi(j.value), Lo(j.value)) = Signed16(w) /\ w \in Word
  BY <1>2, HalvesOfInteger DEF S16
<1>4. EchoReadable(j, k) <=> u \in bottom..top
  BY DEF EchoReadable
<1>5. bottom \in Int /\ top \in Int /\ bottom = -32768 /\ top = 32767
  OBVIOUS
<1>6. SameParameters(j, k) <=> w = u % 65536 /\ j.offset = k.offset
  BY DEF SameParameters
<1> HIDE DEF w, u, bottom, top
<1>7. EchoReadable(j, k) <=> bottom <= u /\ u <= top
  BY <1>2, <1>4, <1>5, Between
<1>8. Signed16(w) = u <=> w = u % 65536 /\ -32768 <= u /\ u <= 32767
  <2>1. -32768 <= u /\ u <= 32767 => Signed16(u % 65536) = u
    BY <1>2, SignedWords
  <2>2. Signed16(w) % 65536 = w /\ -32768 <= Signed16(w) /\ Signed16(w) <= 32767
    BY <1>3, SignedFacts
  <2>3. ASSUME Signed16(w) = u PROVE w = u % 65536 /\ -32768 <= u /\ u <= 32767
    BY <2>2, <2>3
  <2>4. ASSUME w = u % 65536, -32768 <= u, u <= 32767 PROVE Signed16(w) = u
    BY <2>1, <2>4
  <2> QED
    BY <2>3, <2>4
<1>9. EchoMatches(k, j.offset, Signed16(w)) <=> j.offset = k.offset /\ Signed16(w) = u
  BY DEF EchoMatches, u
<1> QED
  BY <1>1, <1>3, <1>5, <1>6, <1>7, <1>8, <1>9

Matches(j, k) == SameParameters(j, k) /\ EchoReadable(j, k)
\* Judged by the parameters first, by the function code last.
Judged(verdict, j, k) ==
    \E code : verdict = IF ~Matches(j, k) THEN Bad ELSE IF k.cmd # j.cmd THEN Rejected(code) ELSE Good

LEMMA AnswersJudged ==
    ASSUME NEW j, NEW k, Buildable(j), Buildable(k), NEW fill \in Byte
    PROVE  Judged(RtuVerdict(RtuAnswer(j, fill), k), j, k) /\ Judged(TcpVerdict(TcpAnswer(j, fill), k), j, k)
<1> DEFINE pdu == AnswerPdu(Pdu(j), fill)
           f == Rtu(ADDRESS, pdu)
           g == Tcp(TX, ADDRESS, pdu)
<1>1. RtuAnswer(j, fill) = f /\ TcpAnswer(j, fill) = g
  BY RequestsFound DEF RtuAnswer, TcpAnswer
<1>2. /\ pdu \in Seq(Int)
      /\ j.cmd = READ => Len(pdu) = 2 * j.value + 2 /\ pdu[1] = READ /\ pdu[2] = 2 * j.value
      /\ j.cmd # READ => Len(pdu) = 5 /\ Heads(pdu, j)
  BY AnswersAre
<1>3. j.cmd \in {READ, WRITE, WRITE_MULTI} /\ j.value \in Int /\ k.value \in Int
  BY CommandsAre
<1> HIDE DEF pdu
<1>4. /\ Len(f.bytes) = Len(pdu) + 5 /\ f.sealed = Len(pdu) + 5
      /\ \A i \in Nat : 0 < i /\ i <= Len(pdu) => f.bytes[3 + i] = pdu[i]
  BY <1>2, RtuFrame
<1>5. /\ Len(g.bytes) = Len(pdu) + 7
      /\ \A i \in Nat : 0 < i /\ i <= Len(pdu) => g.bytes[7 + i] = pdu[i]
  BY <1>2, TcpFrame
<1> HIDE DEF f, g
<1>6. CASE j.cmd = READ
  <2> DEFINE n == 2 * j.value
  <2>1. 0 <= j.value
    BY <1>6, CommandsAre DEF READ, WRITE
  <2>2. n \in Nat /\ Len(pdu) = n + 2 /\ pdu[1] = READ /\ pdu[2] = n
    BY <1>2, <1>3, <1>6, <2>1
  <2>3. n # 2 * k.value <=> ~Matches(j, k)
    BY <1>3, <1>6 DEF Matches, SameParameters, EchoReadable
  <2> HIDE DEF n
  <2>4. Len(f.bytes) = n + 7 /\ f.sealed = n + 7 /\ Len(g.bytes) = n + 9
    BY <1>4, <1>5, <2>2
  <2>5. f.bytes[3 + 1] = READ /\ f.bytes[3 + 2] = n
    BY <1>4, <2>2
  <2>6. g.bytes[7 + 1] = READ /\ g.bytes[7 + 2] = n
    BY <1>5, <2>2
  <2>61. f.bytes[4] = READ /\ f.bytes[5] = n /\ g.bytes[8] = READ /\ g.bytes[9] = n
    BY <2>5, <2>6
  <2>7. RtuVerdict(f, k) = IF n # 2 * k.value THEN Bad ELSE IF k.cmd # READ THEN Rejected(n) ELSE Good
    BY <1>3, <2>2, <2>4, <2>61, ReadVerdicts
  <2>8. TcpVerdict(g, k) = IF n # 2 * k.value THEN Bad ELSE IF k.cmd # READ THEN Rejected(n) ELSE Good
    BY <1>3, <2>2, <2>4, <2>61, ReadVerdicts
  <2> QED
    BY <1>1, <1>6, <2>3, <2>7, <2>8 DEF Judged
<1>7. CASE j.cmd # READ
  <2>1. Len(pdu) = 5 /\ Heads(pdu, j) /\ j.cmd \in {WRITE, WRITE_MULTI}
    BY <1>2, <1>3, <1>7
  <2>2. Len(f.bytes) = 10 /\ f.sealed = 10 /\ Len(g.bytes) = 12
    BY <1>4, <1>5, <2>1
  <2>3. /\ f.bytes[3 + 1] = pdu[1] /\ f.bytes[3 + 2] = pdu[2] /\ f.bytes[3 + 3] = pdu[3]
        /\ f.bytes[3 + 4] = pdu[4] /\ f.bytes[3 + 5] = pdu[5]
    BY <1>4, <2>1
  <2>4. /\ g.bytes[7 + 1] = pdu[1] /\ g.bytes[7 + 2] = pdu[2] /\ g.bytes[7 + 3] = pdu[3]
        /\ g.bytes[7 + 4] = pdu[4] /\ g.bytes[7 + 5] = pdu[5]
    BY <1>5, <2>1
  <2> DEFINE m == EchoMatches(k, U16(Hi(j.offset), Lo(j.offset)), S16(Hi(j.value), Lo(j.value)))
  <2>5. m <=> Matches(j, k)
    BY <1>7, EchoesTell DEF Matches
  <2>6. /\ f.bytes[4] = j.cmd /\ f.bytes[5] = Hi(j.offset) /\ f.bytes[6] = Lo(j.offset)
        /\ f.bytes[7] = Hi(j.value) /\ f.bytes[8] = Lo(j.value)
    BY <2>1, <2>3 DEF Heads
  <2>7. /\ g.bytes[8] = j.cmd /\ g.bytes[9] = Hi(j.offset) /\ g.bytes[10] = Lo(j.offset)
        /\ g.bytes[11] = Hi(j.value) /\ g.bytes[12] = Lo(j.value)
    BY <2>1, <2>4 DEF Heads
  <2>8. RtuVerdict(f, k) =
          IF ~EchoMatches(k, U16(f.bytes[5], f.bytes[6]), S16(f.bytes[7], f.bytes[8])) THEN Bad
          ELSE IF k.cmd # j.cmd THEN Rejected(f.bytes[5]) ELSE Good
    BY <2>1, <2>2, <2>6, EchoVerdicts
  <2>9. TcpVerdict(g, k) =
          IF ~EchoMatches(k, U16(g.bytes[9], g.bytes[10]), S16(g.bytes[11], g.bytes[12])) THEN Bad
          ELSE IF k.cmd # j.cmd THEN Rejected(g.bytes[9]) ELSE Good
    BY <2>1, <2>2, <2>7, EchoVerdicts
  <2>10. RtuVerdict(f, k) = IF ~m THEN Bad ELSE IF k.cmd # j.cmd THEN Rejected(f.bytes[5]) ELSE Good
    BY <2>6, <2>8
  <2>11. TcpVerdict(g, k) = IF ~m THEN Bad ELSE IF k.cmd # j.cmd THEN Rejected(g.bytes[9]) ELSE Good
    BY <2>7, <2>9
  <2> HIDE DEF m
  <2> QED
    BY <1>1, <2>5, <2>10, <2>11 DEF Judged
<1> QED
  BY <1>6, <1>7

LEMMA FailuresJudged ==
    ASSUME NEW j, NEW k, Buildable(j), Buildable(k), NEW code \in Byte
    PROVE  RtuVerdict(RtuFailure(j, code), k) = Rejected(code) /\ TcpVerdict(TcpFailure(j, code), k) = Rejected(code)
<1> DEFINE cmd == j.cmd + 128
           pdu == <<cmd, code>>
           f == Rtu(ADDRESS, pdu)
           g == Tcp(TX, ADDRESS, pdu)
<1>1. RtuFailure(j, code) = f /\ TcpFailure(j, code) = g
  BY RequestsFound, FailuresAre DEF RtuFailure, TcpFailure
<1>2. cmd \in Int /\ cmd \notin {READ, WRITE, WRITE_MULTI} /\ code \in Int
  BY CommandsAre, ByteIs DEF READ, WRITE, WRITE_MULTI
<1> HIDE DEF cmd
<1>3. pdu \in Seq(Int) /\ Len(pdu) = 2 /\ pdu[1] = cmd /\ pdu[2] = code
  BY <1>2
<1> HIDE DEF pdu
<1>4. /\ Len(f.bytes) = Len(pdu) + 5 /\ f.sealed = Len(pdu) + 5
      /\ \A i \in Nat : 0 < i /\ i <= Len(pdu) => f.bytes[3 + i] = pdu[i]
  BY <1>3, RtuFrame
<1>5. /\ Len(g.bytes) = Len(pdu) + 7
      /\ \A i \in Nat : 0 < i /\ i <= Len(pdu) => g.bytes[7 + i] = pdu[i]
  BY <1>3, TcpFrame
<1> HIDE DEF f, g
<1>6. Len(f.bytes) = 7 /\ f.sealed = 7 /\ Len(g.bytes) = 9
  BY <1>3, <1>4, <1>5
<1>7. f.bytes[3 + 1] = cmd /\ f.bytes[3 + 2] = code
  BY <1>3, <1>4
<1>8. g.bytes[7 + 1] = cmd /\ g.bytes[7 + 2] = code
  BY <1>3, <1>5
<1>9. f.bytes[4] = cmd /\ f.bytes[5] = code /\ g.bytes[8] = cmd /\ g.bytes[9] = code
  BY <1>7, <1>8
<1>10. RtuVerdict(f, k) = Rejected(f.bytes[5]) /\ TcpVerdict(g, k) = Rejected(g.bytes[9])
  <2>1. k.cmd \in {READ, WRITE, WRITE_MULTI}
    BY CommandsAre
  <2>2. RtuVerdict(f, k) = Rejected(f.bytes[5])
    BY <1>2, <1>6, <1>9, <2>1, FailureVerdicts
  <2>3. TcpVerdict(g, k) = Rejected(g.bytes[9])
    BY <1>2, <1>6, <1>9, <2>1, FailureVerdicts
  <2> QED
    BY <2>2, <2>3
<1> QED
  BY <1>1, <1>9, <1>10

LEMMA VerdictsDiffer ==
    /\ Good # Bad /\ Bad[1] # "rejected" /\ Good[1] # "rejected"
    /\ \A code : Rejected(code) # Good /\ Rejected(code)[1] = "rejected"
  BY DEF Good, Bad, Rejected

LEMMA AnswersOfInput == InputInv => AnswersToldApart /\ RejectionsAreTheInverters
<1> SUFFICES ASSUME InputInv, input.of = "answer" PROVE AnswersToldApart /\ RejectionsAreTheInverters
  BY DEF AnswersToldApart, RejectionsAreTheInverters
<1>1. PICK sent \in Commands, awaited \in Commands, fill \in Fill, refused \in BOOLEAN :
        input = [of |-> "answer", sent |-> sent, awaited |-> awaited, fill |-> fill, refused |-> refused]
  BY MadeBy DEF AnswerInput
<1>2. input.sent = sent /\ input.awaited = awaited /\ input.fill = fill /\ input.refused = refused
  BY <1>1
<1>3. Buildable(sent) /\ Buildable(awaited) /\ fill \in Byte
  BY FramesAssumption
<1> DEFINE rtu == RtuVerdict(RtuAnswer(sent, fill), awaited)
           tcp == TcpVerdict(TcpAnswer(sent, fill), awaited)
<1>4. Judged(rtu, sent, awaited) /\ Judged(tcp, sent, awaited)
  BY <1>3, AnswersJudged
<1>5. /\ RtuVerdict(RtuFailure(sent, fill), awaited) = Rejected(fill)
      /\ TcpVerdict(TcpFailure(sent, fill), awaited) = Rejected(fill)
  BY <1>3, FailuresJudged
<1> HIDE DEF rtu, tcp
<1> DEFINE same == sent.cmd = awaited.cmd
           matches == SameParameters(sent, awaited) /\ EchoReadable(sent, awaited)
<1>6. /\ rtu = Good <=> same /\ matches
      /\ tcp = Good <=> same /\ matches
      /\ rtu[1] = "rejected" <=> ~same /\ matches
      /\ tcp[1] = "rejected" <=> ~same /\ matches
  BY <1>4, VerdictsDiffer DEF Judged, Matches
<1>7. AnswersToldApart
  BY <1>2, <1>6 DEF AnswersToldApart, rtu, tcp
<1>8. RejectionsAreTheInverters
  BY <1>2, <1>5, <1>6 DEF RejectionsAreTheInverters, rtu, tcp
<1> QED
  BY <1>7, <1>8

\* An answer is accepted for exactly the commands it cannot be told from, whatever
\* commands there are.
THEOREM AnswersAreToldApart == Spec => []AnswersToldApart
<1>1. InputInv => AnswersToldApart
  BY AnswersOfInput
<1> QED
  BY <1>1, InputsAreTheActions, PTL

\* A rejection is the inverter's word or the late answer to another kind of command
\* with the same parameters, and the inverter's word is never lost.
THEOREM RejectionsAreAuthentic == Spec => []RejectionsAreTheInverters
<1>1. InputInv => RejectionsAreTheInverters
  BY AnswersOfInput
<1> QED
  BY <1>1, InputsAreTheActions, PTL

LEMMA PiecesJudged ==
    ASSUME NEW f, NEW k, NEW n \in Nat, k.value \in Int
    PROVE  /\ Len(f.bytes) = n /\ n <= 4 => RtuVerdict(f, k) = Bad
           /\ Len(f.bytes) = n /\ n > 4 /\ f.bytes[4] = READ /\ f.bytes[5] = 2 * k.value /\ n < 2 * k.value + 7 =>
                RtuVerdict(f, k) = Partial(2 * k.value + 7 - n)
           /\ Len(f.bytes) = n /\ n <= 8 => TcpVerdict(f, k) = Bad
           /\ Len(f.bytes) = n /\ n > 8 /\ f.bytes[8] = READ /\ f.bytes[9] = 2 * k.value /\ n < 2 * k.value + 9 =>
                TcpVerdict(f, k) = Partial(2 * k.value + 9 - n)
<1> DEFINE d == f.bytes
           v == 2 * k.value
<1>1. ASSUME Len(d) = n, n <= 4 PROVE RtuVerdict(f, k) = Bad
  BY <1>1 DEF RtuVerdict
<1>2. ASSUME Len(d) = n, n > 4, d[4] = READ, d[5] = v, n < v + 7
      PROVE  RtuVerdict(f, k) = Partial(v + 7 - n)
  <2>1. Missing(d, d[5] + 7) = v + 7 - n /\ v + 7 - n > 0
    BY <1>2 DEF Missing
  <2>2. RtuVerdict(f, k) = Partial(Missing(d, d[5] + 7))
    BY <1>2, <2>1 DEF RtuVerdict
  <2> QED
    BY <2>1, <2>2
<1>3. ASSUME Len(d) = n, n <= 8 PROVE TcpVerdict(f, k) = Bad
  BY <1>3 DEF TcpVerdict
<1>4. ASSUME Len(d) = n, n > 8, d[8] = READ, d[9] = v, n < v + 9
      PROVE  TcpVerdict(f, k) = Partial(v + 9 - n)
  <2>1. Missing(d, d[9] + 9) = v + 9 - n /\ v + 9 - n > 0
    BY <1>4 DEF Missing
  <2>2. TcpVerdict(f, k) = Partial(Missing(d, d[9] + 9))
    BY <1>4, <2>1 DEF TcpVerdict
  <2> QED
    BY <2>1, <2>2
<1> QED
  BY <1>1, <1>2, <1>3, <1>4

LEMMA HeadsArePieces ==
    ASSUME NEW c, c \in Seq(Int), NEW n \in Nat, n <= Len(c)
    PROVE  PieceOf(c, 0, SubSeq(c, 0 + 1, n)) /\ Len(SubSeq(c, 0 + 1, n)) = n
<1>1. Len(c) \in Nat
  BY LenProperties
<1> DEFINE p == SubSeq(c, 0 + 1, n)
<1>2. 0 \in Nat /\ 0 <= n
  OBVIOUS
<1>3. PieceOf(c, 0, p) /\ Len(p) = n - 0
  BY <1>2, PieceIs
<1> HIDE DEF p
<1>4. n - 0 = n
  OBVIOUS
<1>5. PieceOf(c, 0, p) /\ Len(p) = n
  BY <1>3, <1>4
<1> QED
  BY <1>5 DEF p

LEMMA PiecesOfInput == InputInv => PiecesAddUp
<1> SUFFICES ASSUME InputInv, input.of = "piece" PROVE PiecesAddUp
  BY DEF PiecesAddUp
<1>0. PICK k \in {c \in Commands : c.cmd = READ}, fill \in Fill :
        \E n \in 0..(2 * k.value + 9) : input = [of |-> "piece", sent |-> k, fill |-> fill, n |-> n]
  BY MadeBy DEF PieceInput
<1>1. PICK n \in 0..(2 * k.value + 9) : input = [of |-> "piece", sent |-> k, fill |-> fill, n |-> n]
  BY <1>0
<1>2. input.sent = k /\ input.fill = fill /\ input.n = n
  BY <1>1
<1>3. Buildable(k) /\ k.cmd = READ /\ fill \in Byte
  BY FramesAssumption
<1>4. k.value \in Int /\ 0 <= k.value
  BY <1>3, CommandsAre DEF READ, WRITE
<1>5. n \in Nat
  BY <1>4
<1> DEFINE v == 2 * k.value
           pdu == AnswerPdu(Pdu(k), fill)
           f == Rtu(ADDRESS, pdu)
           g == Tcp(TX, ADDRESS, pdu)
<1>6. RtuAnswer(k, fill) = f /\ TcpAnswer(k, fill) = g
  BY <1>3, RequestsFound DEF RtuAnswer, TcpAnswer
<1>7. pdu \in Seq(Int) /\ Len(pdu) = v + 2 /\ pdu[1] = READ /\ pdu[2] = v
  BY <1>3, AnswersAre
<1> HIDE DEF pdu
<1>8. /\ f.bytes \in Seq(Int) /\ Len(f.bytes) = Len(pdu) + 5
      /\ \A i \in Nat : 0 < i /\ i <= Len(pdu) => f.bytes[3 + i] = pdu[i]
  BY <1>7, RtuFrame
<1>9. /\ g.bytes \in Seq(Int) /\ Len(g.bytes) = Len(pdu) + 7
      /\ \A i \in Nat : 0 < i /\ i <= Len(pdu) => g.bytes[7 + i] = pdu[i]
  BY <1>7, TcpFrame
<1> HIDE DEF f, g
<1>10. v \in Nat
  BY <1>4
<1>11. \A h : First(n, h).bytes = SubSeq(h.bytes, 0 + 1, n)
  BY DEF First, Frame
<1> HIDE DEF v
<1>12. ASSUME n < Len(f.bytes)
       PROVE  RtuVerdict(First(n, f), k) = IF n <= 4 THEN Bad ELSE Partial(Len(f.bytes) - n)
  <2> DEFINE p == First(n, f)
  <2>1. Len(f.bytes) = v + 7
    BY <1>7, <1>8, <1>10
  <2>2. f.bytes[3 + 1] = READ /\ f.bytes[3 + 2] = v
    BY <1>7, <1>8, <1>10
  <2>3. PieceOf(f.bytes, 0, p.bytes) /\ Len(p.bytes) = n
    <3>1. n <= Len(f.bytes)
      BY <1>5, <1>10, <1>12, <2>1
    <3>2. p.bytes = SubSeq(f.bytes, 0 + 1, n)
      BY <1>11
    <3> HIDE DEF p
    <3>3. PieceOf(f.bytes, 0, SubSeq(f.bytes, 0 + 1, n)) /\ Len(SubSeq(f.bytes, 0 + 1, n)) = n
      BY <1>5, <1>8, <3>1, HeadsArePieces
    <3> QED
      BY <3>2, <3>3
  <2> HIDE DEF p
  <2>4. n > 4 => p.bytes[4] = READ /\ p.bytes[5] = v
    <3>1. \A i \in Nat : 0 < i /\ i <= n => p.bytes[i] = f.bytes[0 + i]
      BY <2>3 DEF PieceOf
    <3>2. n > 4 => p.bytes[4] = f.bytes[4] /\ p.bytes[5] = f.bytes[5]
      BY <1>5, <3>1
    <3> QED
      BY <2>2, <3>2
  <2>5. RtuVerdict(p, k) = IF n <= 4 THEN Bad ELSE Partial(v + 7 - n)
    BY <1>4, <1>5, <1>12, <2>1, <2>3, <2>4, PiecesJudged DEF v
  <2>6. v + 7 - n = Len(f.bytes) - n
    BY <1>5, <1>10, <2>1
  <2>7. RtuVerdict(p, k) = IF n <= 4 THEN Bad ELSE Partial(Len(f.bytes) - n)
    BY <2>5, <2>6
  <2> QED
    BY <2>7 DEF p
<1>13. ASSUME n < Len(g.bytes)
       PROVE  TcpVerdict(First(n, g), k) = IF n <= 8 THEN Bad ELSE Partial(Len(g.bytes) - n)
  <2> DEFINE p == First(n, g)
  <2>1. Len(g.bytes) = v + 9
    BY <1>7, <1>9, <1>10
  <2>2. g.bytes[7 + 1] = READ /\ g.bytes[7 + 2] = v
    BY <1>7, <1>9, <1>10
  <2>3. PieceOf(g.bytes, 0, p.bytes) /\ Len(p.bytes) = n
    <3>1. n <= Len(g.bytes)
      BY <1>5, <1>10, <1>13, <2>1
    <3>2. p.bytes = SubSeq(g.bytes, 0 + 1, n)
      BY <1>11
    <3> HIDE DEF p
    <3>3. PieceOf(g.bytes, 0, SubSeq(g.bytes, 0 + 1, n)) /\ Len(SubSeq(g.bytes, 0 + 1, n)) = n
      BY <1>5, <1>9, <3>1, HeadsArePieces
    <3> QED
      BY <3>2, <3>3
  <2> HIDE DEF p
  <2>4. n > 8 => p.bytes[8] = READ /\ p.bytes[9] = v
    <3>1. \A i \in Nat : 0 < i /\ i <= n => p.bytes[i] = g.bytes[0 + i]
      BY <2>3 DEF PieceOf
    <3>2. n > 8 => p.bytes[8] = g.bytes[8] /\ p.bytes[9] = g.bytes[9]
      BY <1>5, <3>1
    <3> QED
      BY <2>2, <3>2
  <2>5. TcpVerdict(p, k) = IF n <= 8 THEN Bad ELSE Partial(v + 9 - n)
    <3>1. CASE n <= 8
      <4>1. TcpVerdict(p, k) = Bad
        BY <1>4, <1>5, <2>3, <3>1, PiecesJudged
      <4> QED
        BY <3>1, <4>1
    <3>2. CASE n > 8
      <4>1. n < v + 9
        BY <1>13, <2>1
      <4>2. TcpVerdict(p, k) = Partial(v + 9 - n)
        BY <1>4, <1>5, <2>3, <2>4, <3>2, <4>1, PiecesJudged DEF v
      <4>3. ~(n <= 8)
        BY <1>5, <3>2
      <4> QED
        BY <4>2, <4>3
    <3> QED
      BY <1>5, <3>1, <3>2
  <2>6. v + 9 - n = Len(g.bytes) - n
    BY <1>5, <1>10, <2>1
  <2>7. TcpVerdict(p, k) = IF n <= 8 THEN Bad ELSE Partial(Len(g.bytes) - n)
    BY <2>5, <2>6
  <2> QED
    BY <2>7 DEF p
<1> QED
  BY <1>2, <1>6, <1>12, <1>13 DEF PiecesAddUp

\* A piece of an answer of any length is dropped while too short to tell, and otherwise
\* kept with exactly what is missing.
THEOREM PiecesAlwaysAddUp == Spec => []PiecesAddUp
  BY InputsAreTheActions, PiecesOfInput, PTL

-----------------------------------------------------------------------------
(* AA55 frames *)

\* A frame is its bytes and their sum.
LEMMA SealedIs ==
    ASSUME NEW b \in Seq(Nat)
    PROVE  /\ b \in Seq(Int) /\ SumOf(b) \in Nat
           /\ Joined(b, <<Hi(SumOf(b)), Lo(SumOf(b))>>, Sealed(b))
           /\ Len(Sealed(b)) = Len(b) + 2
           /\ Sealed(b)[Len(b) + 1] = Hi(SumOf(b)) /\ Sealed(b)[Len(b) + 2] = Lo(SumOf(b))
<1> DEFINE s == SumOf(b)
           t == <<Hi(s), Lo(s)>>
           c == Sealed(b)
<1>1. s \in Nat
  BY SumOfBytes
<1>2. b \in Seq(Int) /\ Len(b) \in Nat
  BY SeqMonotonic, LenProperties
<1>3. c = b \o t
  BY DEF Sealed
<1> HIDE DEF s, c
<1>4. t \in Seq(Int) /\ Len(t) = 2 /\ t[1] = Hi(s) /\ t[2] = Lo(s)
  BY <1>1 DEF Hi, Lo
<1> HIDE DEF t
<1>5. Joined(b, t, c)
  BY <1>2, <1>3, <1>4, JoinedIs
<1>6. \A i \in Nat : 0 < i /\ i <= 2 => c[Len(b) + i] = t[i]
  BY <1>4, <1>5 DEF Joined
<1>7. c[Len(b) + 1] = t[1] /\ c[Len(b) + 2] = t[2]
  BY <1>6
<1>8. Len(c) = Len(b) + 2
  BY <1>4, <1>5 DEF Joined
<1> QED
  BY <1>1, <1>2, <1>4, <1>5, <1>7, <1>8 DEF s, t, c

\* The answer of an inverter, by its parts.
LEMMA Aa55AnswersAre ==
    ASSUME NEW type \in Nat, NEW payload \in Seq(Byte), Len(payload) <= 255
    PROVE  \E b \in Seq(Nat) :
             /\ Answer(type, payload) = Sealed(b) /\ Len(b) = Len(payload) + 7
             /\ b[5] = Hi(type) /\ b[6] = Lo(type) /\ b[7] = Len(payload)
             /\ \A i \in Nat : 0 < i /\ i <= Len(payload) => b[7 + i] = payload[i]
<1> DEFINE a == <<170, 85, 127, 192, Hi(type), Lo(type), Len(payload)>>
           b == a \o payload
<1>1. Len(payload) \in Nat
  BY LenProperties
<1>2. Hi(type) \in Nat /\ Lo(type) \in Nat
  BY DEF Hi, Lo
<1>3. a \in Seq(Nat) /\ Len(a) = 7 /\ a[5] = Hi(type) /\ a[6] = Lo(type) /\ a[7] = Len(payload)
  BY <1>1, <1>2
<1>4. payload \in Seq(Nat)
  <2>1. Byte \subseteq Nat
    BY ByteIs
  <2> QED
    BY <2>1, SeqMonotonic
<1>5. Answer(type, payload) = Sealed(b)
  BY DEF Answer
<1> HIDE DEF a
<1>6. a \in Seq(Int) /\ payload \in Seq(Int)
  BY <1>3, <1>4, SeqMonotonic
<1>7. b \in Seq(Nat)
  BY <1>3, <1>4, ConcatProperties
<1>8. Joined(a, payload, b)
  BY <1>6, JoinedIs
<1> HIDE DEF b
<1>9. \A i \in Nat : 0 < i /\ i <= 7 => b[i] = a[i]
  BY <1>3, <1>8 DEF Joined
<1>10. b[5] = a[5] /\ b[6] = a[6] /\ b[7] = a[7]
  BY <1>9
<1>11. Len(b) = Len(payload) + 7
  BY <1>1, <1>3, <1>8 DEF Joined
<1>12. \A i \in Nat : 0 < i /\ i <= Len(payload) => b[7 + i] = payload[i]
  BY <1>3, <1>8 DEF Joined
<1> QED
  BY <1>3, <1>5, <1>7, <1>10, <1>11, <1>12

\* The sum is read back from its two bytes as it is when it is below 0x8000.
LEMMA SumsRead ==
    ASSUME NEW s \in Nat
    PROVE  S16(Hi(s), Lo(s)) = s <=> s < 32768
<1> DEFINE r == s % 65536
<1>1. U16(Hi(s), Lo(s)) = r
  BY HalvesOfInteger
<1>2. s < 32768 => r = s
  OBVIOUS
<1>3. r \in Int /\ 0 <= r /\ r <= 65535
  OBVIOUS
<1>4. S16(Hi(s), Lo(s)) = Signed16(r)
  BY <1>1 DEF S16
<1> HIDE DEF r
<1>5. Signed16(r) <= 32767
  BY <1>3 DEF Signed16
<1>6. s < 32768 => Signed16(r) = s
  BY <1>2 DEF Signed16
<1> QED
  BY <1>4, <1>5, <1>6

\* What the validator says of a frame: too short, incomplete, complete.
LEMMA Aa55Verdicts ==
    ASSUME NEW d, NEW type, NEW n \in Nat, NEW m \in Nat, Len(d) = n
    PROVE  /\ n <= 8 => Aa55Verdict(d, type) = Bad
           /\ n > 8 /\ d[7] = m /\ n < m + 9 => Aa55Verdict(d, type) = Partial(m + 9 - n)
           /\ n > 8 /\ d[7] = m /\ n = m + 9 =>
                Aa55Verdict(d, type) =
                  IF S16(d[5], d[6]) = type /\ SumOf(SubSeq(d, 1, n - 2)) = S16(d[n - 1], d[n]) THEN Good ELSE Bad
<1>1. ASSUME n <= 8 PROVE Aa55Verdict(d, type) = Bad
  BY <1>1 DEF Aa55Verdict
<1>2. ASSUME n > 8, d[7] = m, n < m + 9 PROVE Aa55Verdict(d, type) = Partial(m + 9 - n)
  <2>1. Whole(d) = m + 9 /\ ~(n <= 8)
    BY <1>2 DEF Whole
  <2> HIDE DEF Whole
  <2> QED
    BY <1>2, <2>1 DEF Aa55Verdict
<1>3. ASSUME n > 8, d[7] = m, n = m + 9
      PROVE  Aa55Verdict(d, type) =
               IF S16(d[5], d[6]) = type /\ SumOf(SubSeq(d, 1, n - 2)) = S16(d[n - 1], d[n]) THEN Good ELSE Bad
  <2>1. Whole(d) = n /\ ~(n <= 8) /\ ~(n < n) /\ ~(n > n)
    BY <1>3 DEF Whole
  <2> HIDE DEF Whole
  <2> QED
    BY <1>3, <2>1 DEF Aa55Verdict
<1> QED
  BY <1>1, <1>2, <1>3

LEMMA Aa55Judged == InputInv => Aa55AnswersJudged
<1> SUFFICES ASSUME InputInv, input.of = "aa55" PROVE Aa55AnswersJudged
  BY DEF Aa55AnswersJudged
<1>0. PICK type \in Aa55Types, awaited \in Aa55Types, payload \in Payloads :
        \E n \in 0..(Len(payload) + 9) :
          input = [of |-> "aa55", type |-> type, awaited |-> awaited, payload |-> payload, n |-> n]
  BY MadeBy DEF Aa55Input
<1>1. PICK n \in 0..(Len(payload) + 9) :
        input = [of |-> "aa55", type |-> type, awaited |-> awaited, payload |-> payload, n |-> n]
  BY <1>0
<1>2. input.type = type /\ input.awaited = awaited /\ input.payload = payload /\ input.n = n
  BY <1>1
<1>3. type \in Nat /\ type < 32768 /\ payload \in Seq(Byte) /\ Len(payload) <= 255
  BY FramesAssumption
<1> DEFINE m == Len(payload)
           d == Answer(type, payload)
           p == SubSeq(d, 1, n)
           v == Aa55Verdict(p, awaited)
           addsUp == SumOf(SubSeq(d, 1, Len(d) - 2)) < 32768
<1>4. m \in Nat
  BY <1>3, LenProperties
<1>5. n \in Nat /\ n <= m + 9
  BY <1>4
<1>6. SUFFICES /\ n = Len(d) => v = IF type = awaited /\ addsUp THEN Good ELSE Bad
               /\ v = Good => Aa55Payload(p) = payload
               /\ n < Len(d) => v = IF n <= 8 THEN Bad ELSE Partial(Len(d) - n)
  BY <1>2 DEF Aa55AnswersJudged
<1>7. PICK b \in Seq(Nat) :
        /\ d = Sealed(b) /\ Len(b) = m + 7
        /\ b[5] = Hi(type) /\ b[6] = Lo(type) /\ b[7] = m
        /\ \A i \in Nat : 0 < i /\ i <= m => b[7 + i] = payload[i]
  BY <1>3, Aa55AnswersAre
<1> DEFINE s == SumOf(b)
<1> HIDE DEF m, d
<1>8. /\ b \in Seq(Int) /\ s \in Nat
      /\ Joined(b, <<Hi(s), Lo(s)>>, d)
      /\ Len(d) = Len(b) + 2
      /\ d[Len(b) + 1] = Hi(s) /\ d[Len(b) + 2] = Lo(s)
  BY <1>7, SealedIs
<1> HIDE DEF s
<1>9. d \in Seq(Int) /\ Len(d) = m + 9 /\ d[m + 8] = Hi(s) /\ d[m + 9] = Lo(s)
  <2>1. m + 8 = Len(b) + 1 /\ m + 9 = Len(b) + 2
    BY <1>4, <1>7
  <2> QED
    BY <1>8, <2>1 DEF Joined
<1>10. \A i \in Nat : 0 < i /\ i <= m + 7 => d[i] = b[i]
  BY <1>7, <1>8 DEF Joined
<1>11. d[5] = Hi(type) /\ d[6] = Lo(type) /\ d[7] = m
  BY <1>4, <1>7, <1>10
<1>12. PieceOf(d, 0, SubSeq(d, 0 + 1, n)) /\ Len(SubSeq(d, 0 + 1, n)) = n
  BY <1>5, <1>9, HeadsArePieces
<1>13. p \in Seq(Int) /\ Len(p) = n /\ \A i \in Nat : 0 < i /\ i <= n => p[i] = d[i]
  <2>1. p = SubSeq(d, 0 + 1, n)
    OBVIOUS
  <2>2. \A i \in Nat : 0 + i = i
    OBVIOUS
  <2> HIDE DEF p
  <2> QED
    BY <1>12, <2>1, <2>2 DEF PieceOf
<1> HIDE DEF p
<1>14. n > 8 => p[7] = m
  BY <1>5, <1>11, <1>13
<1>15. ASSUME n < Len(d) PROVE v = IF n <= 8 THEN Bad ELSE Partial(Len(d) - n)
  <2>1. CASE n <= 8
    <3>1. v = Bad
      BY <1>4, <1>5, <1>13, <2>1, Aa55Verdicts
    <3> QED
      BY <2>1, <3>1
  <2>2. CASE n > 8
    <3>1. n < m + 9 /\ m + 9 - n = Len(d) - n /\ ~(n <= 8)
      BY <1>4, <1>5, <1>9, <1>15, <2>2
    <3>2. v = Partial(m + 9 - n)
      BY <1>4, <1>5, <1>13, <1>14, <2>2, <3>1, Aa55Verdicts
    <3> QED
      BY <3>1, <3>2
  <2> QED
    BY <1>5, <2>1, <2>2
<1>16. ASSUME n = Len(d)
       PROVE  p = d /\ v = IF type = awaited /\ addsUp THEN Good ELSE Bad
  <2>1. p = d
    BY <1>9, <1>13, <1>16, SameSeq
  <2>2. SubSeq(d, 1, Len(d) - 2) = b
    <3> DEFINE q == SubSeq(d, 0 + 1, m + 7)
    <3>1. m + 7 \in Nat /\ m + 7 <= Len(d) /\ m + 7 = Len(b) /\ Len(d) - 2 = m + 7
      BY <1>4, <1>7, <1>9
    <3>2. PieceOf(d, 0, q) /\ Len(q) = m + 7
      BY <1>9, <3>1, HeadsArePieces
    <3>3. SubSeq(d, 1, Len(d) - 2) = q
      BY <3>1
    <3> HIDE DEF q
    <3>4. ASSUME NEW i \in Nat, 0 < i, i <= m + 7 PROVE q[i] = b[i]
      <4>1. q[i] = d[0 + i] /\ 0 + i = i
        BY <3>2, <3>4 DEF PieceOf
      <4> QED
        BY <1>10, <3>4, <4>1
    <3>5. q = b
      BY <1>8, <3>1, <3>2, <3>4, SameSeq DEF PieceOf
    <3> QED
      BY <3>3, <3>5
  <2>3. n > 8 /\ n = m + 9 /\ n - 1 = m + 8
    BY <1>4, <1>9, <1>16
  <2>4. Aa55Verdict(d, awaited) =
          IF S16(d[5], d[6]) = awaited /\ SumOf(SubSeq(d, 1, n - 2)) = S16(d[n - 1], d[n]) THEN Good ELSE Bad
    BY <1>4, <1>5, <1>11, <1>16, <2>3, Aa55Verdicts
  <2>5. SumOf(SubSeq(d, 1, n - 2)) = s /\ S16(d[n - 1], d[n]) = S16(Hi(s), Lo(s))
    BY <1>9, <1>16, <2>2, <2>3 DEF s
  <2>6. addsUp <=> s < 32768
    <3> DEFINE t == SumOf(SubSeq(d, 1, Len(d) - 2))
    <3>1. t = s
      BY <2>2 DEF s
    <3>2. addsUp <=> t < 32768
      OBVIOUS
    <3> HIDE DEF t, addsUp
    <3> QED
      BY <3>1, <3>2
  <2> HIDE DEF addsUp
  <2>7. S16(Hi(s), Lo(s)) = s <=> s < 32768
    BY <1>8, SumsRead
  <2>8. S16(d[5], d[6]) = type
    BY <1>3, <1>11, SumsRead
  <2>9. v = Aa55Verdict(d, awaited)
    BY <2>1
  <2> HIDE DEF v
  <2> QED
    BY <2>1, <2>4, <2>5, <2>6, <2>7, <2>8, <2>9
<1>17. ASSUME v = Good PROVE Aa55Payload(p) = payload
  <2>1. ~(n < Len(d))
    <3>1. v = Bad \/ v = Partial(Len(d) - n) => v # Good
      BY <1>17 DEF Good, Bad, Partial
    <3> QED
      BY <1>15, <1>17, <3>1
  <2>2. n = Len(d)
    BY <1>4, <1>5, <1>9, <2>1
  <2>3. p = d
    BY <1>16, <2>2
  <2> DEFINE q == SubSeq(d, 7 + 1, m + 7)
  <2>4. 7 \in Nat /\ m + 7 \in Nat /\ 7 <= m + 7 /\ m + 7 <= Len(d) /\ (m + 7) - 7 = m /\ Len(d) - 2 = m + 7
    BY <1>4, <1>9
  <2>5. PieceOf(d, 7, q) /\ Len(q) = m
    BY <1>9, <2>4, PieceIs
  <2>6. Aa55Payload(p) = q
    BY <2>3, <2>4 DEF Aa55Payload
  <2> HIDE DEF q
  <2>7. ASSUME NEW i \in Nat, 0 < i, i <= m PROVE q[i] = payload[i]
    <3>1. q[i] = d[7 + i]
      BY <2>5, <2>7 DEF PieceOf
    <3>2. d[7 + i] = b[7 + i]
      <4>1. 7 + i \in Nat /\ 0 < 7 + i /\ 7 + i <= m + 7
        BY <1>4, <2>7
      <4> QED
        BY <1>10, <4>1
    <3> QED
      BY <1>7, <2>7, <3>1, <3>2
  <2>8. payload \in Seq(Int) /\ m = Len(payload)
    <3>1. Byte \subseteq Int
      BY ByteIs
    <3>2. payload \in Seq(Byte)
      BY <1>3
    <3>3. payload \in Seq(Int)
      BY <3>1, <3>2, SeqMonotonic, Zenon
    <3> QED
      BY <3>3 DEF m
  <2>9. q = payload
    BY <2>5, <2>7, <2>8, SameSeq DEF PieceOf
  <2> QED
    BY <2>6, <2>9
<1> QED
  BY <1>15, <1>16, <1>17

\* A request, by its parts.
LEMMA RequestsAre ==
    ASSUME NEW p \in Seq(Nat), Len(p) >= 3
    PROVE  /\ Request(p) \in Seq(Int) /\ Len(Request(p)) = Len(p) + 6
           /\ \A i \in Nat : 0 < i /\ i <= Len(p) => Request(p)[4 + i] = p[i]
           /\ Request(p)[7] = p[3]
<1> DEFINE n == Len(p)
<1>0. n \in Nat /\ n >= 3
  BY LenProperties
<1> DEFINE a == <<170, 85, 192, 127>>
           b == a \o p
           c == Request(p)
<1>1. a \in Seq(Nat) /\ Len(a) = 4
  OBVIOUS
<1>2. c = Sealed(b)
  BY DEF Request
<1> HIDE DEF a, c
<1>3. b \in Seq(Nat)
  BY <1>1, ConcatProperties
<1>4. a \in Seq(Int) /\ p \in Seq(Int)
  BY <1>1, SeqMonotonic
<1>5. Joined(a, p, b)
  BY <1>4, JoinedIs
<1> HIDE DEF b
<1>6. Len(b) = n + 4 /\ \A i \in Nat : 0 < i /\ i <= n => b[4 + i] = p[i]
  BY <1>0, <1>1, <1>5 DEF Joined
<1> HIDE DEF n
<1> DEFINE s == SumOf(b)
           t == <<Hi(s), Lo(s)>>
<1>7. Joined(b, t, c) /\ Len(c) = Len(b) + 2
  BY <1>2, <1>3, SealedIs
<1> HIDE DEF t
<1>8. c \in Seq(Int) /\ Len(c) = n + 6
  BY <1>0, <1>6, <1>7 DEF Joined
<1>9. \A i \in Nat : 0 < i /\ i <= n + 4 => c[i] = b[i]
  BY <1>0, <1>6, <1>7 DEF Joined
<1>10. ASSUME NEW i \in Nat, 0 < i, i <= n PROVE c[4 + i] = p[i]
  <2>1. 4 + i \in Nat /\ 0 < 4 + i /\ 4 + i <= n + 4
    BY <1>0, <1>10
  <2>2. c[4 + i] = b[4 + i]
    BY <1>9, <2>1
  <2> QED
    BY <1>6, <1>10, <2>2
<1>11. c[4 + 3] = p[3]
  BY <1>0, <1>10
<1>12. c[7] = p[3]
  BY <1>11
<1> QED
  BY <1>8, <1>10, <1>12 DEF c, n

LEMMA ReadsAnnounced ==
    ASSUME NEW offset \in Nat, NEW count \in Nat
    PROVE  AnnouncesItsPayload(Aa55Read(offset, count))
<1> DEFINE p == <<1, 26, 3, Hi(offset), Lo(offset), count>>
<1>1. p \in Seq(Nat) /\ Len(p) = 6 /\ p[3] = 3
  BY DEF Hi, Lo
<1>2. Aa55Read(offset, count) = Request(p)
  BY DEF Aa55Read
<1> HIDE DEF p
<1>3. Request(p)[7] = 3 /\ Len(Request(p)) = 12
  <2>1. Len(p) >= 3 /\ Len(p) + 6 = 12
    BY <1>1
  <2>2. Request(p)[7] = p[3] /\ Len(Request(p)) = Len(p) + 6
    BY <1>1, <2>1, RequestsAre, Zenon
  <2> QED
    BY <1>1, <2>1, <2>2
<1> QED
  BY <1>2, <1>3 DEF AnnouncesItsPayload

LEMMA WritesAnnounced ==
    ASSUME NEW register \in Nat, NEW value \in Nat
    PROVE  LET c == Request(<<2, 57, 5, Hi(register), Lo(register), 1, Hi(value), Lo(value)>>)
           IN  /\ Aa55Write(register, value) = Value(c)
               /\ AnnouncesItsPayload(c) /\ SubSeq(c, 11, 12) = <<Hi(value), Lo(value)>>
<1> DEFINE p == <<2, 57, 5, Hi(register), Lo(register), 1, Hi(value), Lo(value)>>
           c == Request(p)
           q == SubSeq(c, 10 + 1, 12)
           r == <<Hi(value), Lo(value)>>
<1>1. p \in Seq(Nat) /\ Len(p) = 8 /\ p[3] = 5 /\ p[7] = Hi(value) /\ p[8] = Lo(value)
  BY DEF Hi, Lo
<1>2. Aa55Write(register, value) = Value(c)
  BY DEF Aa55Write
<1> HIDE DEF p
<1>3. /\ c \in Seq(Int) /\ c[7] = 5 /\ Len(c) = 14
      /\ \A i \in Nat : 0 < i /\ i <= 8 => c[4 + i] = p[i]
  <2>1. Len(p) >= 3 /\ Len(p) + 6 = 14
    BY <1>1
  <2>2. /\ c \in Seq(Int) /\ c[7] = p[3] /\ Len(c) = Len(p) + 6
        /\ \A i \in Nat : 0 < i /\ i <= Len(p) => c[4 + i] = p[i]
    BY <1>1, <2>1, RequestsAre, Zenon
  <2> HIDE DEF c
  <2> QED
    BY <1>1, <2>1, <2>2
<1>4. c[4 + 7] = p[7] /\ c[4 + 8] = p[8]
  BY <1>3
<1> HIDE DEF c
<1>5. c[11] = Hi(value) /\ c[12] = Lo(value)
  BY <1>1, <1>4
<1>6. AnnouncesItsPayload(c)
  BY <1>3 DEF AnnouncesItsPayload
<1>7. PieceOf(c, 10, q) /\ Len(q) = 2
  <2>1. 10 \in Nat /\ 12 \in Nat /\ 10 <= 12 /\ 12 <= Len(c) /\ 12 - 10 = 2
    BY <1>3
  <2> QED
    BY <1>3, <2>1, PieceIs
<1>8. SubSeq(c, 11, 12) = q
  OBVIOUS
<1> HIDE DEF q
<1>9. \A i \in Nat : 0 < i /\ i <= 2 => q[i] = c[10 + i]
  BY <1>7 DEF PieceOf
<1>10. q[1] = c[10 + 1] /\ q[2] = c[10 + 2]
  BY <1>9
<1>11. q[1] = Hi(value) /\ q[2] = Lo(value)
  BY <1>5, <1>10
<1>12. r \in Seq(Int) /\ Len(r) = 2 /\ r[1] = Hi(value) /\ r[2] = Lo(value)
  BY DEF Hi, Lo
<1> HIDE DEF r
<1>13. ASSUME NEW i \in Nat, 0 < i, i <= 2 PROVE q[i] = r[i]
  <2>1. i = 1 \/ i = 2
    BY <1>13
  <2> QED
    BY <1>11, <1>12, <2>1
<1>14. q = r
  BY <1>7, <1>12, <1>13, SameSeq DEF PieceOf
<1> QED
  BY <1>2, <1>6, <1>8, <1>14 DEF c, p, r

LEMMA GroupWritesAnnounced ==
    ASSUME NEW offset \in Nat, NEW byte \in Nat
    PROVE  AnnouncesItsPayload(Aa55WriteMulti(offset, [i \in 1..8 |-> byte]))
<1> DEFINE z == [i \in 1..8 |-> byte]
           a == <<2, 57, 11, Hi(offset), Lo(offset), 8>>
           p == a \o z
<1>1. z \in Seq(Nat) /\ Len(z) = 8
  OBVIOUS
<1>2. a \in Seq(Nat) /\ Len(a) = 6 /\ a[3] = 11
  BY DEF Hi, Lo
<1>3. Aa55WriteMulti(offset, z) = Request(p)
  <2>1. Len(z) = 8
    BY <1>1
  <2> HIDE DEF z
  <2> QED
    BY <2>1 DEF Aa55WriteMulti
<1> HIDE DEF a, z
<1>4. p \in Seq(Nat) /\ a \in Seq(Int) /\ z \in Seq(Int)
  BY <1>1, <1>2, ConcatProperties, SeqMonotonic
<1>5. Joined(a, z, p)
  BY <1>4, JoinedIs
<1> HIDE DEF p
<1>6. Len(p) = 14 /\ \A i \in Nat : 0 < i /\ i <= 6 => p[i] = a[i]
  BY <1>1, <1>2, <1>5 DEF Joined
<1>7. p[3] = 11
  BY <1>2, <1>6
<1>8. Request(p)[7] = 11 /\ Len(Request(p)) = 20
  <2>1. Len(p) >= 3 /\ Len(p) + 6 = 20
    BY <1>6
  <2>2. Request(p)[7] = p[3] /\ Len(Request(p)) = Len(p) + 6
    BY <1>4, <2>1, RequestsAre, Zenon
  <2> QED
    BY <1>7, <2>1, <2>2
<1>9. AnnouncesItsPayload(Aa55WriteMulti(offset, z))
  BY <1>3, <1>8 DEF AnnouncesItsPayload
<1> QED
  BY <1>9 DEF z

LEMMA HalvesAreWords ==
    ASSUME NEW half \in {"H", "L"}, NEW value \in Int, NEW register \in Word
    PROVE  LET written == EncodeHalf(half, value, register)
           IN  written # OverflowError => written[2] \in Word
<1> DEFINE bottom == -128
           top == 127
           byte == value % 256
<1>1. CASE value \in bottom..top
  <2>1. EncodeHalf(half, value, register)[2] =
          IF half = "H" THEN U16(byte, Lo(register)) ELSE U16(Hi(register), byte)
    BY <1>1 DEF EncodeHalf, Value
  <2>2. byte \in Byte
    BY ByteIs
  <2> HIDE DEF byte
  <2>3. Hi(register) \in Byte /\ Lo(register) \in Byte
    BY HalvesOfWord
  <2>4. U16(byte, Lo(register)) \in Word /\ U16(Hi(register), byte) \in Word
    BY <2>2, <2>3, WordOfHalves
  <2> QED
    BY <2>1, <2>4
<1>2. CASE value \notin bottom..top
  BY <1>2 DEF EncodeHalf
<1> QED
  BY <1>1, <1>2

LEMMA RequestsOfInput == InputInv => Aa55RequestsAnnounced
<1> SUFFICES ASSUME InputInv, input.of = "half" PROVE Aa55RequestsAnnounced
  BY DEF Aa55RequestsAnnounced
<1> DEFINE lowest == -129
           highest == 128
<1>1. PICK half \in {"H", "L"}, value \in lowest..highest, register \in Registers :
        input = [of |-> "half", half |-> half, value |-> value, register |-> register]
  BY MadeBy DEF HalfInput
<1>2. input.half = half /\ input.value = value /\ input.register = register
  BY <1>1
<1>3. register \in Word /\ value \in Int
  BY ValuesAssumption
<1> DEFINE written == EncodeHalf(half, value, register)
           w == written[2]
           request == Aa55Write(1800, Signed16(w))
           byte == Lo(register)
           z == [i \in 1..8 |-> byte]
<1>4. SUFFICES /\ AnnouncesItsPayload(Aa55Read(1800, 1)) /\ AnnouncesItsPayload(Aa55Read(1797, 4))
               /\ AnnouncesItsPayload(Aa55WriteMulti(1797, z))
               /\ written # OverflowError =>
                    IF w < 32768
                    THEN AnnouncesItsPayload(request[2]) /\ SubSeq(request[2], 11, 12) = <<Hi(w), Lo(w)>>
                    ELSE request = ValueError
  BY <1>2 DEF Aa55RequestsAnnounced
<1>5. byte \in Nat
  <2>1. byte \in Byte
    BY <1>3, HalvesOfWord
  <2> QED
    BY <2>1, ByteIs
<1> HIDE DEF byte
<1>6. AnnouncesItsPayload(Aa55Read(1800, 1)) /\ AnnouncesItsPayload(Aa55Read(1797, 4))
  BY ReadsAnnounced
<1>7. AnnouncesItsPayload(Aa55WriteMulti(1797, z))
  <2> DEFINE at == 1797
  <2>1. at \in Nat
    OBVIOUS
  <2> HIDE DEF at, z
  <2>2. AnnouncesItsPayload(Aa55WriteMulti(at, [i \in 1..8 |-> byte]))
    BY <1>5, <2>1, GroupWritesAnnounced
  <2> QED
    BY <2>2 DEF at, z
<1>8. ASSUME written # OverflowError
      PROVE  IF w < 32768
             THEN AnnouncesItsPayload(request[2]) /\ SubSeq(request[2], 11, 12) = <<Hi(w), Lo(w)>>
             ELSE request = ValueError
  <2>1. w \in Word
    BY <1>3, <1>8, HalvesAreWords
  <2> HIDE DEF w
  <2>2. w \in Int /\ 0 <= w /\ w <= 65535
    BY <2>1, WordIs
  <2>3. CASE w < 32768
    <3> DEFINE at == 1800
               c == Request(<<2, 57, 5, Hi(at), Lo(at), 1, Hi(w), Lo(w)>>)
    <3>1. Signed16(w) = w /\ w \in Nat /\ at \in Nat
      BY <2>2, <2>3 DEF Signed16
    <3>2. request = Aa55Write(at, w)
      BY <3>1
    <3> HIDE DEF at, request
    <3>3. Aa55Write(at, w) = Value(c) /\ AnnouncesItsPayload(c) /\ SubSeq(c, 11, 12) = <<Hi(w), Lo(w)>>
      BY <3>1, WritesAnnounced, Zenon
    <3> HIDE DEF c
    <3>4. request[2] = c
      BY <3>2, <3>3 DEF Value
    <3> QED
      BY <2>3, <3>3, <3>4
  <2>4. CASE ~(w < 32768)
    <3>1. Signed16(w) < 0
      BY <2>2, <2>4 DEF Signed16
    <3>2. request = ValueError
      BY <3>1 DEF Aa55Write
    <3> QED
      BY <2>4, <3>2
  <2> QED
    BY <2>3, <2>4
<1> QED
  BY <1>6, <1>7, <1>8

\* An AA55 answer of any payload is accepted whole, of its own type and with a sum below
\* 0x8000, and its payload is what was sent; requests announce what they carry.
THEOREM FramesOfEsAgree == Spec => []Aa55FramesAgree
<1>1. InputInv => Aa55FramesAgree
  BY Aa55Judged, RequestsOfInput DEF Aa55FramesAgree
<1> QED
  BY <1>1, InputsAreTheActions, PTL

-----------------------------------------------------------------------------
(* Values of two registers *)

\* A number other than 0 has a bit set, and the position of a bit is below 16.
LEMMA SomeBit ==
    ASSUME NEW w \in Nat, w # 0, w <= 65535
    PROVE  \E i \in Positions : Bit(w, i) = 1
<1> SUFFICES ASSUME \A i \in Positions : Bit(w, i) # 1 PROVE FALSE
  OBVIOUS
<1>0. \A i \in Positions : Bit(w, i) = 0
  <2>1. \A v \in Nat : v % 2 = 0 \/ v % 2 = 1
    OBVIOUS
  <2>2. /\ w \div 2 \in Nat /\ w \div 4 \in Nat /\ w \div 8 \in Nat /\ w \div 16 \in Nat /\ w \div 32 \in Nat
        /\ w \div 64 \in Nat /\ w \div 128 \in Nat /\ w \div 256 \in Nat /\ w \div 512 \in Nat
        /\ w \div 1024 \in Nat /\ w \div 2048 \in Nat /\ w \div 4096 \in Nat /\ w \div 8192 \in Nat
        /\ w \div 16384 \in Nat /\ w \div 32768 \in Nat
    OBVIOUS
  <2>3. \A i \in Positions : Bit(w, i) \in {0, 1}
    BY <2>1, <2>2, PositionIs DEF Bit
  <2> QED
    BY <2>3
<1>1. /\ w % 2 = 0 /\ (w \div 2) % 2 = 0 /\ (w \div 4) % 2 = 0 /\ (w \div 8) % 2 = 0
      /\ (w \div 16) % 2 = 0 /\ (w \div 32) % 2 = 0 /\ (w \div 64) % 2 = 0 /\ (w \div 128) % 2 = 0
      /\ (w \div 256) % 2 = 0 /\ (w \div 512) % 2 = 0 /\ (w \div 1024) % 2 = 0 /\ (w \div 2048) % 2 = 0
      /\ (w \div 4096) % 2 = 0 /\ (w \div 8192) % 2 = 0 /\ (w \div 16384) % 2 = 0 /\ (w \div 32768) % 2 = 0
  <2>1. /\ Bit(w, 0) = 0 /\ Bit(w, 1) = 0 /\ Bit(w, 2) = 0 /\ Bit(w, 3) = 0 /\ Bit(w, 4) = 0 /\ Bit(w, 5) = 0
        /\ Bit(w, 6) = 0 /\ Bit(w, 7) = 0 /\ Bit(w, 8) = 0 /\ Bit(w, 9) = 0 /\ Bit(w, 10) = 0 /\ Bit(w, 11) = 0
        /\ Bit(w, 12) = 0 /\ Bit(w, 13) = 0 /\ Bit(w, 14) = 0 /\ Bit(w, 15) = 0
    <3>1. /\ 0 \in Positions /\ 1 \in Positions /\ 2 \in Positions /\ 3 \in Positions
          /\ 4 \in Positions /\ 5 \in Positions /\ 6 \in Positions /\ 7 \in Positions
          /\ 8 \in Positions /\ 9 \in Positions /\ 10 \in Positions /\ 11 \in Positions
          /\ 12 \in Positions /\ 13 \in Positions /\ 14 \in Positions /\ 15 \in Positions
      BY PositionIs
    <3> QED
      BY <1>0, <3>1
  <2>2. /\ Bit(w, 0) = w % 2 /\ Bit(w, 1) = (w \div 2) % 2
        /\ Bit(w, 2) = (w \div 4) % 2 /\ Bit(w, 3) = (w \div 8) % 2
        /\ Bit(w, 4) = (w \div 16) % 2 /\ Bit(w, 5) = (w \div 32) % 2
        /\ Bit(w, 6) = (w \div 64) % 2 /\ Bit(w, 7) = (w \div 128) % 2
    BY DEF Bit
  <2>3. /\ Bit(w, 8) = (w \div 256) % 2 /\ Bit(w, 9) = (w \div 512) % 2
        /\ Bit(w, 10) = (w \div 1024) % 2 /\ Bit(w, 11) = (w \div 2048) % 2
        /\ Bit(w, 12) = (w \div 4096) % 2 /\ Bit(w, 13) = (w \div 8192) % 2
        /\ Bit(w, 14) = (w \div 16384) % 2 /\ Bit(w, 15) = (w \div 32768) % 2
    BY DEF Bit
  <2> QED
    BY <2>1, <2>2, <2>3
<1>2. w = 2 * (w \div 2)
  BY <1>1
<1>3. w \div 2 = 2 * (w \div 4)
  BY <1>1
<1>4. w \div 4 = 2 * (w \div 8)
  BY <1>1
<1>5. w \div 8 = 2 * (w \div 16)
  BY <1>1
<1>6. w \div 16 = 2 * (w \div 32)
  BY <1>1
<1>7. w \div 32 = 2 * (w \div 64)
  BY <1>1
<1>8. w \div 64 = 2 * (w \div 128)
  BY <1>1
<1>9. w \div 128 = 2 * (w \div 256)
  BY <1>1
<1>10. w \div 256 = 2 * (w \div 512)
  BY <1>1
<1>11. w \div 512 = 2 * (w \div 1024)
  BY <1>1
<1>12. w \div 1024 = 2 * (w \div 2048)
  BY <1>1
<1>13. w \div 2048 = 2 * (w \div 4096)
  BY <1>1
<1>14. w \div 4096 = 2 * (w \div 8192)
  BY <1>1
<1>15. w \div 8192 = 2 * (w \div 16384)
  BY <1>1
<1>16. w \div 16384 = 2 * (w \div 32768)
  BY <1>1
<1>17. w \div 32768 = 0
  BY <1>1
<1> QED
  BY <1>2, <1>3, <1>4, <1>5, <1>6, <1>7, <1>8, <1>9, <1>10, <1>11, <1>12, <1>13, <1>14, <1>15, <1>16, <1>17

LEMMA BitsOfWord ==
    ASSUME NEW w \in Word
    PROVE  /\ \A i \in Bits(w) : i \in Int /\ 0 <= i /\ i <= 15
           /\ w # 0 => Bits(w) # {}
<1>1. w \in Nat /\ w <= 65535
  BY WordIs
<1>2. Bits(w) = {i \in Positions : Bit(w, i) = 1}
  BY <1>1, BitsAre
<1>3. \A i \in Positions : i \in Int /\ 0 <= i /\ i <= 15
  BY PositionIs
<1> QED
  BY <1>1, <1>2, <1>3, SomeBit

\* The grid mode of the high register is that of the power but for small powers.
LEMMA GridModes ==
    ASSUME NEW high \in Word, NEW low \in Word
    PROVE  LET power == Signed16(high) * 65536 + low
           IN  GridInOut(high, low) = GridMode(power) <=>
                 power \in -90..89 \/ Signed16(high) \notin -90..89
<1> DEFINE s == Signed16(high)
           power == s * 65536 + low
           bottom == -90
           top == 89
           near == GridMode(power)
           far == GridMode(s)
<1>1. s \in Int /\ low \in Int /\ 0 <= low /\ low <= 65535
  BY SignedFacts, WordIs
<1>2. GridInOut(high, low) = far
  BY DEF GridInOut
<1> HIDE DEF s
<1>3. power \in Int /\ bottom \in Int /\ top \in Int /\ bottom = -90 /\ top = 89
  BY <1>1
<1>4. /\ s > 89 => power > 89
      /\ s < -90 => power < -90
  BY <1>1
<1>5. /\ near = IF power < -90 THEN 2 ELSE IF power >= 90 THEN 1 ELSE 0
      /\ far = IF s < -90 THEN 2 ELSE IF s >= 90 THEN 1 ELSE 0
  BY DEF GridMode
<1> HIDE DEF power, bottom, top, near, far
<1>6. /\ power \in bottom..top <=> -90 <= power /\ power <= 89
      /\ s \in bottom..top <=> -90 <= s /\ s <= 89
  BY <1>1, <1>3, Between
<1>7. far = near <=> power \in bottom..top \/ s \notin bottom..top
  BY <1>1, <1>3, <1>4, <1>5, <1>6
<1> QED
  BY <1>2, <1>7 DEF s, power, bottom, top, near, far

LEMMA LabelsOfTwo ==
    ASSUME NEW high \in Word, NEW low \in Word
    PROVE  LET unset == high = 65535 /\ low = 65535
           IN  ReadBitmap22(high, low) = ReadBitmap4(high, low) <=> unset \/ (low = 0 /\ high # 65535)
<1> DEFINE all == 65535
           h == AllOnesAsZero(high)
           l == AllOnesAsZero(low)
           two == ReadBitmap22(high, low)
           four == ReadBitmap4(high, low)
           moved == {i + 16 + l : i \in Bits(h)}
           shifted == {i + 16 : i \in Bits(high)}
<1>1. two = ShownBits(moved) /\ four = IF high = all /\ low = all THEN {} ELSE ShownBits(Bits(low) \union shifted)
  BY DEF ReadBitmap22, ReadBitmap4
<1>2. /\ h = IF high = all THEN 0 ELSE high
      /\ l = IF low = all THEN 0 ELSE low
  BY DEF AllOnesAsZero
<1>3. all # 0 /\ all \in Word
  BY WordIs
<1>4. high \in Int /\ 0 <= high /\ low \in Int /\ 0 <= low
  BY WordIs
<1> HIDE DEF all, h, l, two, four
<1>5. CASE high = all /\ low = all
  <2>1. h = 0 /\ moved = {}
    BY <1>2, <1>5, NoBits
  <2>2. two = {}
    BY <1>1, <2>1 DEF ShownBits
  <2>3. two = four
    BY <1>1, <1>5, <2>2
  <2> QED
    BY <1>5, <2>3 DEF all, two, four
<1>6. CASE low = 0 /\ high # all
  <2>1. l = 0 /\ h = high
    BY <1>2, <1>3, <1>6
  <2>2. moved = shifted
    <3>1. \A i \in Bits(high) : i + 16 + l = i + 16
      BY <2>1, BitsOfWord
    <3> QED
      BY <2>1, <3>1
  <2>3. Bits(low) \union shifted = shifted
    BY <1>6, NoBits
  <2>4. two = four
    BY <1>1, <1>3, <1>6, <2>2, <2>3
  <2> QED
    BY <1>6, <2>4 DEF all, two, four
<1>7. CASE low = 0 /\ high = all
  <2>1. h = 0 /\ moved = {}
    BY <1>2, <1>7, NoBits
  <2>2. two = {}
    BY <1>1, <2>1 DEF ShownBits
  <2>3. PICK i \in Bits(high) : TRUE
    BY <1>3, <1>7, BitsOfWord
  <2>4. i + 16 \in ShownBits(Bits(low) \union shifted)
    <3>1. i \in Int /\ 0 <= i /\ i <= 15
      BY BitsOfWord
    <3>2. i + 16 \in 0..31
      BY <3>1
    <3> QED
      BY <3>2 DEF ShownBits
  <2>5. two # four
    BY <1>1, <1>3, <1>7, <2>2, <2>4
  <2> QED
    BY <1>3, <1>7, <2>5 DEF all, two, four
<1>8. CASE low # 0 /\ ~(high = all /\ low = all)
  <2>1. PICK i \in Bits(low) : TRUE
    BY <1>8, BitsOfWord
  <2>2. i \in Int /\ 0 <= i /\ i <= 15
    BY BitsOfWord
  <2>3. i \in four
    <3>1. i \in 0..31
      BY <2>2
    <3> QED
      BY <1>1, <1>8, <3>1 DEF ShownBits
  <2>4. i \notin two
    <3>1. h \in Word /\ l \in Int /\ 0 <= l
      BY <1>2, <1>4, WordIs
    <3>2. \A j \in Bits(h) : j + 16 + l # i
      <4> TAKE j \in Bits(h)
      <4>1. j \in Int /\ 0 <= j
        BY <3>1, BitsOfWord
      <4> QED
        BY <2>2, <3>1, <4>1
    <3>3. i \notin moved
      BY <3>2
    <3> QED
      BY <1>1, <3>3 DEF ShownBits
  <2>5. two # four
    BY <2>3, <2>4
  <2> QED
    BY <1>8, <2>5 DEF all, two, four
<1> QED
  BY <1>5, <1>6, <1>7, <1>8

\* Whatever two registers hold, a label made of two registers is that of the four bytes
\* exactly when the low one is clear or both are unset, and grid_in_out is right
\* exactly for powers too small to count or beyond 90 * 65536 W.
THEOREM WideValuesAreRead == Spec => []WideValuesRead
<1>1. InputInv => WideValuesRead
  <2> SUFFICES ASSUME InputInv, input.of = "label" PROVE WideValuesRead
    BY DEF WideValuesRead
  <2>1. PICK high \in Registers, low \in Registers : input = [of |-> "label", high |-> high, low |-> low]
    BY MadeBy DEF LabelInput
  <2>2. input.high = high /\ input.low = low
    BY <2>1
  <2>3. high \in Word /\ low \in Word
    BY ValuesAssumption
  <2> QED
    BY <2>2, <2>3, GridModes, LabelsOfTwo DEF WideValuesRead
<1> QED
  BY <1>1, InputsAreTheActions, PTL
=============================================================================
