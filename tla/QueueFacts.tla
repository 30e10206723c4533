----------------------------- MODULE QueueFacts -----------------------------
(***************************************************************************)
(* What the steps of a queue do to its entries: the head is popped, and    *)
(* entries are put behind.  The event loop's callbacks and the waiters of  *)
(* asyncio.Lock are such queues.                                           *)
(***************************************************************************)
EXTENDS Queues, TLAPS, SequenceTheorems

\* Popping the head: what occurs in the rest.
LEMMA TailFacts ==
    ASSUME NEW S, NEW s \in Seq(S), s # <<>>
    PROVE  /\ Tail(s) \in Seq(S)
           /\ Head(s) \in S
           /\ Occurs(Head(s), s)
           /\ \A x : Occurs(x, Tail(s)) => Occurs(x, s)
           /\ \A x : AtMostOnce(x, s) => AtMostOnce(x, Tail(s))
           /\ \A x : AtMostOnce(x, s) /\ x = Head(s) => ~Occurs(x, Tail(s))
           /\ \A x : x # Head(s) /\ Occurs(x, s) => Occurs(x, Tail(s))
<1> USE DEF Occurs, AtMostOnce
<1>1. /\ Tail(s) \in Seq(S) /\ Head(s) \in S /\ Head(s) = s[1]
      /\ Len(s) \in Nat \ {0} /\ DOMAIN s = 1..Len(s)
      /\ DOMAIN Tail(s) = 1..(Len(s) - 1)
      /\ \A i \in 1..(Len(s) - 1) : Tail(s)[i] = s[i + 1]
  BY HeadTailProperties, LenProperties, EmptySeq
<1>2. ASSUME NEW x, Occurs(x, Tail(s)) PROVE Occurs(x, s)
  <2>1. PICK i \in 1..(Len(s) - 1) : s[i + 1] = x
    BY <1>1, <1>2
  <2> QED
    BY <1>1, <2>1
<1>3. ASSUME NEW x, AtMostOnce(x, s) PROVE AtMostOnce(x, Tail(s))
  <2> SUFFICES ASSUME NEW i \in 1..(Len(s) - 1), NEW j \in 1..(Len(s) - 1),
                      s[i + 1] = x, s[j + 1] = x
               PROVE  i = j
    BY <1>1
  <2>1. i + 1 \in DOMAIN s /\ j + 1 \in DOMAIN s
    BY <1>1
  <2> QED
    BY <1>3, <2>1
<1>4. ASSUME NEW x, AtMostOnce(x, s), x = Head(s), Occurs(x, Tail(s)) PROVE FALSE
  <2>1. PICK i \in 1..(Len(s) - 1) : s[i + 1] = x
    BY <1>1, <1>4
  <2>2. i + 1 \in DOMAIN s /\ 1 \in DOMAIN s /\ s[1] = x
    BY <1>1, <1>4
  <2>3. i + 1 = 1
    BY <1>4, <2>1, <2>2
  <2> QED
    BY <2>3
<1>5. ASSUME NEW x, x # Head(s), Occurs(x, s) PROVE Occurs(x, Tail(s))
  <2>1. PICK i \in 1..Len(s) : s[i] = x
    BY <1>1, <1>5
  <2>2. i - 1 \in 1..(Len(s) - 1) /\ Tail(s)[i - 1] = x
    BY <1>1, <1>5, <2>1
  <2> QED
    BY <1>1, <2>2
<1>6. Occurs(Head(s), s)
  BY <1>1
<1> QED
  BY <1>1, <1>2, <1>3, <1>4, <1>5, <1>6

\* Queueing more behind: what occurs in the whole.
LEMMA ConcatFacts ==
    ASSUME NEW S, NEW s \in Seq(S), NEW t \in Seq(S)
    PROVE  /\ s \o t \in Seq(S)
           /\ \A x : Occurs(x, s \o t) <=> Occurs(x, s) \/ Occurs(x, t)
           /\ \A x : /\ AtMostOnce(x, s) /\ AtMostOnce(x, t)
                     /\ ~(Occurs(x, s) /\ Occurs(x, t))
                     => AtMostOnce(x, s \o t)
<1>1. /\ s \o t \in Seq(S)
      /\ Len(s) \in Nat /\ Len(t) \in Nat
      /\ DOMAIN s = 1..Len(s) /\ DOMAIN t = 1..Len(t)
      /\ DOMAIN (s \o t) = 1..(Len(s) + Len(t))
      /\ \A i \in 1..(Len(s) + Len(t)) :
            (s \o t)[i] = IF i <= Len(s) THEN s[i] ELSE t[i - Len(s)]
  BY ConcatProperties, LenProperties
<1> DEFINE whole == s \o t
<1>2. /\ \A i \in DOMAIN s : i \in DOMAIN whole /\ whole[i] = s[i]
      /\ \A i \in DOMAIN t : i + Len(s) \in DOMAIN whole /\ whole[i + Len(s)] = t[i]
  BY <1>1
<1>3. \A i \in DOMAIN whole :
         \/ i \in DOMAIN s /\ whole[i] = s[i]
         \/ i - Len(s) \in DOMAIN t /\ whole[i] = t[i - Len(s)]
  BY <1>1
<1> HIDE DEF whole
<1>4. \A x : Occurs(x, whole) <=> Occurs(x, s) \/ Occurs(x, t)
  BY <1>2, <1>3 DEF Occurs
<1>5. ASSUME NEW x, AtMostOnce(x, s), AtMostOnce(x, t), ~(Occurs(x, s) /\ Occurs(x, t)),
             NEW i \in DOMAIN whole, NEW j \in DOMAIN whole, whole[i] = x, whole[j] = x
      PROVE  i = j
  <2>1. CASE i \in DOMAIN s /\ s[i] = x /\ j \in DOMAIN s /\ s[j] = x
    BY <1>5, <2>1 DEF AtMostOnce
  <2>2. CASE /\ i - Len(s) \in DOMAIN t /\ t[i - Len(s)] = x
             /\ j - Len(s) \in DOMAIN t /\ t[j - Len(s)] = x
    <3>1. i - Len(s) = j - Len(s)
      BY <1>5, <2>2 DEF AtMostOnce
    <3>2. i \in Nat /\ j \in Nat
      BY <1>1 DEF whole
    <3> QED
      BY <1>1, <3>1, <3>2
  <2> QED
    BY <1>3, <1>5, <2>1, <2>2 DEF Occurs
<1> QED
  BY <1>1, <1>4, <1>5 DEF AtMostOnce, whole

\* The sequences that are appended have at most one entry.
LEMMA ShortFacts ==
    ASSUME NEW S
    PROVE  /\ <<>> \in Seq(S)
           /\ \A x : ~Occurs(x, <<>>) /\ AtMostOnce(x, <<>>)
           /\ \A x \in S : <<x>> \in Seq(S)
           /\ \A x, y : (Occurs(x, <<y>>) <=> x = y) /\ AtMostOnce(x, <<y>>)
  BY DEF Occurs, AtMostOnce

\* Queueing one callback.
LEMMA PushFacts ==
    ASSUME NEW S, NEW s \in Seq(S), NEW x \in S
    PROVE  /\ s \o <<x>> \in Seq(S) /\ Append(s, x) = s \o <<x>>
           /\ \A y : Occurs(y, s \o <<x>>) <=> Occurs(y, s) \/ y = x
           /\ \A y : AtMostOnce(y, s) /\ ~(y = x /\ Occurs(y, s)) => AtMostOnce(y, s \o <<x>>)
<1>1. <<x>> \in Seq(S) /\ \A y : (Occurs(y, <<x>>) <=> y = x) /\ AtMostOnce(y, <<x>>)
  BY ShortFacts
<1>2. /\ s \o <<x>> \in Seq(S)
      /\ \A y : Occurs(y, s \o <<x>>) <=> Occurs(y, s) \/ Occurs(y, <<x>>)
      /\ \A y : /\ AtMostOnce(y, s) /\ AtMostOnce(y, <<x>>)
                /\ ~(Occurs(y, s) /\ Occurs(y, <<x>>))
                => AtMostOnce(y, s \o <<x>>)
  BY <1>1, ConcatFacts
<1> QED
  BY <1>1, <1>2, AppendIsConcat

LEMMA AppendFacts ==
    ASSUME NEW S, NEW s \in Seq(S), NEW x \in S
    PROVE  /\ Append(s, x) \in Seq(S)
           /\ \A y : Occurs(y, Append(s, x)) <=> Occurs(y, s) \/ y = x
           /\ \A y : AtMostOnce(y, s) /\ ~(y = x /\ Occurs(y, s))
                        => AtMostOnce(y, Append(s, x))
<1>1. Append(s, x) = s \o <<x>>
  BY AppendIsConcat
<1> QED
  BY <1>1, PushFacts
=============================================================================
