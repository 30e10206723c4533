----------------------------- MODULE TcpProofs -----------------------------
(***************************************************************************)
(* TcpProtocol, for any number of coroutines, commands, retries and        *)
(* segments.  Its types, the lock (LockInv), the connection (LinkInv) and  *)
(* the callbacks that end each wait (StepComes) are inductive together:    *)
(* the waiter that leaves the lock's queue, and the segment the reader     *)
(* takes, are there because the loop's queue agrees with them.             *)
(***************************************************************************)
EXTENDS TcpService, QueueFacts, WellFoundedInduction

-----------------------------------------------------------------------------
(* Callbacks. *)

\* The callbacks that step a coroutine, and those that do not.
Steps == UNION {{Wake(c), Probe(c), Opened(c), Released(c)} : c \in Callers}
Neutral == {Read, Lost} \cup {Due(t) : t \in TimerIds}

LEMMA CallbackFacts ==
    /\ \A c \in Callers : {Wake(c), Probe(c), Opened(c), Released(c)} \subseteq Callbacks \cap Steps
    /\ \A x \in Steps : \E c \in Callers : x \in {Wake(c), Probe(c), Opened(c), Released(c)}
    /\ Read \in Callbacks /\ Lost \in Callbacks /\ Read # Lost
    /\ \A t \in TimerIds : Due(t) \in Callbacks /\ Due(t) \notin {Read, Lost}
    /\ Read \notin Steps /\ Lost \notin Steps /\ \A t : Due(t) \notin Steps
    /\ \A c, d : /\ Wake(c) = Wake(d) => c = d
                 /\ Probe(c) = Probe(d) => c = d
                 /\ Opened(c) = Opened(d) => c = d
                 /\ Released(c) = Released(d) => c = d
                 /\ Wake(c) \notin {Probe(d), Opened(d), Released(d)}
                 /\ Probe(c) \notin {Opened(d), Released(d)}
                 /\ Opened(c) # Released(d)
<1>1. /\ \A c : /\ Wake(c).do = "wake" /\ Probe(c).do = "probe" /\ Due(c).do = "timer"
                /\ Opened(c).do = "opened" /\ Released(c).do = "released"
                /\ Wake(c).of = c /\ Probe(c).of = c /\ Opened(c).of = c /\ Released(c).of = c
      /\ Read.do = "read" /\ Lost.do = "lost"
  BY DEF Callback, Wake, Probe, Opened, Released, Due, Read, Lost
<1>2. \A c \in Callers : {Wake(c), Probe(c), Opened(c), Released(c)} \subseteq Callbacks
  BY DEF Callbacks, Callback, Wake, Probe, Opened, Released
<1>3. /\ \A t \in TimerIds : Due(t) \in Callbacks
      /\ Read \in Callbacks /\ Lost \in Callbacks
  BY Zenon DEF Callbacks
<1>4. /\ \A c \in Callers : {Wake(c), Probe(c), Opened(c), Released(c)} \subseteq Steps
      /\ \A x \in Steps : \E c \in Callers : x \in {Wake(c), Probe(c), Opened(c), Released(c)}
  BY Zenon DEF Steps
<1>5. ASSUME NEW x \in Steps PROVE x.do \in {"wake", "probe", "opened", "released"}
  <2>1. PICK c \in Callers : x \in {Wake(c), Probe(c), Opened(c), Released(c)}
    BY <1>4
  <2>2. \/ x.do = Wake(c).do \/ x.do = Probe(c).do
        \/ x.do = Opened(c).do \/ x.do = Released(c).do
    BY <2>1
  <2> QED
    BY <1>1, <2>2
<1>6. \A c \in Callers : {Wake(c), Probe(c), Opened(c), Released(c)} \subseteq Callbacks \cap Steps
  BY <1>2, <1>4
<1>7. /\ \A t \in TimerIds : Due(t) \notin {Read, Lost}
      /\ Read # Lost /\ Read \notin Steps /\ Lost \notin Steps /\ \A t : Due(t) \notin Steps
  BY <1>1, <1>5
<1>8. \A c, d : /\ Wake(c) = Wake(d) => c = d
                /\ Probe(c) = Probe(d) => c = d
                /\ Opened(c) = Opened(d) => c = d
                /\ Released(c) = Released(d) => c = d
                /\ Wake(c) \notin {Probe(d), Opened(d), Released(d)}
                /\ Probe(c) \notin {Opened(d), Released(d)}
                /\ Opened(c) # Released(d)
  BY <1>1
<1> QED
  BY <1>3, <1>4, <1>6, <1>7, <1>8

LEMMA NeutralFacts ==
    /\ Neutral \subseteq Callbacks
    /\ \A x \in Neutral : x \notin Steps /\ \A c : x # Opened(c) /\ x # Wake(c)
<1>1. Neutral \subseteq Callbacks /\ \A x \in Neutral : x \notin Steps
  BY CallbackFacts DEF Neutral
<1>2. \A c : /\ Opened(c).do = "opened" /\ Wake(c).do = "wake" /\ Due(c).do = "timer"
             /\ Read.do = "read" /\ Lost.do = "lost"
  BY DEF Callback, Wake, Opened, Due, Read, Lost
<1> QED
  BY <1>1, <1>2 DEF Neutral

-----------------------------------------------------------------------------
(* The loop's queue. *)

\* What every queue the loop ever holds satisfies.
WellQueued(s) ==
    /\ s \in Seq(Callbacks) /\ InOrder(s) /\ AtMostOnce(Read, s)
    /\ \A x \in Steps : AtMostOnce(x, s)

LEMMA ReadyWellQueued ==
    ASSUME TypeOK, LockInv, LinkInv
    PROVE  WellQueued(ready)
<1>1. ASSUME NEW x \in Steps PROVE AtMostOnce(x, ready)
  <2>1. PICK c \in Callers : x \in {Wake(c), Probe(c), Opened(c), Released(c)}
    BY CallbackFacts
  <2> QED
    BY <2>1, Zenon DEF LockInv, StepsOnce
<1> QED
  BY <1>1 DEF TypeOK, LinkInv, WellQueued

\* Popping a callback.
LEMMA PopQueue ==
    ASSUME NEW s, WellQueued(s), s # <<>>
    PROVE  /\ WellQueued(Tail(s)) /\ Head(s) \in Callbacks
           /\ Occurs(Head(s), s)
           /\ \A x : Occurs(x, Tail(s)) => Occurs(x, s)
           /\ \A x : x # Head(s) /\ Occurs(x, s) => Occurs(x, Tail(s))
           /\ Head(s) \in Steps \cup {Read} => ~Occurs(Head(s), Tail(s))
           /\ \A c \in Callers : Head(s) = Opened(c) => ~Occurs(Lost, s) /\ ~Occurs(Read, s)
<1>1. /\ s \in Seq(Callbacks) /\ Len(s) \in Nat \ {0} /\ DOMAIN s = 1..Len(s) /\ s[1] = Head(s)
      /\ DOMAIN Tail(s) = 1..(Len(s) - 1)
      /\ \A i \in 1..(Len(s) - 1) : Tail(s)[i] = s[i + 1]
  BY HeadTailProperties, LenProperties, EmptySeq DEF WellQueued
<1>2. /\ Tail(s) \in Seq(Callbacks) /\ Head(s) \in Callbacks /\ Occurs(Head(s), s)
      /\ \A x : Occurs(x, Tail(s)) => Occurs(x, s)
      /\ \A x : AtMostOnce(x, s) => AtMostOnce(x, Tail(s))
      /\ \A x : AtMostOnce(x, s) /\ x = Head(s) => ~Occurs(x, Tail(s))
      /\ \A x : x # Head(s) /\ Occurs(x, s) => Occurs(x, Tail(s))
  BY <1>1, TailFacts
<1>3. InOrder(Tail(s))
  <2> SUFFICES ASSUME NEW i \in 1..(Len(s) - 1), NEW j \in 1..(Len(s) - 1), NEW c \in Callers,
                      s[i + 1] \in {Lost, Read}, s[j + 1] = Opened(c)
               PROVE  i < j
    BY <1>1 DEF InOrder
  <2>1. i + 1 \in DOMAIN s /\ j + 1 \in DOMAIN s
    BY <1>1
  <2>2. i + 1 < j + 1
    BY <2>1 DEF WellQueued, InOrder
  <2> QED
    BY <1>1, <2>2
<1>4. ASSUME NEW c \in Callers, Head(s) = Opened(c), NEW x \in {Lost, Read}, Occurs(x, s)
      PROVE  FALSE
  <2>1. PICK i \in DOMAIN s : s[i] = x
    BY <1>4 DEF Occurs
  <2>2. 1 \in DOMAIN s /\ s[1] = Opened(c)
    BY <1>1, <1>4
  <2>3. i < 1
    BY <2>1, <2>2 DEF WellQueued, InOrder
  <2> QED
    BY <1>1, <2>3
<1> QED
  BY <1>2, <1>3, <1>4 DEF WellQueued

\* Queueing a callback that is not queued yet; those of a connection only while
\* no other is to be opened.
LEMMA PushQueue ==
    ASSUME NEW s, WellQueued(s), NEW x \in Callbacks,
           x \in Steps \cup {Read} => ~Occurs(x, s),
           x \in {Lost, Read} => \A c \in Callers : ~Occurs(Opened(c), s)
    PROVE  /\ WellQueued(s \o <<x>>) /\ Append(s, x) = s \o <<x>>
           /\ \A y : Occurs(y, s \o <<x>>) <=> Occurs(y, s) \/ y = x
<1> DEFINE whole == s \o <<x>>
<1>1. /\ s \in Seq(Callbacks) /\ Append(s, x) = whole /\ whole \in Seq(Callbacks)
      /\ Len(s) \in Nat /\ DOMAIN s = 1..Len(s)
      /\ DOMAIN whole = 1..(Len(s) + 1)
      /\ \A i \in 1..(Len(s) + 1) : whole[i] = IF i <= Len(s) THEN s[i] ELSE x
  BY AppendIsConcat, ConcatProperties, LenProperties DEF WellQueued
<1>2. /\ \A y : Occurs(y, whole) <=> Occurs(y, s) \/ y = x
      /\ \A y : AtMostOnce(y, s) /\ ~(y = x /\ Occurs(y, s)) => AtMostOnce(y, whole)
  BY <1>1, PushFacts
<1> HIDE DEF whole
<1>3. ASSUME NEW i \in DOMAIN whole, NEW j \in DOMAIN whole, NEW c \in Callers,
             whole[i] \in {Lost, Read}, whole[j] = Opened(c)
      PROVE  i < j
  <2>0. /\ i \in Nat /\ j \in Nat /\ i <= Len(s) + 1 /\ j <= Len(s) + 1
        /\ Opened(c) \notin {Lost, Read}
    BY <1>1, CallbackFacts
  <2>1. CASE i <= Len(s) /\ j <= Len(s)
    <3>1. i \in DOMAIN s /\ j \in DOMAIN s /\ s[i] \in {Lost, Read} /\ s[j] = Opened(c)
      BY <1>1, <1>3, <2>0, <2>1
    <3> QED
      BY <3>1 DEF WellQueued, InOrder
  <2>2. CASE i = Len(s) + 1 /\ j <= Len(s)
    <3>1. x \in {Lost, Read} /\ j \in DOMAIN s /\ s[j] = Opened(c)
      BY <1>1, <1>3, <2>0, <2>2
    <3> QED
      BY <3>1 DEF Occurs
  <2>3. CASE i <= Len(s) /\ j = Len(s) + 1
    BY <1>1, <2>0, <2>3
  <2>4. CASE i = Len(s) + 1 /\ j = Len(s) + 1
    BY <1>1, <1>3, <2>0, <2>4
  <2> QED
    BY <1>1, <2>0, <2>1, <2>2, <2>3, <2>4
<1>4. \A y \in Steps \cup {Read} : AtMostOnce(y, whole)
  BY <1>2 DEF WellQueued
<1> QED
  BY <1>1, <1>2, <1>3, <1>4 DEF InOrder, WellQueued, whole

-----------------------------------------------------------------------------
(* What the handlers append to the queue. *)

\* Somebody awaits the future in flight.
OwnerWaits == InFlight /\ fut[owner] = Pending

\* A pending future is in flight, its owner has not been woken yet.
LEMMA OwnerFacts ==
    ASSUME TypeOK, LockInv
    PROVE  /\ OwnerWaits => /\ owner \in Callers /\ pc[owner] = "awaiting" /\ ~Queued(Wake(owner))
                            /\ WakeOwner = <<Wake(owner)>>
           /\ ~OwnerWaits => WakeOwner = <<>>
           /\ \A c \in Callers : fut[c] = Pending <=> OwnerWaits /\ c = owner
<1>1. OwnerWaits => owner \in Callers
  BY DEF TypeOK, OwnerWaits, InFlight
<1>2. \A c \in Callers : fut[c] = Pending => OwnerWaits /\ c = owner
  BY TcpConstants DEF LockInv, FutureBelongsToWaiter, OwnerWaits, InFlight
<1>3. OwnerWaits => pc[owner] = "awaiting" /\ ~Queued(Wake(owner))
  BY <1>1 DEF LockInv, FutureBelongsToWaiter, StepsOnce, OwnerWaits
<1> QED
  BY <1>1, <1>2, <1>3 DEF OwnerWaits, WakeOwner

LEMMA JoinOwner ==
    ASSUME TypeOK, LockInv, NEW s, WellQueued(s),
           \A c \in Callers : Occurs(Wake(c), s) => Queued(Wake(c))
    PROVE  /\ WellQueued(s \o WakeOwner)
           /\ \A y : Occurs(y, s \o WakeOwner) <=> Occurs(y, s) \/ (OwnerWaits /\ y = Wake(owner))
<1>1. CASE OwnerWaits
  BY <1>1, OwnerFacts, PushQueue, CallbackFacts
<1>2. CASE ~OwnerWaits
  <2>1. s \o WakeOwner = s
    BY <1>2, OwnerFacts, ConcatEmptySeq DEF WellQueued
  <2> QED
    BY <1>2, <2>1
<1> QED
  BY <1>1, <1>2

\* connection_lost is queued for an open transport, when no other is to come.
LEMMA JoinLost ==
    ASSUME LockInv, LinkInv, NEW s, WellQueued(s),
           \A c \in Callers : Occurs(Opened(c), s) => Queued(Opened(c))
    PROVE  /\ WellQueued(s \o LostIfOpen)
           /\ \A y : Occurs(y, s \o LostIfOpen) <=> Occurs(y, s) \/ (transport = "open" /\ y = Lost)
<1>1. CASE transport = "open"
  <2>1. \A c \in Callers : ~Occurs(Opened(c), s)
    BY <1>1 DEF LinkInv, OpenIsUsable, LockInv, StepsOnce
  <2> QED
    BY <1>1, <2>1, PushQueue, CallbackFacts DEF LostIfOpen
<1>2. CASE transport # "open"
  <2>1. s \o LostIfOpen = s
    BY <1>2, ConcatEmptySeq DEF WellQueued, LostIfOpen
  <2> QED
    BY <1>2, <2>1
<1> QED
  BY <1>1, <1>2

\* The first waiter is not woken twice.
LEMMA JoinNext ==
    ASSUME TypeOK, LockInv, NEW s, WellQueued(s),
           \A c \in Callers : Occurs(Wake(c), s) => Queued(Wake(c))
    PROVE  /\ WellQueued(s \o WakeNext)
           /\ waiters # <<>> => Head(waiters) \in Callers /\ pc[Head(waiters)] \in Locking
           /\ \A y : Occurs(y, s \o WakeNext) <=>
                        Occurs(y, s) \/ (locked /\ waiters # <<>> /\ y = Wake(Head(waiters)))
<1>1. waiters # <<>> => Head(waiters) \in Callers /\ pc[Head(waiters)] \in Locking
  BY TailFacts DEF TypeOK, LockInv, WaitersWait
<1>2. CASE locked /\ waiters # <<>>
  <2>1. ~Occurs(Wake(Head(waiters)), s) /\ Wake(Head(waiters)) \in Callbacks
    BY <1>1, <1>2, CallbackFacts DEF LockInv, WokenIsHead
  <2> QED
    BY <1>1, <1>2, <2>1, PushQueue, CallbackFacts DEF WakeNext
<1>3. CASE ~(locked /\ waiters # <<>>)
  <2>1. s \o WakeNext = s
    BY <1>3, ConcatEmptySeq DEF WellQueued, WakeNext
  <2> QED
    BY <1>1, <1>3, <2>1
<1> QED
  BY <1>2, <1>3

\* Completing the future in flight leaves none pending.
LEMMA Settled ==
    ASSUME TypeOK, LockInv, NEW v \in Futures \ {Pending}
    PROVE  /\ Settle(v) \in [Callers -> Futures]
           /\ \A c \in Callers : Settle(v)[c] # Pending
           /\ \A c \in Callers : ~OwnerWaits => Settle(v)[c] \in {fut[c], Broken}
           /\ \A c \in Callers : OwnerWaits /\ c # owner => Settle(v)[c] = fut[c]
           /\ OwnerWaits => Settle(v)[owner] = v
           /\ ~InFlight => Settle(v) = fut
<1>1. Broken \in Futures /\ Broken # Pending /\ Pending # Stranded
  BY DEF Futures, Broken, Pending, Stranded
<1>2. fut \in [Callers -> Futures] /\ (InFlight => owner \in Callers)
  BY DEF TypeOK, InFlight
<1>3. \A c \in Callers : fut[c] = Pending => OwnerWaits /\ c = owner
  BY OwnerFacts
<1> QED
  BY <1>1, <1>2, <1>3 DEF Settle, OwnerWaits

-----------------------------------------------------------------------------
(* The handlers: they leave the coroutines and the lock alone. *)

\* A handler may complete the future somebody awaits, and then wakes that one.
LEMMA LockKept ==
    ASSUME TypeOK, LockInv, StepComes,
           UNCHANGED <<pc, locked, waiters>>, WellQueued(ready'),
           \A c \in Callers : fut'[c] = Pending => fut[c] = Pending /\ owner' = owner /\ armed' # {},
           \A c \in Callers :
              /\ Occurs(Wake(c), ready') <=>
                    Queued(Wake(c)) \/ (fut[c] = Pending /\ fut'[c] # Pending)
              /\ Occurs(Probe(c), ready') <=> Queued(Probe(c))
              /\ Occurs(Opened(c), ready') <=> Queued(Opened(c))
              /\ Occurs(Released(c), ready') <=> Queued(Released(c))
    PROVE  LockInv' /\ StepComes'
<1>0. \A c \in Callers : Holds(c)' <=> Holds(c)
  BY DEF Holds
<1>1. MutualExclusion'
  BY <1>0 DEF LockInv, MutualExclusion
<1>2. FutureBelongsToWaiter'
  BY DEF LockInv, FutureBelongsToWaiter
<1>3. \A c \in Callers : pc[c] \in Locking => fut[c] # Pending
  BY DEF LockInv, FutureBelongsToWaiter, Locking
<1>4. waiters # <<>> => Head(waiters) \in Callers
  BY TailFacts DEF TypeOK
<1>5. NoLostWakeup' /\ WokenIsHead' /\ WaitersWait'
  BY <1>3, <1>4 DEF LockInv, NoLostWakeup, WokenIsHead, WaitersWait, Queued
<1>6. ASSUME NEW c \in Callers, NEW x \in {Wake(c), Probe(c), Opened(c), Released(c)}
      PROVE  AtMostOnce(x, ready')
  BY <1>6, CallbackFacts DEF WellQueued
<1>7. StepsOnce'
  <2>1. \A c \in Callers : fut[c] = Pending => pc[c] = "awaiting"
    BY DEF LockInv, FutureBelongsToWaiter
  <2> QED
    BY <1>6, <2>1 DEF LockInv, StepsOnce, Queued
<1>8. StepComes'
  BY DEF StepComes, Queued
<1> QED
  BY <1>1, <1>2, <1>5, <1>7, <1>8 DEF LockInv

\* It closes the connection, or leaves it open and not lost.
LEMMA LinkKept ==
    ASSUME LinkInv, WellQueued(ready'), pc' = pc,
           \/ transport' # "open" /\ (transport' # "none" => transport # "none")
           \/ /\ transport = "open" /\ ~Occurs(Lost, ready')
              /\ Occurs(Read, ready') => stream' # <<>>
    PROVE  LinkInv'
  BY DEF LinkInv, WellQueued, OpenIsUsable, WillBeClosed, Queued

\* What its queue starts from.
LEMMA HandlerTail ==
    ASSUME TypeOK, LockInv, LinkInv, ready # <<>>, Head(ready) \in Neutral
    PROVE  /\ WellQueued(Tail(ready))
           /\ \A c \in Callers :
                 /\ Occurs(Wake(c), Tail(ready)) <=> Queued(Wake(c))
                 /\ Occurs(Probe(c), Tail(ready)) <=> Queued(Probe(c))
                 /\ Occurs(Opened(c), Tail(ready)) <=> Queued(Opened(c))
                 /\ Occurs(Released(c), Tail(ready)) <=> Queued(Released(c))
           /\ Occurs(Lost, Tail(ready)) => Queued(Lost)
           /\ Occurs(Read, Tail(ready)) => Queued(Read) /\ Head(ready) # Read
<1>1. WellQueued(ready)
  BY ReadyWellQueued
<1>2. /\ WellQueued(Tail(ready))
      /\ \A x : Occurs(x, Tail(ready)) => Queued(x)
      /\ \A x : x # Head(ready) /\ Queued(x) => Occurs(x, Tail(ready))
      /\ Head(ready) \in Steps \cup {Read} => ~Occurs(Head(ready), Tail(ready))
  BY <1>1, PopQueue DEF Queued
<1>3. ASSUME NEW x \in Steps PROVE Occurs(x, Tail(ready)) <=> Queued(x)
  BY <1>2, NeutralFacts
<1>4. \A c \in Callers : {Wake(c), Probe(c), Opened(c), Released(c)} \subseteq Steps
  BY CallbackFacts
<1> QED
  BY <1>2, <1>3, <1>4

\* A handler that completes the future in flight.
LEMMA HandlerSettles ==
    ASSUME TypeOK, LockInv, LinkInv, StepComes, ready # <<>>, Head(ready) \in Neutral,
           UNCHANGED <<pc, locked, waiters, owner>>,
           NEW v \in Futures \ {Pending}, fut' = Settle(v),
           \/ ready' = Tail(ready) \o WakeOwner
           \/ ready' = Tail(ready) \o WakeOwner \o LostIfOpen
           \/ ready' = Tail(ready) \o LostIfOpen \o WakeOwner
    PROVE  /\ LockInv' /\ StepComes' /\ WellQueued(ready')
           /\ ready' = Tail(ready) \o WakeOwner =>
                 /\ Occurs(Lost, ready') => Queued(Lost)
                 /\ Occurs(Read, ready') => Queued(Read) /\ Head(ready) # Read
<1> DEFINE rest == Tail(ready)
<1>1. /\ WellQueued(rest)
      /\ \A c \in Callers :
            /\ Occurs(Wake(c), rest) <=> Queued(Wake(c))
            /\ Occurs(Probe(c), rest) <=> Queued(Probe(c))
            /\ Occurs(Opened(c), rest) <=> Queued(Opened(c))
            /\ Occurs(Released(c), rest) <=> Queued(Released(c))
      /\ Occurs(Lost, rest) => Queued(Lost)
      /\ Occurs(Read, rest) => Queued(Read) /\ Head(ready) # Read
  BY HandlerTail
<1> HIDE DEF rest
<1>2. /\ WellQueued(rest \o WakeOwner)
      /\ \A y : Occurs(y, rest \o WakeOwner) <=> Occurs(y, rest) \/ (OwnerWaits /\ y = Wake(owner))
  BY <1>1, JoinOwner
<1>3. /\ WellQueued(rest \o LostIfOpen)
      /\ \A y : Occurs(y, rest \o LostIfOpen) <=> Occurs(y, rest) \/ (transport = "open" /\ y = Lost)
  BY <1>1, JoinLost
<1>4. OwnerWaits => owner \in Callers
  BY OwnerFacts
<1>5. /\ WellQueued(rest \o WakeOwner \o LostIfOpen)
      /\ \A y : Occurs(y, rest \o WakeOwner \o LostIfOpen) <=>
                Occurs(y, rest) \/ (OwnerWaits /\ y = Wake(owner)) \/ (transport = "open" /\ y = Lost)
  <2>1. \A c \in Callers : Occurs(Opened(c), rest \o WakeOwner) => Queued(Opened(c))
    BY <1>1, <1>2, <1>4, CallbackFacts
  <2> QED
    BY <1>2, <2>1, JoinLost
<1>6. /\ WellQueued(rest \o LostIfOpen \o WakeOwner)
      /\ \A y : Occurs(y, rest \o LostIfOpen \o WakeOwner) <=>
                Occurs(y, rest) \/ (OwnerWaits /\ y = Wake(owner)) \/ (transport = "open" /\ y = Lost)
  <2>1. \A c \in Callers : Occurs(Wake(c), rest \o LostIfOpen) => Queued(Wake(c))
    BY <1>1, <1>3, CallbackFacts
  <2> QED
    BY <1>3, <2>1, JoinOwner
<1>7. /\ WellQueued(ready')
      /\ \A y : Occurs(y, ready') =>
                Occurs(y, rest) \/ (OwnerWaits /\ y = Wake(owner)) \/ (transport = "open" /\ y = Lost)
      /\ \A y : Occurs(y, rest) \/ (OwnerWaits /\ y = Wake(owner)) => Occurs(y, ready')
  BY <1>2, <1>5, <1>6 DEF rest
<1>8. \A c \in Callers : fut[c] = Pending <=> OwnerWaits /\ c = owner
  BY OwnerFacts
<1>9. \A c \in Callers : fut'[c] # Pending
  BY Settled
<1>10. ASSUME NEW c \in Callers
       PROVE  /\ Occurs(Wake(c), ready') <=>
                     Queued(Wake(c)) \/ (fut[c] = Pending /\ fut'[c] # Pending)
              /\ Occurs(Probe(c), ready') <=> Queued(Probe(c))
              /\ Occurs(Opened(c), ready') <=> Queued(Opened(c))
              /\ Occurs(Released(c), ready') <=> Queued(Released(c))
  <2>1. Lost \notin {Wake(c), Probe(c), Opened(c), Released(c)}
    BY CallbackFacts
  <2> QED
    BY <1>1, <1>4, <1>7, <1>8, <1>9, <2>1, CallbackFacts
<1>11. LockInv' /\ StepComes'
  BY <1>7, <1>9, <1>10, LockKept
<1>12. ASSUME ready' = rest \o WakeOwner
       PROVE  /\ Occurs(Lost, ready') => Queued(Lost)
              /\ Occurs(Read, ready') => Queued(Read) /\ Head(ready) # Read
  <2>1. OwnerWaits => Wake(owner) \notin {Lost, Read}
    BY <1>4, CallbackFacts
  <2> QED
    BY <1>1, <1>2, <1>12, <2>1
<1> QED
  BY <1>7, <1>11, <1>12 DEF rest

-----------------------------------------------------------------------------
(* Each handler. *)

IInv == TypeOK /\ LockInv /\ LinkInv /\ StepComes

LEMMA FutureTypes ==
    /\ {Rejected, Cancelled, Exhausted, Stranded, Broken, NoFuture} \subseteq Futures \ {Pending}
    /\ \A k \in Commands : Answer(k) \in Futures \ {Pending}
    /\ Pending \in Futures
    /\ \A v \in {Rejected, Cancelled, Exhausted, Stranded, Broken, NoFuture} : \A k : v # Answer(k)
    /\ \A j, k : Answer(j) = Answer(k) => j = k
    /\ \A k : Answer(k) # Pending
  BY DEF Futures, Pending, Answer, Rejected, Cancelled, Exhausted, Stranded, Broken, NoFuture

\* Popping a callback that does nothing.
LEMMA StepSkipCancelled ==
    ASSUME IInv, SkipCancelled
    PROVE  IInv'
<1>1. /\ ready # <<>> /\ ready' = Tail(ready) /\ Head(ready) \in Neutral
      /\ transport = "open" => Head(ready) # Read
      /\ UNCHANGED <<pc, callerVars, lockVars, retry, linkVars, exchange, fut, timerVars>>
  BY CallbackFacts DEF SkipCancelled, Runs, Neutral
<1>2. UNCHANGED <<pc, request, frames, calls, locked, waiters, retry, transport, stream,
                  command, owner, partial, fut, timer, armed>>
  BY <1>1 DEF callerVars, lockVars, linkVars, exchange, timerVars
<1>3. LockInv' /\ StepComes' /\ WellQueued(ready')
  <2>1. \A c \in Callers : fut[c] = Pending => armed # {}
    BY DEF IInv, LockInv, FutureBelongsToWaiter, StepComes
  <2> QED
    BY <1>1, <1>2, <2>1, HandlerTail, LockKept DEF IInv
<1>4. LinkInv'
  <2>1. transport = "open" => /\ ~Occurs(Lost, ready')
                              /\ Occurs(Read, ready') => stream' # <<>>
    BY <1>1, <1>2, HandlerTail DEF IInv, LinkInv, OpenIsUsable
  <2> QED
    BY <1>2, <1>3, <2>1, LinkKept DEF IInv
<1>5. TypeOK'
  BY <1>2, <1>3 DEF IInv, TypeOK, WellQueued
<1> QED
  BY <1>3, <1>4, <1>5 DEF IInv

\* Closing the transport from a callback.
LEMMA HandlerCloses ==
    ASSUME IInv, ready # <<>>, Head(ready) \in Neutral, CloseTransport(Tail(ready)),
           UNCHANGED <<pc, locked, waiters, owner>>
    PROVE  /\ LockInv' /\ LinkInv' /\ StepComes' /\ ready' \in Seq(Callbacks)
           /\ transport' = "none" /\ stream' = <<>> /\ fut' \in [Callers -> Futures]
<1>1. /\ transport' = "none" /\ stream' = <<>> /\ fut' = Settle(Cancelled)
      /\ ready' = Tail(ready) \o LostIfOpen \o WakeOwner
  BY DEF CloseTransport, HangUp
<1>2. LockInv' /\ StepComes' /\ WellQueued(ready')
  BY <1>1, HandlerSettles, FutureTypes DEF IInv
<1>3. LinkInv'
  BY <1>1, <1>2, LinkKept DEF IInv
<1> QED
  BY <1>1, <1>2, <1>3, Settled, FutureTypes DEF IInv, WellQueued

LEMMA StepConnectionLost ==
    ASSUME IInv, ConnectionLost
    PROVE  IInv'
<1>1. /\ ready # <<>> /\ Head(ready) \in Neutral /\ CloseTransport(Tail(ready))
      /\ UNCHANGED <<pc, request, frames, calls, locked, waiters, retry,
                     command, owner, partial, timer, armed>>
  BY DEF ConnectionLost, Runs, Neutral, callerVars, lockVars, exchange, timerVars
<1>2. /\ LockInv' /\ LinkInv' /\ StepComes' /\ ready' \in Seq(Callbacks)
      /\ transport' = "none" /\ stream' = <<>> /\ fut' \in [Callers -> Futures]
  BY <1>1, HandlerCloses
<1>3. TypeOK'
  BY <1>1, <1>2 DEF IInv, TypeOK
<1> QED
  BY <1>2, <1>3 DEF IInv

LEMMA StepTimeout ==
    ASSUME IInv, NEW t \in TimerIds, TimeoutMechanism(t)
    PROVE  IInv'
<1>1. /\ ready # <<>> /\ Head(ready) \in Neutral /\ Head(ready) # Read
      /\ armed' = armed \ {t}
      /\ UNCHANGED <<pc, request, frames, calls, locked, waiters, command, owner, partial>>
  BY CallbackFacts DEF TimeoutMechanism, Runs, Neutral, callerVars, lockVars, exchange
<1>2. CASE InFlight
  <2>1. CloseTransport(Tail(ready)) /\ timer' = None /\ retry' = retry
    BY <1>2 DEF TimeoutMechanism
  <2>2. /\ LockInv' /\ LinkInv' /\ StepComes' /\ ready' \in Seq(Callbacks)
        /\ transport' = "none" /\ stream' = <<>> /\ fut' \in [Callers -> Futures]
    BY <1>1, <2>1, HandlerCloses
  <2>3. TypeOK'
    BY <1>1, <2>1, <2>2 DEF IInv, TypeOK
  <2> QED
    BY <2>2, <2>3 DEF IInv
<1>3. CASE ~InFlight
  <2>1. /\ retry' = 0 /\ ready' = Tail(ready)
        /\ UNCHANGED <<timer, transport, stream, fut>>
    BY <1>3 DEF TimeoutMechanism, linkVars
  <2>2. \A c \in Callers : fut[c] # Pending
    BY <1>3, OwnerFacts DEF IInv, OwnerWaits
  <2>3. LockInv' /\ StepComes' /\ WellQueued(ready')
    BY <1>1, <2>1, <2>2, HandlerTail, LockKept DEF IInv
  <2>4. LinkInv'
    <3>1. transport = "open" => ~Occurs(Lost, ready') /\ (Occurs(Read, ready') => stream' # <<>>)
      BY <1>1, <2>1, HandlerTail DEF IInv, LinkInv, OpenIsUsable
    <3> QED
      BY <1>1, <2>1, <2>3, <3>1, LinkKept DEF IInv
  <2>5. TypeOK'
    BY <1>1, <2>1, <2>3, TcpConstants DEF IInv, TypeOK, WellQueued
  <2> QED
    BY <2>3, <2>4, <2>5 DEF IInv
<1> QED
  BY <1>2, <1>3

\* What holds when a segment is read.
LEMMA ArrivesFacts ==
    ASSUME IInv, NEW kinds, Arrives(kinds)
    PROVE  /\ ready # <<>> /\ Head(ready) = Read /\ Head(ready) \in Neutral /\ transport = "open"
           /\ stream # <<>> /\ Tail(stream) \in Seq(Segments)
           /\ Head(stream).cmd \in Commands /\ Answered \in Commands
           /\ ~Queued(Lost)
           /\ UNCHANGED <<pc, request, frames, calls, locked, waiters, command, owner>>
<1>1. /\ ready # <<>> /\ Head(ready) = Read /\ Head(ready) \in Neutral /\ transport = "open"
      /\ UNCHANGED <<pc, request, frames, calls, locked, waiters, command, owner>>
  BY DEF Arrives, Runs, Neutral, callerVars, lockVars
<1>2. stream # <<>> /\ ~Queued(Lost)
  <2>1. Queued(Read)
    BY <1>1, ReadyWellQueued, PopQueue DEF IInv, Queued
  <2> QED
    BY <1>1, <2>1 DEF IInv, LinkInv, OpenIsUsable
<1>3. Tail(stream) \in Seq(Segments) /\ Head(stream) \in Segments
  BY <1>2, TailFacts DEF IInv, TypeOK
<1>4. Head(stream).cmd \in Commands
  BY <1>3 DEF Segments
<1>5. Answered \in Commands
  BY <1>4 DEF IInv, TypeOK, Answered, Completes
<1> QED
  BY <1>1, <1>2, <1>3, <1>4, <1>5

\* A handler that takes the segment and completes the future.
LEMMA HandlerConsumes ==
    ASSUME IInv, NEW kinds, Arrives(kinds), Consume,
           NEW v \in Futures \ {Pending}, fut' = Settle(v), ready' = Tail(ready) \o WakeOwner
    PROVE  /\ LockInv' /\ LinkInv' /\ StepComes' /\ ready' \in Seq(Callbacks)
           /\ transport' = "open" /\ stream' \in Seq(Segments) /\ fut' \in [Callers -> Futures]
<1>1. /\ ready # <<>> /\ Head(ready) = Read /\ Head(ready) \in Neutral /\ transport = "open"
      /\ stream' \in Seq(Segments) /\ transport' = transport /\ ~Queued(Lost)
      /\ UNCHANGED <<pc, locked, waiters, owner>>
  BY ArrivesFacts DEF Consume
<1>2. /\ LockInv' /\ StepComes' /\ WellQueued(ready')
      /\ ~Occurs(Lost, ready') /\ ~Occurs(Read, ready')
  BY <1>1, HandlerSettles DEF IInv
<1>3. LinkInv'
  BY <1>1, <1>2, LinkKept DEF IInv
<1> QED
  BY <1>1, <1>2, <1>3, Settled DEF IInv, WellQueued

LEMMA StepReceiveAnswer ==
    ASSUME IInv, ReceiveAnswer
    PROVE  IInv'
<1>1. /\ Arrives({"answer", "second"}) /\ Consume /\ StopTimer /\ Unpack /\ retry' = 0
      /\ fut' = Settle(Answer(Answered)) /\ ready' = Tail(ready) \o WakeOwner
  BY DEF ReceiveAnswer
<1>2. /\ Answer(Answered) \in Futures \ {Pending}
      /\ UNCHANGED <<pc, request, frames, calls, locked, waiters, command, owner>>
  BY <1>1, ArrivesFacts, FutureTypes
<1>3. /\ LockInv' /\ LinkInv' /\ StepComes' /\ ready' \in Seq(Callbacks)
      /\ transport' = "open" /\ stream' \in Seq(Segments) /\ fut' \in [Callers -> Futures]
  BY <1>1, <1>2, HandlerConsumes
<1>4. TypeOK'
  BY <1>1, <1>2, <1>3, TcpConstants DEF IInv, TypeOK, StopTimer, Unpack
<1> QED
  BY <1>3, <1>4 DEF IInv

LEMMA StepReceiveReject ==
    ASSUME IInv, ReceiveReject
    PROVE  IInv'
<1>1. /\ Arrives({"reject", "second"}) /\ Consume /\ StopTimer /\ UNCHANGED <<retry, partial>>
      /\ fut' = Settle(Rejected) /\ ready' = Tail(ready) \o WakeOwner
  BY DEF ReceiveReject
<1>2. /\ Rejected \in Futures \ {Pending}
      /\ UNCHANGED <<pc, request, frames, calls, locked, waiters, command, owner>>
  BY <1>1, ArrivesFacts, FutureTypes
<1>3. /\ LockInv' /\ LinkInv' /\ StepComes' /\ ready' \in Seq(Callbacks)
      /\ transport' = "open" /\ stream' \in Seq(Segments) /\ fut' \in [Callers -> Futures]
  BY <1>1, <1>2, HandlerConsumes
<1>4. TypeOK'
  BY <1>1, <1>2, <1>3 DEF IInv, TypeOK, StopTimer
<1> QED
  BY <1>3, <1>4 DEF IInv

LEMMA StepReceiveEof ==
    ASSUME IInv, ReceiveEof
    PROVE  IInv'
<1>1. /\ Arrives({"eof"}) /\ CloseTransport(Tail(ready))
      /\ UNCHANGED <<retry, partial, timer, armed>>
  BY DEF ReceiveEof, timerVars
<1>2. /\ ready # <<>> /\ Head(ready) \in Neutral
      /\ UNCHANGED <<pc, request, frames, calls, locked, waiters, command, owner>>
  BY <1>1, ArrivesFacts
<1>3. /\ LockInv' /\ LinkInv' /\ StepComes' /\ ready' \in Seq(Callbacks)
      /\ transport' = "none" /\ stream' = <<>> /\ fut' \in [Callers -> Futures]
  BY <1>1, <1>2, HandlerCloses
<1>4. TypeOK'
  BY <1>1, <1>2, <1>3 DEF IInv, TypeOK
<1> QED
  BY <1>3, <1>4 DEF IInv

LEMMA StepReceiveInvalid ==
    ASSUME IInv, ReceiveInvalid
    PROVE  IInv'
<1> DEFINE kinds == {"answer", "second", "garbage"}
<1>1. Arrives(kinds) /\ StopTimer /\ Unpack /\ retry' = retry
  BY DEF ReceiveInvalid
<1>2. /\ ready # <<>> /\ Head(ready) = Read /\ Head(ready) \in Neutral /\ transport = "open"
      /\ Tail(stream) \in Seq(Segments) /\ ~Queued(Lost)
      /\ UNCHANGED <<pc, request, frames, calls, locked, waiters, command, owner>>
  BY <1>1, ArrivesFacts
<1>3. partial' \in Commands \cup {None} /\ armed' \subseteq TimerIds /\ timer' = timer
  BY <1>1 DEF IInv, TypeOK, StopTimer, Unpack
<1>4. CASE InFlight
  <2>1. /\ transport' = "none" /\ stream' = <<>> /\ fut' = Settle(Rejected)
        /\ ready' = Tail(ready) \o WakeOwner \o LostIfOpen
    BY <1>4 DEF ReceiveInvalid, HangUp
  <2>2. LockInv' /\ StepComes' /\ WellQueued(ready')
    BY <1>2, <2>1, HandlerSettles, FutureTypes DEF IInv
  <2>3. LinkInv'
    BY <1>2, <2>1, <2>2, LinkKept DEF IInv
  <2>4. fut' \in [Callers -> Futures]
    BY <2>1, Settled, FutureTypes DEF IInv
  <2>5. TypeOK'
    BY <1>1, <1>2, <1>3, <2>1, <2>2, <2>4 DEF IInv, TypeOK, WellQueued
  <2> QED
    BY <2>2, <2>3, <2>5 DEF IInv
<1>5. CASE ~InFlight
  <2>1. /\ stream' = Tail(stream) /\ transport' = transport /\ fut' = fut
        /\ ready' = Tail(ready)
    BY <1>5 DEF ReceiveInvalid, Consume
  <2>2. \A c \in Callers : fut[c] # Pending
    BY <1>5, OwnerFacts DEF IInv, OwnerWaits
  <2>3. LockInv' /\ StepComes' /\ WellQueued(ready')
    BY <1>2, <2>1, <2>2, HandlerTail, LockKept DEF IInv
  <2>4. ~Occurs(Lost, ready') /\ ~Occurs(Read, ready')
    BY <1>2, <2>1, HandlerTail DEF IInv
  <2>5. LinkInv'
    BY <1>2, <2>1, <2>3, <2>4, LinkKept DEF IInv
  <2>6. TypeOK'
    BY <1>1, <1>2, <1>3, <2>1, <2>3 DEF IInv, TypeOK, WellQueued
  <2> QED
    BY <2>3, <2>5, <2>6 DEF IInv
<1> QED
  BY <1>4, <1>5

\* A timer handle is numbered with the least number that is free.
LEMMA LeastNumber ==
    ASSUME NEW T \in SUBSET Nat, T # {}
    PROVE  \E t \in T : \A u \in T : t <= u
<1>1. \E t \in T : \A u \in T : <<u, t>> \notin OpToRel(<, Nat)
  BY NatLessThanWellFounded, WFMin
<1>2. \A t, u \in Nat : <<u, t>> \notin OpToRel(<, Nat) => t <= u
  BY DEF OpToRel
<1> QED
  BY <1>1, <1>2

LEMMA TimerTypes ==
    ASSUME NEW live \in SUBSET TimerIds, ArmTimer(live)
    PROVE  timer' \in TimerIds /\ armed' \subseteq TimerIds /\ armed' # {}
<1>1. FreeTimers \subseteq TimerIds /\ FreeTimers # {} /\ FreeTimers \in SUBSET Nat
  BY DEF FreeTimers, ArmTimer, TimerIds
<1>2. \E t \in FreeTimers : \A u \in FreeTimers : t <= u
  BY <1>1, LeastNumber
<1>3. timer' \in FreeTimers /\ armed' = live \cup {timer'}
  BY <1>2 DEF ArmTimer
<1> QED
  BY <1>1, <1>3

LEMMA StepReceivePartial ==
    ASSUME IInv, ReceivePartial
    PROVE  IInv'
<1>1. /\ Arrives({"first"}) /\ Consume /\ partial' = Head(stream).cmd
      /\ ArmTimer(armed \ {timer}) /\ ready' = Tail(ready) /\ UNCHANGED <<retry, fut>>
  BY DEF ReceivePartial
<1>2. /\ ready # <<>> /\ Head(ready) = Read /\ Head(ready) \in Neutral /\ transport = "open"
      /\ stream' \in Seq(Segments) /\ transport' = transport /\ ~Queued(Lost)
      /\ partial' \in Commands
      /\ UNCHANGED <<pc, request, frames, calls, locked, waiters, command, owner>>
  BY <1>1, ArrivesFacts DEF Consume
<1>3. timer' \in TimerIds /\ armed' \subseteq TimerIds /\ armed' # {}
  <2>1. armed \ {timer} \in SUBSET TimerIds
    BY DEF IInv, TypeOK
  <2> QED
    BY <1>1, <2>1, TimerTypes
<1>4. LockInv' /\ StepComes' /\ WellQueued(ready')
  BY <1>1, <1>2, <1>3, HandlerTail, LockKept DEF IInv
<1>5. ~Occurs(Lost, ready') /\ ~Occurs(Read, ready')
  BY <1>1, <1>2, HandlerTail DEF IInv
<1>6. LinkInv'
  BY <1>2, <1>4, <1>5, LinkKept DEF IInv
<1>7. TypeOK'
  BY <1>1, <1>2, <1>3, <1>4 DEF IInv, TypeOK, WellQueued
<1> QED
  BY <1>4, <1>6, <1>7 DEF IInv

LEMMA StepReceiveReset ==
    ASSUME IInv, ReceiveReset
    PROVE  IInv'
<1>1. /\ Arrives({"reset"}) /\ transport' = "closing" /\ stream' = <<>>
      /\ ready' = Append(Tail(ready), Lost)
      /\ UNCHANGED <<retry, partial, fut, timer, armed>>
  BY DEF ReceiveReset, timerVars
<1>2. /\ ready # <<>> /\ Head(ready) \in Neutral /\ transport = "open"
      /\ UNCHANGED <<pc, request, frames, calls, locked, waiters, command, owner>>
  BY <1>1, ArrivesFacts
<1> DEFINE rest == Tail(ready)
<1>3. /\ WellQueued(rest)
      /\ \A c \in Callers :
            /\ Occurs(Wake(c), rest) <=> Queued(Wake(c))
            /\ Occurs(Probe(c), rest) <=> Queued(Probe(c))
            /\ Occurs(Opened(c), rest) <=> Queued(Opened(c))
            /\ Occurs(Released(c), rest) <=> Queued(Released(c))
  BY <1>2, HandlerTail DEF IInv
<1> HIDE DEF rest
<1>4. \A c \in Callers : ~Occurs(Opened(c), rest)
  BY <1>2, <1>3 DEF IInv, LinkInv, OpenIsUsable, LockInv, StepsOnce
<1>5. /\ WellQueued(ready')
      /\ \A y : Occurs(y, ready') <=> Occurs(y, rest) \/ y = Lost
  <2>1. Lost \in Callbacks /\ Lost \notin Steps /\ Lost # Read
    BY CallbackFacts
  <2>2. /\ WellQueued(rest \o <<Lost>>) /\ Append(rest, Lost) = rest \o <<Lost>>
        /\ \A y : Occurs(y, rest \o <<Lost>>) <=> Occurs(y, rest) \/ y = Lost
    BY <1>3, <1>4, <2>1, PushQueue
  <2>3. ready' = Append(rest, Lost)
    BY <1>1 DEF rest
  <2> QED
    BY <2>2, <2>3
<1>6. ASSUME NEW c \in Callers
      PROVE  /\ Occurs(Wake(c), ready') <=> Queued(Wake(c))
             /\ Occurs(Probe(c), ready') <=> Queued(Probe(c))
             /\ Occurs(Opened(c), ready') <=> Queued(Opened(c))
             /\ Occurs(Released(c), ready') <=> Queued(Released(c))
  <2>1. Lost \notin {Wake(c), Probe(c), Opened(c), Released(c)}
    BY CallbackFacts
  <2> QED
    BY <1>3, <1>5, <2>1
<1>7. LockInv' /\ StepComes'
  <2>1. \A c \in Callers : fut[c] = Pending => armed # {}
    BY DEF IInv, LockInv, FutureBelongsToWaiter, StepComes
  <2> QED
    BY <1>1, <1>2, <1>5, <1>6, <2>1, LockKept DEF IInv
<1>8. LinkInv'
  BY <1>1, <1>2, <1>5, LinkKept DEF IInv
<1>9. TypeOK'
  BY <1>1, <1>2, <1>5 DEF IInv, TypeOK, WellQueued
<1> QED
  BY <1>7, <1>8, <1>9 DEF IInv

-----------------------------------------------------------------------------
(* The coroutine that holds the lock goes on. *)

StepsOf(c) == {Wake(c), Probe(c), Opened(c), Released(c)}

\* A coroutine c at p whose future is f has in s the callback it waits for only.
Scheduled(c, p, f, s) ==
    /\ Occurs(Wake(c), s) => p \in {"connected", "failed", "awaiting"} /\ f # Pending
    /\ Occurs(Probe(c), s) => p = "probing"
    /\ Occurs(Opened(c), s) => p = "connecting"
    /\ Occurs(Released(c), s) => p = "connected" /\ ~Occurs(Wake(c), s)
    /\ p = "probing" => Occurs(Probe(c), s)
    /\ p = "connected" => Occurs(Released(c), s) \/ Occurs(Wake(c), s)
    /\ p = "failed" => Occurs(Wake(c), s)
    /\ p = "awaiting" => f = Pending \/ Occurs(Wake(c), s)

LEMMA OtherSteps ==
    /\ \A c, d \in Callers : c # d => StepsOf(c) \cap StepsOf(d) = {}
    /\ \A c \in Callers : StepsOf(c) \subseteq Steps \cap Callbacks
    /\ \A c \in Callers, x \in Neutral : x \notin StepsOf(c)
<1>1. \A c \in Callers : StepsOf(c) \subseteq Steps \cap Callbacks
  BY CallbackFacts DEF StepsOf
<1>2. \A c, d \in Callers : c # d => StepsOf(c) \cap StepsOf(d) = {}
  BY CallbackFacts DEF StepsOf
<1> QED
  BY <1>1, <1>2, NeutralFacts

\* Running a step of c.
LEMMA PopStep ==
    ASSUME TypeOK, LockInv, LinkInv, ready # <<>>, Head(ready) \in Steps
    PROVE  /\ WellQueued(Tail(ready)) /\ Queued(Head(ready))
           /\ \A x : Occurs(x, Tail(ready)) <=> Queued(x) /\ x # Head(ready)
  BY ReadyWellQueued, PopQueue DEF Queued

\* Nobody else's future is pending, and nobody else holds the lock.
LEMMA HolderAlone ==
    ASSUME LockInv, NEW c \in Callers, Holds(c)
    PROVE  /\ locked
           /\ \A d \in Callers : d # c => ~Holds(d) /\ fut[d] # Pending
           /\ fut[c] = Pending => pc[c] = "awaiting"
  BY DEF LockInv, MutualExclusion, FutureBelongsToWaiter, Holds

LEMMA HolderMoves ==
    ASSUME TypeOK, LockInv, StepComes, NEW c \in Callers, Holds(c), Holds(c)',
           \A d \in Callers : d # c => pc'[d] = pc[d] /\ fut'[d] = fut[d],
           UNCHANGED <<locked, waiters>>, WellQueued(ready'),
           fut'[c] = Pending => owner' = c /\ pc'[c] = "awaiting" /\ armed' # {},
           \A d \in Callers, x \in Steps :
              d # c /\ x \in StepsOf(d) => (Occurs(x, ready') <=> Queued(x)),
           Scheduled(c, pc'[c], fut'[c], ready')
    PROVE  LockInv' /\ StepComes'
<1>1. /\ locked
      /\ \A d \in Callers : d # c => ~Holds(d) /\ fut[d] # Pending /\ fut'[d] # Pending
  BY HolderAlone
<1>2. ASSUME NEW d \in Callers, d # c
      PROVE  /\ Occurs(Wake(d), ready') <=> Queued(Wake(d))
             /\ Occurs(Probe(d), ready') <=> Queued(Probe(d))
             /\ Occurs(Opened(d), ready') <=> Queued(Opened(d))
             /\ Occurs(Released(d), ready') <=> Queued(Released(d))
  <2>1. StepsOf(d) \subseteq Steps
    BY OtherSteps
  <2> QED
    BY <1>2, <2>1 DEF StepsOf
<1>3. \A d \in Callers : Holds(d)' <=> Holds(d)
  BY <1>1 DEF Holds
<1>4. MutualExclusion'
  BY <1>3 DEF LockInv, MutualExclusion
<1>5. FutureBelongsToWaiter'
  BY <1>1 DEF FutureBelongsToWaiter
<1>6. \A d \in Callers : pc'[d] \in Locking <=> pc[d] \in Locking
  BY DEF Holds, Locking
<1>7. NoLostWakeup' /\ WaitersWait'
  BY <1>1, <1>6 DEF LockInv, NoLostWakeup, WaitersWait
<1>8. WokenIsHead'
  <2>1. pc'[c] \notin Locking
    BY DEF Holds, Locking
  <2>2. ASSUME NEW d \in Callers, d # c, pc[d] \in Locking PROVE ~Queued(Wake(d))
    BY <1>1, <2>2 DEF LockInv, WokenIsHead
  <2>3. \A d \in Callers : pc'[d] \in Locking => ~Occurs(Wake(d), ready')
    BY <1>2, <1>6, <2>1, <2>2
  <2> QED
    BY <2>3 DEF WokenIsHead, Queued
<1>9. ASSUME NEW d \in Callers, NEW x \in {Wake(d), Probe(d), Opened(d), Released(d)}
      PROVE  AtMostOnce(x, ready')
  BY <1>9, CallbackFacts DEF WellQueued
<1>10. StepsOnce'
  BY <1>1, <1>2, <1>9 DEF LockInv, StepsOnce, Scheduled, Queued
<1>11. StepComes'
  BY <1>1, <1>2 DEF StepComes, Scheduled, Queued
<1> QED
  BY <1>4, <1>5, <1>7, <1>8, <1>10, <1>11 DEF LockInv

\* The connection is as it was.
LEMMA LinkMoves ==
    ASSUME LinkInv, WellQueued(ready'), NEW c \in Callers, pc[c] # "idle", pc'[c] # "idle",
           \A d \in Callers : d # c => pc'[d] = pc[d],
           pc'[c] = "connecting" => pc[c] = "connecting" \/ transport # "open",
           transport' = transport, transport = "open" /\ stream # <<>> => stream' # <<>>,
           \A x \in {Lost, Read} : Occurs(x, ready') => Queued(x)
    PROVE  LinkInv'
<1>1. OpenIsUsable'
  BY DEF LinkInv, OpenIsUsable, Queued
<1>2. WillBeClosed'
  BY DEF LinkInv, WillBeClosed
<1> QED
  BY <1>1, <1>2 DEF LinkInv, WellQueued

\* A coroutine that runs has no callback queued.
LEMMA NoSteps ==
    ASSUME LockInv, NEW c \in Callers, pc[c] \in Synchronous \cup {"idle"}
    PROVE  \A x \in StepsOf(c) : ~Queued(x)
  BY DEF LockInv, StepsOnce, StepsOf, Synchronous, Locking

LEMMA StepConnect ==
    ASSUME IInv, NEW c \in Callers, Connect(c)
    PROVE  IInv'
<1>1. /\ pc[c] = "connect"
      /\ UNCHANGED <<request, frames, calls, locked, waiters, retry, transport, stream,
                     command, owner, partial, fut, timer, armed>>
      /\ \/ /\ ready' = ready
            /\ \/ transport = "open" /\ pc' = [pc EXCEPT ![c] = "send"]
               \/ transport # "open" /\ pc' = [pc EXCEPT ![c] = "connecting"]
         \/ ready' = Append(ready, Probe(c)) /\ pc' = [pc EXCEPT ![c] = "probing"]
  BY DEF Connect, Goes, callerVars, lockVars, linkVars, exchange, timerVars
<1>2. /\ pc'[c] \in {"send", "connecting", "probing"} /\ \A d \in Callers : d # c => pc'[d] = pc[d]
      /\ pc' \in [Callers -> PCs]
  BY <1>1 DEF IInv, TypeOK, PCs, Synchronous, Suspended
<1>3. /\ \A x \in StepsOf(c) : ~Queued(x)
      /\ Probe(c) \in Callbacks /\ Probe(c) \in Steps /\ Probe(c) \notin {Lost, Read}
      /\ Probe(c) \in StepsOf(c) /\ WellQueued(ready)
  <2>1. pc[c] \in Synchronous
    BY <1>1 DEF Synchronous
  <2> QED
    BY <2>1, NoSteps, CallbackFacts, ReadyWellQueued DEF IInv, StepsOf
<1>4. /\ WellQueued(ready')
      /\ \A x : Occurs(x, ready') <=> Queued(x) \/ (pc'[c] = "probing" /\ x = Probe(c))
  <2>1. CASE ready' = ready /\ pc'[c] # "probing"
    BY <1>3, <2>1 DEF Queued
  <2>2. CASE ready' = Append(ready, Probe(c)) /\ pc'[c] = "probing"
    <3>1. ~Occurs(Probe(c), ready)
      BY <1>3 DEF Queued
    <3>2. /\ WellQueued(ready \o <<Probe(c)>>) /\ Append(ready, Probe(c)) = ready \o <<Probe(c)>>
          /\ \A y : Occurs(y, ready \o <<Probe(c)>>) <=> Occurs(y, ready) \/ y = Probe(c)
      BY <1>3, <3>1, PushQueue
    <3> QED
      BY <2>2, <3>2 DEF Queued
  <2> QED
    BY <1>1, <1>2, <2>1, <2>2 DEF IInv, TypeOK
<1>5. Holds(c) /\ Holds(c)' /\ fut[c] # Pending
  BY <1>1, <1>2, HolderAlone DEF Holds, IInv
<1>6. Scheduled(c, pc'[c], fut'[c], ready')
  BY <1>2, <1>3, <1>4, CallbackFacts DEF Scheduled, StepsOf
<1>7. \A d \in Callers, x \in Steps :
              d # c /\ x \in StepsOf(d) => (Occurs(x, ready') <=> Queued(x))
  BY <1>3, <1>4, OtherSteps
<1>8. LockInv' /\ StepComes'
  BY <1>1, <1>2, <1>4, <1>5, <1>6, <1>7, HolderMoves DEF IInv
<1>9. LinkInv'
  <2>1. \A x \in {Lost, Read} : Occurs(x, ready') => Queued(x)
    BY <1>3, <1>4
  <2>2. pc'[c] = "connecting" => transport # "open"
    BY <1>1 DEF IInv, TypeOK
  <2> QED
    BY <1>1, <1>2, <1>4, <2>1, <2>2, LinkMoves DEF IInv
<1>10. TypeOK'
  BY <1>1, <1>2, <1>4 DEF IInv, TypeOK, WellQueued
<1> QED
  BY <1>8, <1>9, <1>10 DEF IInv

LEMMA StepSend ==
    ASSUME IInv, CallsHaveCommand, NEW c \in Callers, NEW r \in Reactions, Send(c, r)
    PROVE  IInv'
<1>1. /\ pc[c] = "send" /\ pc' = [pc EXCEPT ![c] = "awaiting"] /\ ready' = ready
      /\ command' = request[c] /\ owner' = c /\ partial' = None
      /\ fut' = [fut EXCEPT ![c] = Pending] /\ ArmTimer(armed)
      /\ UNCHANGED <<request, frames, calls, locked, waiters, retry, transport>>
  BY DEF Send, Goes, callerVars, lockVars
<1>2. /\ pc'[c] = "awaiting" /\ \A d \in Callers : d # c => pc'[d] = pc[d] /\ fut'[d] = fut[d]
      /\ pc' \in [Callers -> PCs] /\ fut'[c] = Pending /\ fut' \in [Callers -> Futures]
  BY <1>1, FutureTypes DEF IInv, TypeOK, PCs, Synchronous, Suspended
<1>3. timer' \in TimerIds /\ armed' \subseteq TimerIds /\ armed' # {}
  BY <1>1, TimerTypes DEF IInv, TypeOK
<1>4. request[c] \in Commands
  BY <1>1 DEF CallsHaveCommand
<1>5. stream' \in Seq(Segments) /\ (stream # <<>> => stream' # <<>>)
  <2> DEFINE more == [i \in DOMAIN r |-> [kind |-> r[i], cmd |-> request[c]]]
  <2>1. stream \in Seq(Segments) /\ r \in Seq(Kinds)
    BY TcpConstants DEF IInv, TypeOK
  <2>2. more \in Seq(Segments)
    <3>1. Len(r) \in Nat /\ DOMAIN r = 1..Len(r) /\ \A i \in 1..Len(r) : r[i] \in Kinds
      BY <2>1, LenProperties, ElementOfSeq
    <3>2. more \in [1..Len(r) -> Segments]
      BY <1>4, <3>1 DEF Segments
    <3> QED
      BY <3>1, <3>2, SeqDef
  <2>3. stream' \in {stream, stream \o more}
    BY DEF Send
  <2> HIDE DEF more
  <2>4. stream \o more \in Seq(Segments) /\ (stream # <<>> => stream \o more # <<>>)
    BY <2>1, <2>2, ConcatProperties, EmptySeq, LenProperties
  <2> QED
    BY <2>1, <2>3, <2>4
<1>6. /\ WellQueued(ready') /\ \A x : Occurs(x, ready') <=> Queued(x)
      /\ \A x \in StepsOf(c) : ~Queued(x)
  <2>1. pc[c] \in Synchronous
    BY <1>1 DEF Synchronous
  <2> QED
    BY <1>1, <2>1, NoSteps, ReadyWellQueued DEF IInv, Queued
<1>7. Scheduled(c, pc'[c], fut'[c], ready')
  BY <1>2, <1>6 DEF Scheduled, StepsOf
<1>8. Holds(c) /\ Holds(c)'
  BY <1>1, <1>2 DEF Holds
<1>9. LockInv' /\ StepComes'
  BY <1>1, <1>2, <1>3, <1>6, <1>7, <1>8, HolderMoves DEF IInv
<1>10. LinkInv'
  BY <1>1, <1>2, <1>5, <1>6, LinkMoves DEF IInv
<1>11. TypeOK'
  BY <1>1, <1>2, <1>3, <1>4, <1>5, <1>6 DEF IInv, TypeOK, WellQueued
<1> QED
  BY <1>9, <1>10, <1>11 DEF IInv

LEMMA StepSendBroken ==
    ASSUME IInv, CallsHaveCommand, NEW c \in Callers, SendBroken(c)
    PROVE  IInv'
<1>1. /\ pc[c] = "send" /\ pc' = [pc EXCEPT ![c] = "resumed"] /\ ready' = ready
      /\ command' = request[c] /\ owner' = c /\ partial' = None
      /\ fut' = [fut EXCEPT ![c] = Stranded]
      /\ UNCHANGED <<request, frames, calls, locked, waiters, retry, transport, stream, timer, armed>>
  BY DEF SendBroken, Goes, callerVars, lockVars, linkVars, timerVars
<1>2. /\ pc'[c] = "resumed" /\ \A d \in Callers : d # c => pc'[d] = pc[d] /\ fut'[d] = fut[d]
      /\ pc' \in [Callers -> PCs] /\ fut'[c] = Stranded /\ fut' \in [Callers -> Futures]
      /\ Stranded # Pending
  BY <1>1, FutureTypes DEF IInv, TypeOK, PCs, Synchronous, Suspended
<1>3. /\ WellQueued(ready') /\ \A x : Occurs(x, ready') <=> Queued(x)
      /\ \A x \in StepsOf(c) : ~Queued(x)
  <2>1. pc[c] \in Synchronous
    BY <1>1 DEF Synchronous
  <2> QED
    BY <1>1, <2>1, NoSteps, ReadyWellQueued DEF IInv, Queued
<1>4. Scheduled(c, pc'[c], fut'[c], ready') /\ Holds(c) /\ Holds(c)'
  BY <1>1, <1>2, <1>3 DEF Scheduled, StepsOf, Holds
<1>5. LockInv' /\ StepComes'
  BY <1>1, <1>2, <1>3, <1>4, HolderMoves DEF IInv
<1>6. LinkInv'
  BY <1>1, <1>2, <1>3, LinkMoves DEF IInv
<1>7. TypeOK'
  BY <1>1, <1>2, <1>3 DEF IInv, TypeOK, CallsHaveCommand, WellQueued
<1> QED
  BY <1>5, <1>6, <1>7 DEF IInv

\* A callback h of c is run, and x of c may be queued behind.
LEMMA StepRuns ==
    ASSUME IInv, NEW c \in Callers, NEW h \in StepsOf(c), Runs(h)
    PROVE  /\ Queued(h) /\ WellQueued(Tail(ready))
           /\ \A y : Occurs(y, Tail(ready)) <=> Queued(y) /\ y # h
           /\ \A x \in StepsOf(c) : x = h \/ ~Queued(x) =>
                 /\ WellQueued(Append(Tail(ready), x))
                 /\ \A y : Occurs(y, Append(Tail(ready), x)) <=> (Queued(y) /\ y # h) \/ y = x
<1>1. /\ ready # <<>> /\ Head(ready) = h /\ h \in Steps
  BY OtherSteps DEF Runs
<1>2. /\ Queued(h) /\ WellQueued(Tail(ready))
      /\ \A y : Occurs(y, Tail(ready)) <=> Queued(y) /\ y # h
  BY <1>1, PopStep DEF IInv
<1>3. ASSUME NEW x \in StepsOf(c), x = h \/ ~Queued(x)
      PROVE  /\ WellQueued(Append(Tail(ready), x))
             /\ \A y : Occurs(y, Append(Tail(ready), x)) <=> (Queued(y) /\ y # h) \/ y = x
  <2> DEFINE rest == Tail(ready)
  <2>1. x \in Callbacks /\ x \in Steps /\ x \notin {Lost, Read}
    BY OtherSteps, CallbackFacts
  <2>2. WellQueued(rest) /\ ~Occurs(x, rest)
    BY <1>2, <1>3
  <2> HIDE DEF rest
  <2>3. /\ WellQueued(rest \o <<x>>) /\ Append(rest, x) = rest \o <<x>>
        /\ \A y : Occurs(y, rest \o <<x>>) <=> Occurs(y, rest) \/ y = x
    BY <2>1, <2>2, PushQueue
  <2> QED
    BY <1>2, <2>3 DEF rest
<1> QED
  BY <1>2, <1>3

\* What is left when the holder goes on by a step of its own.
LEMMA HolderSteps ==
    ASSUME IInv, NEW c \in Callers, Holds(c), NEW p, pc' = [pc EXCEPT ![c] = p],
           p \in {"connecting", "connected", "failed", "send", "refused", "resumed"},
           p = "connecting" => transport # "open" \/ pc[c] = "connecting",
           fut[c] # Pending,
           UNCHANGED <<request, frames, calls, locked, waiters, retry, transport, stream,
                       command, owner, partial, fut, timer, armed>>,
           WellQueued(ready'), Scheduled(c, p, fut[c], ready'),
           NEW T \in SUBSET StepsOf(c), \A y : y \notin T => (Occurs(y, ready') <=> Queued(y))
    PROVE  IInv'
<1>1. /\ pc'[c] = p /\ \A d \in Callers : d # c => pc'[d] = pc[d]
      /\ pc' \in [Callers -> PCs]
  BY DEF IInv, TypeOK, PCs, Synchronous, Suspended
<1>2. \A d \in Callers, x \in Steps :
              d # c /\ x \in StepsOf(d) => (Occurs(x, ready') <=> Queued(x))
  BY OtherSteps
<1>3. Holds(c)'
  BY <1>1 DEF Holds
<1>4. LockInv' /\ StepComes'
  BY <1>1, <1>2, <1>3, HolderMoves DEF IInv
<1>5. LinkInv'
  <2>1. \A x \in {Lost, Read} : x \notin StepsOf(c)
    BY OtherSteps DEF Neutral
  <2>2. pc[c] # "idle" /\ p # "idle"
    BY DEF Holds
  <2> QED
    BY <1>1, <2>1, <2>2, LinkMoves DEF IInv
<1>6. TypeOK'
  BY <1>1 DEF IInv, TypeOK, WellQueued
<1> QED
  BY <1>4, <1>5, <1>6 DEF IInv

LEMMA StepWakeAwaited ==
    ASSUME IInv, NEW c \in Callers, WakeAwaited(c)
    PROVE  IInv'
<1>1. /\ Runs(Wake(c)) /\ ready' = Tail(ready)
      /\ UNCHANGED <<request, frames, calls, locked, waiters, retry, transport, stream,
                     command, owner, partial, fut, timer, armed>>
      /\ pc[c] \in {"connected", "failed", "awaiting"}
  BY DEF WakeAwaited, callerVars, lockVars, linkVars, exchange, timerVars
<1>2. PICK p \in {"send", "refused", "resumed"} : pc' = [pc EXCEPT ![c] = p]
  BY DEF WakeAwaited, Goes
<1>3. /\ Wake(c) \in StepsOf(c) /\ Queued(Wake(c)) /\ WellQueued(ready')
      /\ \A y : Occurs(y, ready') <=> Queued(y) /\ y # Wake(c)
  BY <1>1, StepRuns DEF StepsOf
<1>4. /\ fut[c] # Pending /\ ~Queued(Probe(c)) /\ ~Queued(Opened(c)) /\ ~Queued(Released(c))
  BY <1>1, <1>3 DEF IInv, LockInv, StepsOnce
<1>5. Scheduled(c, p, fut[c], ready') /\ Holds(c)
  BY <1>1, <1>3, <1>4 DEF Scheduled, Holds
<1>6. {Wake(c)} \in SUBSET StepsOf(c) /\ \A y : y \notin {Wake(c)} => (Occurs(y, ready') <=> Queued(y))
  BY <1>3
<1> QED
  BY <1>1, <1>2, <1>3, <1>4, <1>5, <1>6, HolderSteps

LEMMA StepProbeTransport ==
    ASSUME IInv, NEW c \in Callers, ProbeTransport(c)
    PROVE  IInv'
<1>1. /\ Runs(Probe(c))
      /\ UNCHANGED <<request, frames, calls, locked, waiters, retry, transport, stream,
                     command, owner, partial, fut, timer, armed>>
  BY DEF ProbeTransport, callerVars, lockVars, linkVars, exchange, timerVars
<1>2. /\ {Probe(c), Released(c)} \in SUBSET StepsOf(c) /\ Queued(Probe(c))
      /\ Released(c) # Probe(c)
  BY <1>1, StepRuns, CallbackFacts DEF StepsOf
<1>3. pc[c] = "probing" /\ ~Queued(Wake(c)) /\ ~Queued(Opened(c)) /\ ~Queued(Released(c))
  BY <1>2 DEF IInv, LockInv, StepsOnce, Locking
<1>4. Holds(c) /\ fut[c] # Pending
  BY <1>3, HolderAlone DEF Holds, IInv
<1>5. CASE transport = "open"
  <2>1. ready' = Append(Tail(ready), Released(c)) /\ pc' = [pc EXCEPT ![c] = "connected"]
    BY <1>5 DEF ProbeTransport, Goes
  <2>2. /\ WellQueued(ready')
        /\ \A y : Occurs(y, ready') <=> (Queued(y) /\ y # Probe(c)) \/ y = Released(c)
    BY <1>1, <1>2, <1>3, <2>1, StepRuns
  <2>3. Scheduled(c, "connected", fut[c], ready')
    BY <1>3, <2>2, CallbackFacts DEF Scheduled
  <2>4. \A y : y \notin {Probe(c), Released(c)} => (Occurs(y, ready') <=> Queued(y))
    BY <2>2
  <2> QED
    BY <1>1, <1>2, <1>4, <2>1, <2>2, <2>3, <2>4, HolderSteps
<1>6. CASE transport # "open"
  <2>1. ready' = Tail(ready) /\ pc' = [pc EXCEPT ![c] = "connecting"]
    BY <1>6 DEF ProbeTransport, Goes
  <2>2. /\ WellQueued(ready') /\ \A y : Occurs(y, ready') <=> Queued(y) /\ y # Probe(c)
    BY <1>1, <1>2, <2>1, StepRuns
  <2>3. Scheduled(c, "connecting", fut[c], ready')
    BY <1>3, <2>2 DEF Scheduled
  <2>4. \A y : y \notin {Probe(c), Released(c)} => (Occurs(y, ready') <=> Queued(y))
    BY <2>2
  <2> QED
    BY <1>1, <1>2, <1>4, <1>6, <2>1, <2>2, <2>3, <2>4, HolderSteps
<1> QED
  BY <1>5, <1>6

LEMMA StepConnectReleased ==
    ASSUME IInv, NEW c \in Callers, ConnectReleased(c)
    PROVE  IInv'
<1>1. /\ Runs(Released(c)) /\ ready' = Append(Tail(ready), Wake(c)) /\ pc' = pc
      /\ UNCHANGED <<request, frames, calls, locked, waiters, retry, transport, stream,
                     command, owner, partial, fut, timer, armed>>
  BY DEF ConnectReleased, callerVars, lockVars, linkVars, exchange, timerVars
<1>2. /\ {Released(c), Wake(c)} \in SUBSET StepsOf(c) /\ Queued(Released(c))
      /\ Released(c) # Wake(c)
  BY <1>1, StepRuns, CallbackFacts DEF StepsOf
<1>3. pc[c] = "connected" /\ ~Queued(Wake(c)) /\ ~Queued(Opened(c)) /\ ~Queued(Probe(c))
  BY <1>2 DEF IInv, LockInv, StepsOnce
<1>4. /\ Holds(c) /\ fut[c] # Pending /\ pc' = [pc EXCEPT ![c] = "connected"]
  BY <1>1, <1>3, HolderAlone DEF Holds, IInv, TypeOK
<1>5. /\ WellQueued(ready')
      /\ \A y : Occurs(y, ready') <=> (Queued(y) /\ y # Released(c)) \/ y = Wake(c)
  BY <1>1, <1>2, <1>3, StepRuns
<1>6. Scheduled(c, "connected", fut[c], ready')
  BY <1>3, <1>4, <1>5, CallbackFacts DEF Scheduled
<1>7. \A y : y \notin {Released(c), Wake(c)} => (Occurs(y, ready') <=> Queued(y))
  BY <1>5
<1> QED
  BY <1>1, <1>2, <1>4, <1>5, <1>6, <1>7, HolderSteps

LEMMA StepConnectEnds ==
    ASSUME IInv, NEW c \in Callers, ConnectEnds(c)
    PROVE  IInv'
<1>1. /\ pc[c] = "connecting" /\ ~Queued(Opened(c))
      /\ UNCHANGED <<request, frames, calls, locked, waiters, retry, transport, stream,
                     command, owner, partial, fut, timer, armed>>
      /\ \/ ready' = Append(ready, Opened(c)) /\ pc' = [pc EXCEPT ![c] = "connecting"]
         \/ ready' = Append(ready, Wake(c)) /\ pc' = [pc EXCEPT ![c] = "failed"]
  BY DEF ConnectEnds, Goes, callerVars, lockVars, linkVars, exchange, timerVars, IInv, TypeOK
<1>2. Holds(c) /\ fut[c] # Pending
  BY <1>1, HolderAlone DEF Holds, IInv
<1>3. ~Queued(Wake(c)) /\ ~Queued(Probe(c)) /\ ~Queued(Released(c))
  BY <1>1 DEF IInv, LockInv, StepsOnce, Locking
<1>4. /\ {Opened(c), Wake(c)} \in SUBSET StepsOf(c) /\ Opened(c) # Wake(c)
      /\ {Opened(c), Wake(c)} \subseteq Callbacks \ {Lost, Read}
  BY CallbackFacts DEF StepsOf
<1>5. WellQueued(ready) /\ ~Occurs(Opened(c), ready) /\ ~Occurs(Wake(c), ready)
  BY <1>1, <1>3, ReadyWellQueued DEF IInv, Queued
<1>6. ASSUME NEW x \in {Opened(c), Wake(c)}, ready' = Append(ready, x)
      PROVE  /\ WellQueued(ready') /\ \A y : Occurs(y, ready') <=> Queued(y) \/ y = x
             /\ \A y : y \notin {Opened(c), Wake(c)} => (Occurs(y, ready') <=> Queued(y))
  <2>1. /\ WellQueued(ready \o <<x>>) /\ Append(ready, x) = ready \o <<x>>
        /\ \A y : Occurs(y, ready \o <<x>>) <=> Occurs(y, ready) \/ y = x
    BY <1>4, <1>5, PushQueue
  <2> QED
    BY <1>6, <2>1 DEF Queued
<1>7. CASE ready' = Append(ready, Opened(c)) /\ pc' = [pc EXCEPT ![c] = "connecting"]
  <2>1. Scheduled(c, "connecting", fut[c], ready')
    BY <1>3, <1>6, <1>7, CallbackFacts DEF Scheduled
  <2> QED
    BY <1>1, <1>2, <1>4, <1>6, <1>7, <2>1, HolderSteps
<1>8. CASE ready' = Append(ready, Wake(c)) /\ pc' = [pc EXCEPT ![c] = "failed"]
  <2>1. Scheduled(c, "failed", fut[c], ready')
    BY <1>1, <1>2, <1>3, <1>6, <1>8, CallbackFacts DEF Scheduled
  <2> QED
    BY <1>1, <1>2, <1>4, <1>6, <1>8, <2>1, HolderSteps
<1> QED
  BY <1>1, <1>7, <1>8

LEMMA StepConnectionOpened ==
    ASSUME IInv, NEW c \in Callers, ConnectionOpened(c)
    PROVE  IInv'
<1>1. /\ Runs(Opened(c)) /\ transport' = "open" /\ stream' = <<>>
      /\ UNCHANGED <<request, frames, calls, locked, waiters, retry,
                     command, owner, partial, fut, timer, armed>>
      /\ \/ ready' = Tail(ready) /\ pc' = [pc EXCEPT ![c] = "send"]
         \/ ready' = Append(Tail(ready), Released(c)) /\ pc' = [pc EXCEPT ![c] = "connected"]
  BY DEF ConnectionOpened, Goes, callerVars, lockVars, exchange, timerVars
<1>2. /\ {Opened(c), Released(c)} \in SUBSET StepsOf(c) /\ Queued(Opened(c))
      /\ Opened(c) # Released(c) /\ Released(c) \notin {Lost, Read}
  BY <1>1, StepRuns, CallbackFacts DEF StepsOf
<1>3. pc[c] = "connecting" /\ ~Queued(Wake(c)) /\ ~Queued(Probe(c)) /\ ~Queued(Released(c))
  BY <1>2 DEF IInv, LockInv, StepsOnce, Locking
<1>4. /\ pc'[c] \in {"send", "connected"} /\ \A d \in Callers : d # c => pc'[d] = pc[d]
      /\ pc' \in [Callers -> PCs]
  BY <1>1 DEF IInv, TypeOK, PCs, Synchronous, Suspended
<1>5. Holds(c) /\ Holds(c)' /\ fut[c] # Pending
  BY <1>3, <1>4, HolderAlone DEF Holds, IInv
<1>6. /\ WellQueued(ready')
      /\ \A y : Occurs(y, ready') <=>
                   (Queued(y) /\ y # Opened(c)) \/ (pc'[c] = "connected" /\ y = Released(c))
  <2>1. pc'[c] = "connected" <=> pc' = [pc EXCEPT ![c] = "connected"]
    BY <1>1 DEF IInv, TypeOK
  <2>2. CASE ready' = Tail(ready) /\ pc'[c] = "send"
    BY <1>1, <1>2, <2>2, StepRuns
  <2>3. CASE ready' = Append(Tail(ready), Released(c)) /\ pc'[c] = "connected"
    BY <1>1, <1>2, <1>3, <2>3, StepRuns
  <2> QED
    BY <1>1, <2>1, <2>2, <2>3 DEF IInv, TypeOK
<1>7. Scheduled(c, pc'[c], fut'[c], ready')
  BY <1>3, <1>4, <1>6, CallbackFacts DEF Scheduled
<1>8. \A d \in Callers, x \in Steps :
              d # c /\ x \in StepsOf(d) => (Occurs(x, ready') <=> Queued(x))
  BY <1>2, <1>6, OtherSteps
<1>9. LockInv' /\ StepComes'
  BY <1>1, <1>4, <1>5, <1>6, <1>7, <1>8, HolderMoves DEF IInv
<1>10. ~Queued(Lost) /\ ~Queued(Read)
  BY <1>1, ReadyWellQueued, PopQueue DEF IInv, Runs, Queued
<1>11. OpenIsUsable'
  <2>1. \A d \in Callers : pc'[d] # "connecting"
    BY <1>4, <1>5, HolderAlone DEF Holds, IInv
  <2>2. ~Occurs(Lost, ready') /\ ~Occurs(Read, ready')
    BY <1>2, <1>6, <1>10
  <2> QED
    BY <2>1, <2>2 DEF OpenIsUsable, Queued
<1>12. LinkInv'
  BY <1>4, <1>6, <1>11 DEF LinkInv, WellQueued, WillBeClosed
<1>13. TypeOK'
  BY <1>1, <1>4, <1>6 DEF IInv, TypeOK, WellQueued
<1> QED
  BY <1>9, <1>12, <1>13 DEF IInv

-----------------------------------------------------------------------------
(* Taking, awaiting and leaving the lock. *)

\* Under a free lock no future is pending.
LEMMA NoneHeld ==
    ASSUME TypeOK, LockInv, ~locked
    PROVE  /\ \A c \in Callers : ~Holds(c) /\ fut[c] # Pending
           /\ ~OwnerWaits /\ WakeOwner = <<>>
<1>1. \A c \in Callers : ~Holds(c) /\ fut[c] # Pending
  BY DEF LockInv, MutualExclusion, FutureBelongsToWaiter, Holds
<1> QED
  BY <1>1, OwnerFacts

LEMMA StepCall ==
    ASSUME IInv, NEW c \in Callers, NEW k \in Commands, Call(c, k)
    PROVE  IInv'
<1>1. /\ pc[c] = "idle" /\ calls[c] < MaxCalls
      /\ pc' = [pc EXCEPT ![c] = "acquire"] /\ request' = [request EXCEPT ![c] = k]
      /\ frames' = [frames EXCEPT ![c] = 1] /\ calls' = [calls EXCEPT ![c] = @ + 1]
      /\ fut' = [fut EXCEPT ![c] = IF @ = Stranded THEN @ ELSE NoFuture]
      /\ UNCHANGED <<locked, waiters, retry, transport, stream,
                     command, owner, partial, timer, armed, ready>>
  BY DEF Call, Goes, lockVars, linkVars, exchange, timerVars
<1>2. /\ pc'[c] = "acquire" /\ \A d \in Callers : d # c => pc'[d] = pc[d] /\ fut'[d] = fut[d]
      /\ pc' \in [Callers -> PCs] /\ fut'[c] \in Futures \ {Pending} /\ fut' \in [Callers -> Futures]
  BY <1>1, FutureTypes DEF IInv, TypeOK, PCs, Synchronous, Suspended
<1>3. \A d \in Callers : Holds(d)' <=> Holds(d)
  BY <1>1, <1>2 DEF Holds
<1>4. MutualExclusion' /\ NoLostWakeup'
  BY <1>1, <1>3 DEF IInv, LockInv, MutualExclusion, NoLostWakeup, Queued
<1>5. FutureBelongsToWaiter'
  BY <1>1, <1>2 DEF IInv, LockInv, FutureBelongsToWaiter
<1>6. WaitersWait' /\ WokenIsHead'
  BY <1>1, <1>2 DEF IInv, LockInv, WaitersWait, WokenIsHead, Locking, Queued
<1>7. StepsOnce'
  BY <1>1, <1>2 DEF IInv, LockInv, StepsOnce, Locking, Queued
<1>8. StepComes'
  BY <1>1, <1>2 DEF IInv, StepComes, Queued
<1>9. LinkInv'
  BY <1>1, <1>2 DEF IInv, LinkInv, OpenIsUsable, WillBeClosed, Queued
<1>10. TypeOK'
  BY <1>1, <1>2, TcpConstants DEF IInv, TypeOK
<1> QED
  BY <1>4, <1>5, <1>6, <1>7, <1>8, <1>9, <1>10 DEF IInv, LockInv

\* A request, or a close(), finds the lock taken or others before it.
LEMMA BehindOthers ==
    ASSUME IInv, NEW c \in Callers, pc[c] \in {"acquire", "close"}, locked \/ waiters # <<>>,
           waiters' = Append(waiters, c), NEW p \in Locking, pc' = [pc EXCEPT ![c] = p],
           UNCHANGED <<request, frames, calls, locked, retry, transport, stream,
                       command, owner, partial, fut, timer, armed, ready>>
    PROVE  IInv'
<1>1. /\ pc'[c] = p /\ \A d \in Callers : d # c => pc'[d] = pc[d]
      /\ pc' \in [Callers -> PCs]
  BY DEF IInv, TypeOK, PCs, Synchronous, Suspended, Locking
<1>2. /\ waiters' \in Seq(Callers)
      /\ \A y : Occurs(y, waiters') <=> Occurs(y, waiters) \/ y = c
      /\ \A y : AtMostOnce(y, waiters) /\ ~(y = c /\ Occurs(y, waiters)) => AtMostOnce(y, waiters')
  BY AppendFacts DEF IInv, TypeOK
<1>3. waiters' # <<>> /\ (waiters # <<>> => Head(waiters') = Head(waiters))
  BY DEF IInv, TypeOK
<1>4. \A d \in Callers : Holds(d)' <=> Holds(d)
  BY <1>1 DEF Holds, Locking
<1>5. MutualExclusion'
  BY <1>4 DEF IInv, LockInv, MutualExclusion
<1>6. NoLostWakeup'
  BY <1>3 DEF IInv, LockInv, NoLostWakeup, Queued
<1>7. FutureBelongsToWaiter'
  BY <1>1 DEF IInv, LockInv, FutureBelongsToWaiter
<1>8. WaitersWait'
  <2>1. pc[c] \notin Locking /\ ~Occurs(c, waiters)
    BY DEF Locking, IInv, LockInv, WaitersWait
  <2> QED
    BY <1>1, <1>2, <2>1 DEF IInv, LockInv, WaitersWait
<1>9. ~Queued(Wake(c)) /\ ~Queued(Probe(c)) /\ ~Queued(Opened(c)) /\ ~Queued(Released(c))
  BY DEF IInv, LockInv, StepsOnce, Locking
<1>10. WokenIsHead'
  <2> SUFFICES ASSUME NEW d \in Callers, pc'[d] \in Locking, Queued(Wake(d))
               PROVE  ~locked /\ Head(waiters') = d
    BY DEF WokenIsHead, Queued
  <2>1. d # c /\ pc[d] \in Locking
    BY <1>1, <1>9
  <2>2. ~locked /\ Head(waiters) = d
    BY <2>1 DEF IInv, LockInv, WokenIsHead
  <2> QED
    BY <1>3, <2>2
<1>11. StepsOnce'
  BY <1>1, <1>9 DEF IInv, LockInv, StepsOnce, Queued
<1>12. StepComes'
  BY <1>1 DEF IInv, StepComes, Queued, Locking
<1>13. LinkInv'
  BY <1>1 DEF IInv, LinkInv, OpenIsUsable, WillBeClosed, Queued, Locking
<1>14. TypeOK'
  BY <1>1, <1>2 DEF IInv, TypeOK
<1> QED
  BY <1>5, <1>6, <1>7, <1>8, <1>10, <1>11, <1>12, <1>13, <1>14 DEF IInv, LockInv

LEMMA StepAcquire ==
    ASSUME IInv, NEW c \in Callers, Acquire(c)
    PROVE  IInv'
<1>1. /\ pc[c] = "acquire"
      /\ UNCHANGED <<request, frames, calls, retry, transport, stream,
                     command, owner, partial, fut, timer, armed, ready>>
  BY DEF Acquire, callerVars, linkVars, exchange, timerVars
<1>2. CASE ~locked /\ waiters = <<>>
  <2>1. locked' = TRUE /\ waiters' = waiters /\ pc' = [pc EXCEPT ![c] = "connect"]
    BY <1>2 DEF Acquire, Goes
  <2>2. /\ pc'[c] = "connect" /\ \A d \in Callers : d # c => pc'[d] = pc[d]
        /\ pc' \in [Callers -> PCs]
    BY <2>1 DEF IInv, TypeOK, PCs, Synchronous, Suspended
  <2>3. \A d \in Callers : ~Holds(d) /\ fut[d] # Pending
    BY <1>2, NoneHeld DEF IInv
  <2>4. MutualExclusion' /\ FutureBelongsToWaiter'
    BY <1>1, <2>1, <2>2, <2>3 DEF MutualExclusion, FutureBelongsToWaiter, Holds
  <2>5. \A d \in Callers : pc'[d] \in Locking <=> pc[d] \in Locking
    BY <1>1, <2>2 DEF Locking
  <2>6. WaitersWait' /\ NoLostWakeup'
    BY <2>1, <2>5 DEF IInv, LockInv, WaitersWait, NoLostWakeup
  <2>7. \A d \in Callers : pc[d] \notin Locking
    BY <1>2 DEF IInv, LockInv, WaitersWait, Occurs
  <2>8. WokenIsHead' /\ StepsOnce'
    BY <1>1, <2>2, <2>5, <2>7 DEF IInv, LockInv, WokenIsHead, StepsOnce, Locking, Queued
  <2>9. StepComes' /\ LinkInv'
    BY <1>1, <2>2
       DEF IInv, StepComes, LinkInv, OpenIsUsable, WillBeClosed, Queued
  <2>10. TypeOK'
    BY <1>1, <2>1, <2>2 DEF IInv, TypeOK
  <2> QED
    BY <2>4, <2>6, <2>8, <2>9, <2>10 DEF IInv, LockInv
<1>3. CASE ~(~locked /\ waiters = <<>>)
  <2>1. /\ waiters' = Append(waiters, c) /\ pc' = [pc EXCEPT ![c] = "waiting"]
        /\ locked' = locked /\ "waiting" \in Locking
    BY <1>3 DEF Acquire, Goes, Locking
  <2> QED
    BY <1>1, <1>3, <2>1, BehindOthers
<1> QED
  BY <1>2, <1>3

\* The holder leaves: it settles what it had, frees the lock and wakes the first
\* waiter.
LEMMA HolderLeaves ==
    ASSUME TypeOK, LockInv, StepComes, NEW c \in Callers, pc[c] \in {"resumed", "refused"},
           NEW p \in {"idle", "acquire", "close"}, pc' = [pc EXCEPT ![c] = p],
           locked' = FALSE, waiters' = waiters, \A d \in Callers : fut'[d] # Pending,
           WellQueued(ready'),
           \A x \in Steps : Occurs(x, ready') <=>
                Queued(x) \/ (waiters # <<>> /\ x = Wake(Head(waiters)))
    PROVE  LockInv' /\ StepComes'
<1>1. /\ pc'[c] = p /\ \A d \in Callers : d # c => pc'[d] = pc[d]
      /\ Holds(c) /\ locked /\ \A d \in Callers : d # c => ~Holds(d)
  BY HolderAlone DEF TypeOK, Holds
<1>2. waiters # <<>> => /\ Head(waiters) \in Callers /\ pc[Head(waiters)] \in Locking
                        /\ Head(waiters) # c
  BY TailFacts DEF TypeOK, LockInv, WaitersWait, Locking
<1>3. ASSUME NEW d \in Callers
      PROVE  /\ Occurs(Wake(d), ready') <=> Queued(Wake(d)) \/ (waiters # <<>> /\ d = Head(waiters))
             /\ Occurs(Probe(d), ready') <=> Queued(Probe(d))
             /\ Occurs(Opened(d), ready') <=> Queued(Opened(d))
             /\ Occurs(Released(d), ready') <=> Queued(Released(d))
  BY <1>2, CallbackFacts
<1>4. MutualExclusion' /\ FutureBelongsToWaiter'
  BY <1>1 DEF MutualExclusion, FutureBelongsToWaiter, Holds
<1>5. \A d \in Callers : pc'[d] \in Locking <=> pc[d] \in Locking
  BY <1>1 DEF Locking
<1>6. WaitersWait'
  BY <1>5 DEF LockInv, WaitersWait
<1>7. NoLostWakeup'
  BY <1>2, <1>3 DEF NoLostWakeup, Queued
<1>8. WokenIsHead'
  <2>1. \A d \in Callers : pc[d] \in Locking => ~Queued(Wake(d))
    BY <1>1 DEF LockInv, WokenIsHead
  <2> QED
    BY <1>3, <1>5, <2>1 DEF WokenIsHead, Queued
<1>9. ASSUME NEW d \in Callers, NEW x \in {Wake(d), Probe(d), Opened(d), Released(d)}
      PROVE  AtMostOnce(x, ready')
  BY <1>9, CallbackFacts DEF WellQueued
<1>10. StepsOnce'
  <2>1. ASSUME NEW d \in Callers, Occurs(Wake(d), ready')
        PROVE  pc'[d] \in Locking \cup {"connected", "failed", "awaiting"}
    BY <1>1, <1>2, <1>3, <2>1 DEF LockInv, StepsOnce, Locking
  <2>2. ASSUME NEW d \in Callers, Occurs(Released(d), ready')
        PROVE  pc'[d] = "connected" /\ ~Occurs(Wake(d), ready')
    <3>1. pc[d] = "connected" /\ ~Queued(Wake(d))
      BY <1>3, <2>2 DEF LockInv, StepsOnce
    <3> QED
      BY <1>1, <1>2, <1>3, <3>1 DEF Locking
  <2>3. \A d \in Callers : /\ Occurs(Probe(d), ready') => pc'[d] = "probing"
                           /\ Occurs(Opened(d), ready') => pc'[d] = "connecting"
    BY <1>1, <1>3 DEF LockInv, StepsOnce
  <2> QED
    BY <1>9, <2>1, <2>2, <2>3 DEF StepsOnce, Queued
<1>11. StepComes'
  <2>1. \A d \in Callers : pc'[d] \notin {"probing", "connected", "failed", "awaiting"}
    BY <1>1 DEF Holds
  <2> QED
    BY <2>1 DEF StepComes
<1> QED
  BY <1>4, <1>6, <1>7, <1>8, <1>10, <1>11 DEF LockInv

\* The queue it leaves behind.
LEMMA LeaveQueues ==
    ASSUME IInv, NEW c \in Callers, pc[c] \in {"resumed", "refused"},
           \/ ready' = ready \o WakeNext
           \/ ready' = ready \o WakeNext \o LostIfOpen \o WakeOwner
           \/ ready' = ready \o LostIfOpen \o WakeOwner \o WakeNext
    PROVE  /\ WellQueued(ready')
           /\ \A x \in Steps : Occurs(x, ready') <=>
                Queued(x) \/ (waiters # <<>> /\ x = Wake(Head(waiters)))
           /\ ready' = ready \o WakeNext => \A x \in {Lost, Read} : Occurs(x, ready') => Queued(x)
<1>1. locked /\ ~OwnerWaits /\ WakeOwner = <<>>
  BY HolderAlone, OwnerFacts DEF Holds, IInv
<1>2. WellQueued(ready) /\ \A x : Occurs(x, ready) <=> Queued(x)
  BY ReadyWellQueued DEF IInv, Queued
<1>3. /\ WellQueued(ready \o WakeNext)
      /\ waiters # <<>> => Head(waiters) \in Callers
      /\ \A y : Occurs(y, ready \o WakeNext) <=>
                   Queued(y) \/ (waiters # <<>> /\ y = Wake(Head(waiters)))
  <2>1. \A d \in Callers : Occurs(Wake(d), ready) => Queued(Wake(d))
    BY <1>2
  <2>2. /\ WellQueued(ready \o WakeNext)
        /\ waiters # <<>> => Head(waiters) \in Callers
        /\ \A y : Occurs(y, ready \o WakeNext) <=>
                     Occurs(y, ready) \/ (locked /\ waiters # <<>> /\ y = Wake(Head(waiters)))
    BY <1>2, <2>1, JoinNext DEF IInv
  <2> QED
    BY <1>1, <1>2, <2>2
<1>4. /\ WellQueued(ready \o WakeNext \o LostIfOpen)
      /\ \A y : Occurs(y, ready \o WakeNext \o LostIfOpen) <=>
                   Occurs(y, ready \o WakeNext) \/ (transport = "open" /\ y = Lost)
  <2>1. \A d \in Callers : Occurs(Opened(d), ready \o WakeNext) => Queued(Opened(d))
    BY <1>3, CallbackFacts
  <2> QED
    BY <1>3, <2>1, JoinLost DEF IInv
<1>5. /\ WellQueued(ready \o LostIfOpen)
      /\ \A y : Occurs(y, ready \o LostIfOpen) <=> Queued(y) \/ (transport = "open" /\ y = Lost)
  BY <1>2, JoinLost DEF IInv
<1>6. /\ WellQueued(ready \o LostIfOpen \o WakeNext)
      /\ \A y : Occurs(y, ready \o LostIfOpen \o WakeNext) <=>
                   Occurs(y, ready \o LostIfOpen) \/ (waiters # <<>> /\ y = Wake(Head(waiters)))
  <2>1. \A d \in Callers : Occurs(Wake(d), ready \o LostIfOpen) => Queued(Wake(d))
    BY <1>5, CallbackFacts
  <2> QED
    BY <1>1, <1>5, <2>1, JoinNext DEF IInv
<1>7. ready' \in {ready \o WakeNext, ready \o WakeNext \o LostIfOpen,
                  ready \o LostIfOpen \o WakeNext}
  BY <1>1, <1>4, <1>5, ConcatEmptySeq DEF WellQueued
<1>8. WellQueued(ready')
  BY <1>3, <1>4, <1>6, <1>7
<1>9. ASSUME NEW x \in Steps
      PROVE  Occurs(x, ready') <=> Queued(x) \/ (waiters # <<>> /\ x = Wake(Head(waiters)))
  <2>1. x # Lost
    BY CallbackFacts
  <2>2. CASE ready' = ready \o WakeNext
    BY <1>3, <2>2
  <2>3. CASE ready' = ready \o WakeNext \o LostIfOpen
    BY <1>3, <1>4, <2>1, <2>3
  <2>4. CASE ready' = ready \o LostIfOpen \o WakeNext
    BY <1>5, <1>6, <2>1, <2>4
  <2> QED
    BY <1>7, <2>2, <2>3, <2>4
<1>10. ASSUME ready' = ready \o WakeNext, NEW x \in {Lost, Read}, Occurs(x, ready')
       PROVE  Queued(x)
  <2>1. waiters # <<>> => Wake(Head(waiters)) # x
    BY <1>3, CallbackFacts
  <2> QED
    BY <1>3, <1>10, <2>1
<1> QED
  BY <1>8, <1>9, <1>10

LEMMA StepReturn ==
    ASSUME IInv, NEW c \in Callers, Return(c)
    PROVE  IInv'
<1>1. /\ pc[c] = "resumed" /\ locked' = FALSE /\ ready' = ready \o WakeNext
      /\ UNCHANGED <<request, frames, calls, waiters, retry, transport, stream,
                     command, owner, partial, fut, timer, armed>>
  BY DEF Return, callerVars, linkVars, exchange, timerVars
<1>2. PICK p \in {"idle", "close"} : pc' = [pc EXCEPT ![c] = p] /\ (~KeepAlive => p = "close")
  BY DEF Return, Goes
<1>3. /\ pc'[c] = p /\ \A d \in Callers : d # c => pc'[d] = pc[d]
      /\ pc' \in [Callers -> PCs]
  BY <1>2 DEF IInv, TypeOK, PCs, Synchronous, Suspended
<1>4. \A d \in Callers : fut[d] # Pending
  BY <1>1, HolderAlone DEF Holds, IInv
<1>5. /\ WellQueued(ready')
      /\ \A x \in Steps : Occurs(x, ready') <=>
                Queued(x) \/ (waiters # <<>> /\ x = Wake(Head(waiters)))
      /\ \A x \in {Lost, Read} : Occurs(x, ready') => Queued(x)
  BY <1>1, LeaveQueues
<1>6. LockInv' /\ StepComes'
  BY <1>1, <1>2, <1>4, <1>5, HolderLeaves DEF IInv
<1>7. OpenIsUsable'
  BY <1>1, <1>3, <1>5 DEF IInv, LinkInv, OpenIsUsable, Queued
<1>8. LinkInv'
  BY <1>1, <1>2, <1>3, <1>5, <1>7 DEF IInv, LinkInv, WellQueued, WillBeClosed
<1>9. TypeOK'
  BY <1>1, <1>3, <1>5 DEF IInv, TypeOK, WellQueued
<1> QED
  BY <1>6, <1>8, <1>9 DEF IInv

\* A retry, and the recursion error of one too many.
LEMMA StepFailed ==
    ASSUME IInv, NEW c \in Callers, Retry(c) \/ RecursionLimit(c)
    PROVE  IInv'
<1>1. /\ pc[c] \in {"resumed", "refused"} /\ retry < MaxRetries /\ retry' = retry + 1
      /\ locked' = FALSE /\ ReleaseAndDrop(c)
      /\ UNCHANGED <<request, calls, waiters, command, owner, partial, timer, armed>>
      /\ frames' = frames \/ (frames[c] < MaxFrames /\ frames' = [frames EXCEPT ![c] = @ + 1])
  BY DEF Retry, RecursionLimit, Failed, TimedOut, ReleaseAndDrop, callerVars, exchange, timerVars
<1>2. PICK p \in {"idle", "close", "acquire"} :
         pc' = [pc EXCEPT ![c] = p] /\ (~KeepAlive => p # "idle")
  BY DEF Retry, RecursionLimit, Goes
<1>3. /\ pc'[c] = p /\ \A d \in Callers : d # c => pc'[d] = pc[d]
      /\ pc' \in [Callers -> PCs]
  BY <1>2 DEF IInv, TypeOK, PCs, Synchronous, Suspended
<1>4. \A d \in Callers : fut[d] # Pending
  BY <1>1, HolderAlone DEF Holds, IInv
<1>5. /\ \/ ready' = ready \o WakeNext /\ UNCHANGED <<transport, stream, fut>>
         \/ /\ ready' = ready \o WakeNext \o LostIfOpen \o WakeOwner
            /\ transport' = "none" /\ stream' = <<>> /\ fut' = Settle(Cancelled)
  BY <1>1 DEF ReleaseAndDrop, CloseTransport, HangUp, linkVars
<1>6. fut' \in [Callers -> Futures] /\ \A d \in Callers : fut'[d] # Pending
  <2>1. /\ Settle(Cancelled) \in [Callers -> Futures]
        /\ \A d \in Callers : Settle(Cancelled)[d] # Pending
    BY Settled, FutureTypes DEF IInv
  <2>2. fut \in [Callers -> Futures]
    BY DEF IInv, TypeOK
  <2> QED
    BY <1>4, <1>5, <2>1, <2>2
<1>7. /\ WellQueued(ready')
      /\ \A x \in Steps : Occurs(x, ready') <=>
                Queued(x) \/ (waiters # <<>> /\ x = Wake(Head(waiters)))
      /\ ready' = ready \o WakeNext => \A x \in {Lost, Read} : Occurs(x, ready') => Queued(x)
  BY <1>1, <1>5, LeaveQueues
<1>8. LockInv' /\ StepComes'
  BY <1>1, <1>2, <1>6, <1>7, HolderLeaves DEF IInv
<1>9. OpenIsUsable' /\ WillBeClosed'
  <2>1. CASE transport' = "none"
    BY <2>1 DEF OpenIsUsable, WillBeClosed
  <2>2. CASE ready' = ready \o WakeNext /\ UNCHANGED <<transport, stream, fut>>
    BY <1>2, <1>3, <1>7, <2>2 DEF IInv, LinkInv, OpenIsUsable, WillBeClosed, Queued
  <2> QED
    BY <1>5, <2>1, <2>2
<1>10. LinkInv'
  BY <1>7, <1>9 DEF LinkInv, WellQueued
<1>11. TypeOK'
  <2>0. /\ frames \in [Callers -> 0..MaxFrames] /\ retry \in 0..MaxRetries
        /\ transport \in {"none", "open", "closing"} /\ stream \in Seq(Segments)
    BY DEF IInv, TypeOK
  <2>1. frames' \in [Callers -> 0..MaxFrames] /\ retry' \in 0..MaxRetries
    <3>1. MaxFrames \in Nat /\ MaxRetries \in Nat
      BY TcpConstants
    <3>2. retry' \in 0..MaxRetries
      BY <1>1, <2>0, <3>1
    <3>3. CASE frames' = frames
      BY <2>0, <3>2, <3>3
    <3>4. CASE frames[c] < MaxFrames /\ frames' = [frames EXCEPT ![c] = @ + 1]
      <4>1. frames[c] + 1 \in 0..MaxFrames
        BY <2>0, <3>1, <3>4
      <4> QED
        BY <2>0, <3>2, <3>4, <4>1
    <3> QED
      BY <1>1, <3>3, <3>4
  <2>2. transport' \in {"none", "open", "closing"} /\ stream' \in Seq(Segments)
    <3>1. UNCHANGED <<transport, stream>> \/ (transport' = "none" /\ stream' = <<>>)
      BY <1>5
    <3>2. <<>> \in Seq(Segments)
      BY ShortFacts
    <3> QED
      BY <2>0, <3>1, <3>2
  <2>3. ready' \in Seq(Callbacks)
    BY <1>7 DEF WellQueued
  <2> QED
    BY <1>1, <1>3, <1>6, <2>1, <2>2, <2>3 DEF IInv, TypeOK
<1> QED
  BY <1>8, <1>10, <1>11 DEF IInv

LEMMA StepMaxRetriesReached ==
    ASSUME IInv, NEW c \in Callers, MaxRetriesReached(c)
    PROVE  IInv'
<1>1. /\ pc[c] \in {"resumed", "refused"} /\ transport' = "none" /\ stream' = <<>>
      /\ owner' = c /\ fut' = [Settle(Cancelled) EXCEPT ![c] = Exhausted] /\ locked' = FALSE
      /\ ready' = ready \o LostIfOpen \o WakeOwner \o WakeNext
      /\ UNCHANGED <<request, frames, calls, waiters, retry, command, partial, timer, armed>>
  BY DEF MaxRetriesReached, Failed, TimedOut, HangUp, callerVars, timerVars
<1>2. PICK p \in {"idle", "close"} : pc' = [pc EXCEPT ![c] = p]
  BY DEF MaxRetriesReached, Goes
<1>3. pc' \in [Callers -> PCs]
  BY <1>2 DEF IInv, TypeOK, PCs, Synchronous, Suspended
<1>4. fut' \in [Callers -> Futures] /\ \A d \in Callers : fut'[d] # Pending
  BY <1>1, Settled, FutureTypes DEF IInv
<1>5. /\ WellQueued(ready')
      /\ \A x \in Steps : Occurs(x, ready') <=>
                Queued(x) \/ (waiters # <<>> /\ x = Wake(Head(waiters)))
  BY <1>1, LeaveQueues
<1>6. LockInv' /\ StepComes'
  BY <1>1, <1>2, <1>4, <1>5, HolderLeaves DEF IInv
<1>7. LinkInv'
  BY <1>1, <1>5 DEF LinkInv, WellQueued, OpenIsUsable, WillBeClosed
<1>8. TypeOK'
  <2>1. transport' \in {"none", "open", "closing"} /\ stream' \in Seq(Segments)
    BY <1>1
  <2>2. ready' \in Seq(Callbacks) /\ owner' \in Callers \cup {None} /\ locked' \in BOOLEAN
    BY <1>1, <1>5 DEF WellQueued
  <2>3. UNCHANGED <<request, frames, calls, waiters, retry, command, partial, timer, armed>>
    BY <1>1
  <2> QED
    BY <1>3, <1>4, <2>1, <2>2, <2>3 DEF IInv, TypeOK
<1> QED
  BY <1>6, <1>7, <1>8 DEF IInv

\* close() under a free lock.
LEMMA StepClose ==
    ASSUME IInv, NEW c \in Callers, Close(c)
    PROVE  IInv'
<1>1. /\ pc[c] = "close"
      /\ UNCHANGED <<request, frames, calls, locked, retry, command, owner, partial, timer, armed>>
  BY DEF Close, callerVars, exchange, timerVars
<1>2. CASE ~locked /\ waiters = <<>>
  <2>1. /\ waiters' = waiters /\ pc' = [pc EXCEPT ![c] = "idle"]
        /\ transport' = "none" /\ stream' = <<>> /\ fut' = Settle(Cancelled)
        /\ ready' = ready \o LostIfOpen \o WakeOwner
    BY <1>2 DEF Close, Goes, CloseTransport, HangUp
  <2>2. /\ pc'[c] = "idle" /\ \A d \in Callers : d # c => pc'[d] = pc[d]
        /\ pc' \in [Callers -> PCs]
    BY <2>1 DEF IInv, TypeOK, PCs, Synchronous, Suspended
  <2>3. /\ \A d \in Callers : ~Holds(d) /\ fut[d] # Pending
        /\ WakeOwner = <<>>
    BY <1>2, NoneHeld DEF IInv
  <2>4. fut' \in [Callers -> Futures] /\ \A d \in Callers : fut'[d] # Pending
    BY <2>1, Settled, FutureTypes DEF IInv
  <2>5. /\ WellQueued(ready')
        /\ \A y : Occurs(y, ready') <=> Queued(y) \/ (transport = "open" /\ y = Lost)
    <3>1. WellQueued(ready) /\ \A x : Occurs(x, ready) <=> Queued(x)
      BY ReadyWellQueued DEF IInv, Queued
    <3>2. /\ WellQueued(ready \o LostIfOpen)
          /\ \A y : Occurs(y, ready \o LostIfOpen) <=> Occurs(y, ready) \/ (transport = "open" /\ y = Lost)
      BY <3>1, JoinLost DEF IInv
    <3>3. ready' = ready \o LostIfOpen
      BY <2>1, <2>3, <3>2, ConcatEmptySeq DEF WellQueued
    <3> QED
      BY <3>1, <3>2, <3>3
  <2>6. \A d \in Callers : \A x \in {Wake(d), Probe(d), Opened(d), Released(d)} :
            /\ Occurs(x, ready') <=> Queued(x)
            /\ AtMostOnce(x, ready')
    <3>1. \A d \in Callers : Lost \notin {Wake(d), Probe(d), Opened(d), Released(d)}
      BY CallbackFacts
    <3>2. \A d \in Callers : {Wake(d), Probe(d), Opened(d), Released(d)} \subseteq Steps
      BY CallbackFacts
    <3> QED
      BY <2>5, <3>1, <3>2 DEF WellQueued
  <2>7. \A d \in Callers : pc[d] \notin Locking /\ pc'[d] \notin Locking
    BY <1>2, <2>2 DEF IInv, LockInv, WaitersWait, Occurs, Locking
  <2>8. MutualExclusion' /\ FutureBelongsToWaiter'
    BY <1>1, <1>2, <2>2, <2>3, <2>4 DEF MutualExclusion, FutureBelongsToWaiter, Holds
  <2>9. NoLostWakeup' /\ WaitersWait' /\ WokenIsHead'
    BY <1>2, <2>1, <2>7 DEF IInv, LockInv, NoLostWakeup, WaitersWait, WokenIsHead
  <2>10. StepsOnce'
    BY <1>1, <2>2, <2>4, <2>6 DEF IInv, LockInv, StepsOnce, Queued, Locking
  <2>11. StepComes'
    <3>1. \A d \in Callers : pc'[d] \notin {"probing", "connected", "failed", "awaiting"}
      BY <2>2, <2>3 DEF Holds
    <3> QED
      BY <3>1 DEF StepComes
  <2>12. LinkInv'
    BY <2>1, <2>5 DEF LinkInv, WellQueued, OpenIsUsable, WillBeClosed
  <2>13. TypeOK'
    BY <1>1, <2>1, <2>2, <2>4, <2>5 DEF IInv, TypeOK, WellQueued
  <2> QED
    BY <2>8, <2>9, <2>10, <2>11, <2>12, <2>13 DEF IInv, LockInv
<1>3. CASE ~(~locked /\ waiters = <<>>)
  <2>1. /\ waiters' = Append(waiters, c) /\ pc' = [pc EXCEPT ![c] = "closing"]
        /\ UNCHANGED <<transport, stream, fut, ready>> /\ "closing" \in Locking
    BY <1>3 DEF Close, Goes, Locking, linkVars
  <2> QED
    BY <1>1, <1>3, <2>1, BehindOthers
<1> QED
  BY <1>2, <1>3

\* The first waiter runs.
LEMMA FirstWaiter ==
    ASSUME IInv, NEW c \in Callers, Runs(Wake(c)), pc[c] \in Locking
    PROVE  /\ ~locked /\ waiters # <<>> /\ Head(waiters) = c
           /\ Tail(waiters) \in Seq(Callers)
           /\ \A d \in Callers : /\ Occurs(d, Tail(waiters)) <=> Occurs(d, waiters) /\ d # c
                                 /\ AtMostOnce(d, Tail(waiters))
           /\ Tail(waiters) # <<>> => /\ Head(Tail(waiters)) \in Callers
                                      /\ pc[Head(Tail(waiters))] \in Locking
                                      /\ Head(Tail(waiters)) # c
           /\ \A d \in Callers : d # c /\ pc[d] \in Locking => ~Queued(Wake(d))
           /\ WellQueued(Tail(ready))
           /\ \A y : Occurs(y, Tail(ready)) <=> Queued(y) /\ y # Wake(c)
           /\ \A d \in Callers : ~Holds(d) /\ fut[d] # Pending
<1>1. /\ Queued(Wake(c)) /\ WellQueued(Tail(ready))
      /\ \A y : Occurs(y, Tail(ready)) <=> Queued(y) /\ y # Wake(c)
  BY StepRuns DEF StepsOf
<1>2. ~locked /\ Head(waiters) = c /\ Occurs(c, waiters)
  BY <1>1 DEF IInv, LockInv, WokenIsHead, WaitersWait
<1>3. waiters # <<>> /\ waiters \in Seq(Callers)
  BY <1>2 DEF Occurs, IInv, TypeOK
<1>4. /\ Tail(waiters) \in Seq(Callers)
      /\ \A x : Occurs(x, Tail(waiters)) => Occurs(x, waiters)
      /\ \A x : AtMostOnce(x, waiters) => AtMostOnce(x, Tail(waiters))
      /\ \A x : AtMostOnce(x, waiters) /\ x = Head(waiters) => ~Occurs(x, Tail(waiters))
      /\ \A x : x # Head(waiters) /\ Occurs(x, waiters) => Occurs(x, Tail(waiters))
  BY <1>3, TailFacts
<1>5. \A d \in Callers : /\ Occurs(d, Tail(waiters)) <=> Occurs(d, waiters) /\ d # c
                         /\ AtMostOnce(d, Tail(waiters))
  BY <1>2, <1>4 DEF IInv, LockInv, WaitersWait
<1>6. Tail(waiters) # <<>> => /\ Head(Tail(waiters)) \in Callers
                              /\ Occurs(Head(Tail(waiters)), Tail(waiters))
  BY <1>4, TailFacts
<1>7. Tail(waiters) # <<>> => /\ pc[Head(Tail(waiters))] \in Locking
                              /\ Head(Tail(waiters)) # c
  BY <1>5, <1>6 DEF IInv, LockInv, WaitersWait
<1>8. \A d \in Callers : d # c /\ pc[d] \in Locking => ~Queued(Wake(d))
  BY <1>2 DEF IInv, LockInv, WokenIsHead
<1>9. \A d \in Callers : ~Holds(d) /\ fut[d] # Pending
  BY <1>2, NoneHeld DEF IInv
<1> QED
  BY <1>1, <1>2, <1>3, <1>4, <1>5, <1>6, <1>7, <1>8, <1>9

LEMMA StepWakeAcquired ==
    ASSUME IInv, NEW c \in Callers, WakeAcquired(c)
    PROVE  IInv'
<1>1. /\ Runs(Wake(c)) /\ pc[c] = "waiting" /\ pc' = [pc EXCEPT ![c] = "connect"]
      /\ locked' = TRUE /\ waiters' = Tail(waiters) /\ ready' = Tail(ready)
      /\ UNCHANGED <<request, frames, calls, retry, transport, stream,
                     command, owner, partial, fut, timer, armed>>
  BY DEF WakeAcquired, Goes, callerVars, linkVars, exchange, timerVars
<1>2. /\ waiters' \in Seq(Callers)
      /\ \A d \in Callers : /\ Occurs(d, waiters') <=> Occurs(d, waiters) /\ d # c
                            /\ AtMostOnce(d, waiters')
      /\ \A d \in Callers : d # c /\ pc[d] \in Locking => ~Queued(Wake(d))
      /\ WellQueued(ready')
      /\ \A y : Occurs(y, ready') <=> Queued(y) /\ y # Wake(c)
      /\ \A d \in Callers : ~Holds(d) /\ fut[d] # Pending
  BY <1>1, FirstWaiter DEF Locking
<1>3. /\ pc'[c] = "connect" /\ \A d \in Callers : d # c => pc'[d] = pc[d]
      /\ pc' \in [Callers -> PCs]
  BY <1>1 DEF IInv, TypeOK, PCs, Synchronous, Suspended
<1>4. \A d \in Callers : /\ Occurs(Wake(d), ready') <=> Queued(Wake(d)) /\ d # c
                         /\ Occurs(Probe(d), ready') <=> Queued(Probe(d))
                         /\ Occurs(Opened(d), ready') <=> Queued(Opened(d))
                         /\ Occurs(Released(d), ready') <=> Queued(Released(d))
  BY <1>2, CallbackFacts
<1>5. MutualExclusion' /\ FutureBelongsToWaiter' /\ NoLostWakeup'
  BY <1>1, <1>2, <1>3 DEF MutualExclusion, FutureBelongsToWaiter, NoLostWakeup, Holds
<1>6. WaitersWait'
  BY <1>1, <1>2, <1>3 DEF IInv, LockInv, WaitersWait, Locking
<1>7. WokenIsHead'
  BY <1>2, <1>3, <1>4 DEF WokenIsHead, Locking, Queued
<1>8. \A d \in Callers : \A x \in {Wake(d), Probe(d), Opened(d), Released(d)} : AtMostOnce(x, ready')
  <2>1. \A d \in Callers : {Wake(d), Probe(d), Opened(d), Released(d)} \subseteq Steps
    BY CallbackFacts
  <2> QED
    BY <1>2, <2>1 DEF WellQueued
<1>9. StepsOnce'
  BY <1>1, <1>3, <1>4, <1>8 DEF IInv, LockInv, StepsOnce, Queued, Locking
<1>10. StepComes'
  <2>1. \A d \in Callers : pc'[d] \notin {"probing", "connected", "failed", "awaiting"}
    BY <1>2, <1>3 DEF Holds
  <2> QED
    BY <2>1 DEF StepComes
<1>11. LinkInv'
  <2>1. \A x \in {Lost, Read} : Occurs(x, ready') => Queued(x)
    BY <1>2
  <2> QED
    BY <1>1, <1>2, <1>3, <2>1, LinkMoves DEF IInv
<1>12. TypeOK'
  BY <1>1, <1>2, <1>3 DEF IInv, TypeOK, WellQueued
<1> QED
  BY <1>5, <1>6, <1>7, <1>9, <1>10, <1>11, <1>12 DEF IInv, LockInv

LEMMA StepWakeClosing ==
    ASSUME IInv, NEW c \in Callers, WakeClosing(c)
    PROVE  IInv'
<1> DEFINE next == IF Len(waiters) > 1 THEN <<Wake(waiters[2])>> ELSE <<>>
           rest == Tail(ready)
<1>1. /\ Runs(Wake(c)) /\ pc[c] = "closing" /\ pc' = [pc EXCEPT ![c] = "idle"]
      /\ waiters' = Tail(waiters) /\ transport' = "none" /\ stream' = <<>>
      /\ fut' = Settle(Cancelled) /\ ready' = rest \o LostIfOpen \o WakeOwner \o next
      /\ UNCHANGED <<request, frames, calls, locked, retry, command, owner, partial, timer, armed>>
  BY DEF WakeClosing, Goes, HangUp, callerVars, exchange, timerVars
<1>2. /\ ~locked /\ waiters # <<>>
      /\ waiters' \in Seq(Callers)
      /\ \A d \in Callers : /\ Occurs(d, waiters') <=> Occurs(d, waiters) /\ d # c
                            /\ AtMostOnce(d, waiters')
      /\ waiters' # <<>> => /\ Head(waiters') \in Callers /\ Head(waiters') # c
                            /\ pc[Head(waiters')] \in Locking
      /\ \A d \in Callers : d # c /\ pc[d] \in Locking => ~Queued(Wake(d))
      /\ WellQueued(rest)
      /\ \A y : Occurs(y, rest) <=> Queued(y) /\ y # Wake(c)
      /\ \A d \in Callers : ~Holds(d) /\ fut[d] # Pending
  BY <1>1, FirstWaiter DEF Locking
<1>3. /\ pc'[c] = "idle" /\ \A d \in Callers : d # c => pc'[d] = pc[d]
      /\ pc' \in [Callers -> PCs]
  BY <1>1 DEF IInv, TypeOK, PCs, Synchronous, Suspended
<1>4. next = IF waiters' # <<>> THEN <<Wake(Head(waiters'))>> ELSE <<>>
  <2>1. waiters \in Seq(Callers)
    BY DEF IInv, TypeOK
  <2>2. /\ Len(waiters) \in Nat \ {0} /\ Len(Tail(waiters)) = Len(waiters) - 1
        /\ Tail(waiters) = <<>> <=> Len(Tail(waiters)) = 0
        /\ Len(waiters) > 1 => Head(Tail(waiters)) = waiters[2]
    <3>1. waiters # <<>>
      BY <1>2
    <3>2. /\ Len(waiters) \in Nat \ {0} /\ Tail(waiters) \in Seq(Callers)
          /\ Len(Tail(waiters)) = Len(waiters) - 1
          /\ \A i \in 1..(Len(waiters) - 1) : Tail(waiters)[i] = waiters[i + 1]
      BY <2>1, <3>1, HeadTailProperties, LenProperties, EmptySeq
    <3>3. /\ Tail(waiters) = <<>> <=> Len(Tail(waiters)) = 0
          /\ Tail(waiters) # <<>> => Head(Tail(waiters)) = Tail(waiters)[1]
      <4>1. \A w \in Seq(Callers) : (w = <<>> <=> Len(w) = 0) /\ (w # <<>> => Head(w) = w[1])
        BY HeadTailProperties, EmptySeq
      <4> QED
        BY <3>2, <4>1
    <3>4. ASSUME Len(waiters) > 1 PROVE Head(Tail(waiters)) = waiters[2]
      BY <3>2, <3>3, <3>4
    <3> QED
      BY <3>2, <3>3, <3>4
  <2> QED
    BY <1>1, <2>2
<1>5. fut' \in [Callers -> Futures] /\ \A d \in Callers : fut'[d] # Pending
  BY <1>1, Settled, FutureTypes DEF IInv
<1> HIDE DEF next, rest
<1>6. /\ WellQueued(rest \o LostIfOpen)
      /\ \A y : Occurs(y, rest \o LostIfOpen) <=>
                   Occurs(y, rest) \/ (transport = "open" /\ y = Lost)
  BY <1>2, JoinLost DEF IInv
<1>7. /\ WellQueued(ready')
      /\ \A y : Occurs(y, ready') <=>
                   \/ Queued(y) /\ y # Wake(c)
                   \/ waiters' # <<>> /\ y = Wake(Head(waiters'))
                   \/ transport = "open" /\ y = Lost
  <2> DEFINE closed == rest \o LostIfOpen
  <2>1. ready' = closed \o next
    <3>1. WakeOwner = <<>>
      BY <1>2, NoneHeld DEF IInv
    <3> QED
      BY <1>1, <1>6, <3>1, ConcatEmptySeq DEF WellQueued
  <2>2. \A y : Occurs(y, closed) <=> (Queued(y) /\ y # Wake(c)) \/ (transport = "open" /\ y = Lost)
    BY <1>2, <1>6
  <2>3. WellQueued(closed)
    BY <1>6
  <2> HIDE DEF closed
  <2>4. CASE waiters' = <<>>
    <3>1. ready' = closed
      BY <1>4, <2>1, <2>3, <2>4, ConcatEmptySeq DEF WellQueued
    <3> QED
      BY <2>2, <2>3, <2>4, <3>1
  <2>5. CASE waiters' # <<>>
    <3> DEFINE x == Wake(Head(waiters'))
    <3>1. x \in Callbacks /\ x \notin {Lost, Read}
      BY <1>2, <2>5, CallbackFacts
    <3>2. ~Occurs(x, closed)
      BY <1>2, <2>2, <2>5, <3>1
    <3> HIDE DEF x
    <3>3. /\ WellQueued(closed \o <<x>>)
          /\ \A y : Occurs(y, closed \o <<x>>) <=> Occurs(y, closed) \/ y = x
      BY <2>3, <3>1, <3>2, PushQueue
    <3> QED
      BY <1>4, <2>1, <2>2, <2>5, <3>3 DEF x
  <2> QED
    BY <2>4, <2>5
<1>8. ASSUME NEW d \in Callers
      PROVE  /\ Occurs(Wake(d), ready') <=>
                   (Queued(Wake(d)) /\ d # c) \/ (waiters' # <<>> /\ d = Head(waiters'))
             /\ Occurs(Probe(d), ready') <=> Queued(Probe(d))
             /\ Occurs(Opened(d), ready') <=> Queued(Opened(d))
             /\ Occurs(Released(d), ready') <=> Queued(Released(d))
  <2>1. Lost \notin {Wake(d), Probe(d), Opened(d), Released(d)}
    BY CallbackFacts
  <2>2. /\ Wake(d) = Wake(c) <=> d = c
        /\ waiters' # <<>> => (Wake(d) = Wake(Head(waiters')) <=> d = Head(waiters'))
    BY CallbackFacts
  <2>3. \A e : Wake(e) \notin {Probe(d), Opened(d), Released(d)}
    BY CallbackFacts
  <2> QED
    BY <1>7, <2>1, <2>2, <2>3
<1>9. MutualExclusion' /\ FutureBelongsToWaiter'
  BY <1>1, <1>2, <1>3, <1>5 DEF MutualExclusion, FutureBelongsToWaiter, Holds
<1>10. NoLostWakeup'
  BY <1>2, <1>8 DEF NoLostWakeup, Queued
<1>11. WaitersWait'
  BY <1>1, <1>2, <1>3 DEF IInv, LockInv, WaitersWait, Locking
<1>12. WokenIsHead'
  BY <1>1, <1>2, <1>3, <1>8 DEF WokenIsHead, Locking, Queued
<1>13. \A d \in Callers : \A x \in {Wake(d), Probe(d), Opened(d), Released(d)} : AtMostOnce(x, ready')
  <2>1. \A d \in Callers : {Wake(d), Probe(d), Opened(d), Released(d)} \subseteq Steps
    BY CallbackFacts
  <2> QED
    BY <1>7, <2>1 DEF WellQueued
<1>14. StepsOnce'
  <2>1. ASSUME NEW d \in Callers, Occurs(Wake(d), ready')
        PROVE  pc'[d] \in Locking \cup {"connected", "failed", "awaiting"}
    BY <1>2, <1>3, <1>8, <2>1 DEF IInv, LockInv, StepsOnce
  <2>2. ASSUME NEW d \in Callers, Occurs(Released(d), ready') PROVE FALSE
    BY <1>2, <1>8, <2>2 DEF IInv, LockInv, StepsOnce, Holds
  <2>3. ASSUME NEW d \in Callers, Occurs(Probe(d), ready') \/ Occurs(Opened(d), ready') PROVE FALSE
    BY <1>2, <1>8, <2>3 DEF IInv, LockInv, StepsOnce, Holds
  <2> QED
    BY <1>5, <1>13, <2>1, <2>2, <2>3 DEF StepsOnce, Queued
<1>15. StepComes'
  <2>1. \A d \in Callers : pc'[d] \notin {"probing", "connected", "failed", "awaiting"}
    BY <1>2, <1>3 DEF Holds
  <2> QED
    BY <2>1 DEF StepComes
<1>16. LinkInv'
  BY <1>1, <1>7 DEF LinkInv, WellQueued, OpenIsUsable, WillBeClosed
<1>17. TypeOK'
  <2>1. waiters' \in Seq(Callers) /\ ready' \in Seq(Callbacks)
    BY <1>2, <1>7 DEF WellQueued
  <2>2. transport' \in {"none", "open", "closing"} /\ stream' \in Seq(Segments)
    BY <1>1
  <2>3. UNCHANGED <<request, frames, calls, locked, retry, command, owner, partial, timer, armed>>
    BY <1>1
  <2> QED
    BY <1>3, <1>5, <2>1, <2>2, <2>3 DEF IInv, TypeOK
<1> QED
  BY <1>9, <1>10, <1>11, <1>12, <1>14, <1>15, <1>16, <1>17 DEF IInv, LockInv

-----------------------------------------------------------------------------
(* The selector, and every step. *)

\* Data to read on an open connection, or a timer that is due.
LEMMA StepPoll ==
    ASSUME IInv, PollReadable \/ \E t \in TimerIds : PollTimer(t)
    PROVE  IInv'
<1>1. /\ UNCHANGED <<pc, request, frames, calls, locked, waiters, retry, transport, stream,
                     command, owner, partial, fut, timer, armed>>
      /\ \E x \in Neutral \ {Lost} :
            /\ ready' = Append(ready, x)
            /\ x = Read => transport = "open" /\ stream # <<>> /\ ~Queued(Read)
  <2>1. CASE PollReadable
    BY <2>1 DEF PollReadable, Neutral, callerVars, lockVars, linkVars, exchange, timerVars,
                Read, Lost, Callback
  <2>2. CASE \E t \in TimerIds : PollTimer(t)
    BY <2>2 DEF PollTimer, Neutral, callerVars, lockVars, linkVars, exchange, timerVars,
                Read, Lost, Due, Callback
  <2> QED
    BY <2>1, <2>2
<1>2. PICK x \in Neutral \ {Lost} :
         /\ ready' = Append(ready, x)
         /\ x = Read => transport = "open" /\ stream # <<>> /\ ~Queued(Read)
  BY <1>1
<1>3. x \in Callbacks /\ x \notin Steps
  BY NeutralFacts
<1>4. x = Read => \A c \in Callers : ~Queued(Opened(c))
  BY <1>2 DEF IInv, LinkInv, OpenIsUsable, LockInv, StepsOnce
<1>5. WellQueued(ready') /\ \A y : Occurs(y, ready') <=> Queued(y) \/ y = x
  <2>1. WellQueued(ready)
    BY ReadyWellQueued DEF IInv
  <2>2. /\ WellQueued(ready \o <<x>>) /\ Append(ready, x) = ready \o <<x>>
        /\ \A y : Occurs(y, ready \o <<x>>) <=> Occurs(y, ready) \/ y = x
    <3>1. /\ x \in Callbacks
          /\ x \in Steps \cup {Read} => ~Occurs(x, ready)
          /\ x \in {Lost, Read} => \A c \in Callers : ~Occurs(Opened(c), ready)
      BY <1>2, <1>3, <1>4 DEF Queued
    <3> QED
      BY <2>1, <3>1, PushQueue
  <2> QED
    BY <1>2, <2>2 DEF Queued
<1>6. ASSUME NEW c \in Callers
      PROVE  /\ Occurs(Wake(c), ready') <=> Queued(Wake(c))
             /\ Occurs(Probe(c), ready') <=> Queued(Probe(c))
             /\ Occurs(Opened(c), ready') <=> Queued(Opened(c))
             /\ Occurs(Released(c), ready') <=> Queued(Released(c))
  <2>1. {Wake(c), Probe(c), Opened(c), Released(c)} \subseteq Steps
    BY CallbackFacts
  <2> QED
    BY <1>3, <1>5, <2>1
<1>7. LockInv' /\ StepComes'
  <2>1. \A c \in Callers : fut[c] = Pending => armed # {}
    BY DEF IInv, LockInv, FutureBelongsToWaiter, StepComes
  <2> QED
    BY <1>1, <1>5, <1>6, <2>1, LockKept DEF IInv
<1>8. LinkInv'
  <2>1. transport = "open" => ~Occurs(Lost, ready') /\ (Occurs(Read, ready') => stream' # <<>>)
    BY <1>1, <1>2, <1>5 DEF IInv, LinkInv, OpenIsUsable
  <2> QED
    BY <1>1, <1>5, <2>1, LinkKept DEF IInv
<1>9. TypeOK'
  BY <1>1, <1>5 DEF IInv, TypeOK, WellQueued
<1> QED
  BY <1>7, <1>8, <1>9 DEF IInv

-----------------------------------------------------------------------------
(* The kinds of steps, told by what they do to the coroutines and the futures. *)

\* The coroutines stay where they are; a future may be completed.
Handled ==
    /\ UNCHANGED <<pc, request, command>>
    /\ \/ fut' = fut
       \/ \E v \in Futures \ {Pending} :
             /\ fut' = Settle(v)
             /\ \A k \in Commands : v = Answer(k) => Shape[k] = Shape[command]

\* A coroutine goes on, and keeps the lock if it holds it.
GoesOn(c) ==
    /\ request' = request
    /\ \/ /\ pc[c] = "acquire" /\ Goes(c, "waiting")
          /\ UNCHANGED <<command, fut>>
       \/ /\ pc[c] \in {"close", "closing"} /\ (Goes(c, "closing") \/ Goes(c, "idle"))
          /\ command' = command /\ (fut' = fut \/ fut' = Settle(Cancelled))
       \/ /\ Holds(c) /\ Holds(c)' /\ \E p : Goes(c, p)
          /\ \/ UNCHANGED <<command, fut>>
             \/ /\ command' = request[c]
                /\ \/ fut' = [fut EXCEPT ![c] = Pending]
                   \/ fut' = [fut EXCEPT ![c] = Stranded]

TakesLock(c) ==
    /\ pc[c] \in {"acquire", "waiting"} /\ ~locked /\ Goes(c, "connect")
    /\ UNCHANGED <<request, command, fut>>

\* A coroutine releases the lock, to try again or to end its call.
Leaves(c) ==
    /\ pc[c] \in {"resumed", "refused"} /\ UNCHANGED <<request, command>>
    /\ \/ Goes(c, "acquire") /\ (fut' = fut \/ fut' = Settle(Cancelled))
       \/ /\ Goes(c, "idle") \/ Goes(c, "close")
          /\ \/ fut' = fut \/ fut' = Settle(Cancelled)
             \/ fut' = [Settle(Cancelled) EXCEPT ![c] = Exhausted]

LEMMA KindOfCoroutine ==
    ASSUME IInv, NEW c \in Callers, Coroutine(c)
    PROVE  GoesOn(c) \/ TakesLock(c) \/ Leaves(c)
<1>0. \A p : Goes(c, p) => pc'[c] = p
  BY DEF Goes, IInv, TypeOK
<1>1. CASE Acquire(c)
  BY <1>1 DEF Acquire, callerVars, exchange, GoesOn, TakesLock
<1>2. CASE Connect(c)
  <2>1. /\ pc[c] = "connect" /\ UNCHANGED <<request, command, fut>>
        /\ \E p : Goes(c, p) /\ p \in {"send", "connecting", "probing"}
    BY <1>2 DEF Connect, callerVars, exchange
  <2> QED
    BY <1>0, <2>1 DEF GoesOn, Holds
<1>3. CASE SendBroken(c) \/ \E r \in Reactions : Send(c, r)
  <2>1. /\ pc[c] = "send" /\ request' = request /\ command' = request[c]
        /\ Goes(c, "awaiting") \/ Goes(c, "resumed")
        /\ \/ fut' = [fut EXCEPT ![c] = Pending] \/ fut' = [fut EXCEPT ![c] = Stranded]
    BY <1>3 DEF SendBroken, Send, callerVars
  <2> QED
    BY <1>0, <2>1 DEF GoesOn, Holds
<1>4. CASE Return(c)
  BY <1>4 DEF Return, Leaves, callerVars, exchange
<1>5. CASE Retry(c) \/ RecursionLimit(c)
  <2>1. ReleaseAndDrop(c) => fut' = fut \/ fut' = Settle(Cancelled)
    BY DEF ReleaseAndDrop, CloseTransport
  <2>2. Failed(c) => pc[c] \in {"resumed", "refused"}
    BY DEF Failed, TimedOut
  <2> QED
    BY <1>5, <2>1, <2>2 DEF Retry, RecursionLimit, Leaves, callerVars, exchange
<1>6. CASE MaxRetriesReached(c)
  BY <1>6 DEF MaxRetriesReached, Failed, TimedOut, Leaves, callerVars
<1>7. CASE Close(c)
  BY <1>7 DEF Close, CloseTransport, GoesOn, callerVars, exchange
<1> QED
  BY <1>1, <1>2, <1>3, <1>4, <1>5, <1>6, <1>7 DEF Coroutine

LEMMA KindOfStep ==
    ASSUME IInv, NEW c \in Callers,
           \/ WakeAcquired(c) \/ WakeClosing(c) \/ WakeAwaited(c)
           \/ ProbeTransport(c) \/ ConnectionOpened(c) \/ ConnectEnds(c)
    PROVE  GoesOn(c) \/ TakesLock(c) \/ Handled
<1>0. \A p : Goes(c, p) => pc'[c] = p
  BY DEF Goes, IInv, TypeOK
<1>1. ASSUME NEW x \in Steps, Runs(x) PROVE Queued(x)
  BY <1>1, PopStep DEF Runs, IInv
<1>2. CASE WakeAcquired(c)
  <2>1. Queued(Wake(c)) /\ pc[c] = "waiting"
    BY <1>1, <1>2, CallbackFacts DEF WakeAcquired
  <2>2. ~locked
    BY <2>1 DEF IInv, LockInv, WokenIsHead, Locking
  <2> QED
    BY <1>2, <2>1, <2>2 DEF WakeAcquired, TakesLock, callerVars, exchange
<1>3. CASE WakeClosing(c)
  BY <1>3 DEF WakeClosing, GoesOn, callerVars, exchange
<1>4. CASE WakeAwaited(c)
  <2>1. /\ pc[c] \in {"connected", "failed", "awaiting"} /\ UNCHANGED <<request, command, fut>>
        /\ Goes(c, "send") \/ Goes(c, "refused") \/ Goes(c, "resumed")
    BY <1>4 DEF WakeAwaited, callerVars, exchange
  <2> QED
    BY <1>0, <2>1 DEF GoesOn, Holds
<1>5. CASE ProbeTransport(c)
  <2>1. pc[c] = "probing"
    BY <1>1, <1>5, CallbackFacts DEF ProbeTransport, IInv, LockInv, StepsOnce
  <2>2. UNCHANGED <<request, command, fut>> /\ (Goes(c, "connected") \/ Goes(c, "connecting"))
    BY <1>5 DEF ProbeTransport, callerVars, exchange
  <2> QED
    BY <1>0, <2>1, <2>2 DEF GoesOn, Holds
<1>6. CASE ConnectionOpened(c)
  <2>1. pc[c] = "connecting"
    BY <1>1, <1>6, CallbackFacts DEF ConnectionOpened, IInv, LockInv, StepsOnce
  <2>2. UNCHANGED <<request, command, fut>> /\ (Goes(c, "connected") \/ Goes(c, "send"))
    BY <1>6 DEF ConnectionOpened, callerVars, exchange
  <2> QED
    BY <1>0, <2>1, <2>2 DEF GoesOn, Holds
<1>7. CASE ConnectEnds(c)
  <2>1. pc[c] = "connecting" /\ UNCHANGED <<request, command, fut>> /\ (Goes(c, "failed") \/ pc' = pc)
    BY <1>7 DEF ConnectEnds, callerVars, exchange
  <2> QED
    BY <1>0, <2>1 DEF GoesOn, Holds, Handled
<1> QED
  BY <1>2, <1>3, <1>4, <1>5, <1>6, <1>7

LEMMA KindOfHandler ==
    ASSUME IInv,
           \/ ConnectionLost \/ SkipCancelled \/ \E t \in TimerIds : TimeoutMechanism(t)
           \/ \E c \in Callers : ConnectReleased(c)
           \/ ReceiveAnswer \/ ReceiveInvalid \/ ReceivePartial \/ ReceiveReject
           \/ ReceiveEof \/ ReceiveReset
           \/ PollReadable \/ \E t \in TimerIds : PollTimer(t)
           \/ UNCHANGED vars
    PROVE  Handled
<1>1. ASSUME UNCHANGED <<pc, request, command>>,
             \/ fut' = fut
             \/ \E v \in {Cancelled, Rejected} : fut' = Settle(v)
      PROVE  Handled
  BY <1>1, FutureTypes DEF Handled
<1>2. CASE \/ ConnectionLost \/ SkipCancelled \/ \E t \in TimerIds : TimeoutMechanism(t)
           \/ \E c \in Callers : ConnectReleased(c)
  BY <1>1, <1>2 DEF ConnectionLost, SkipCancelled, TimeoutMechanism, ConnectReleased,
                    CloseTransport, callerVars, exchange
<1>3. CASE ReceiveAnswer
  <2>1. /\ UNCHANGED <<pc, request, command>> /\ fut' = Settle(Answer(Answered))
        /\ Answered \in Commands /\ Shape[Answered] = Shape[command]
    BY <1>3, ArrivesFacts DEF ReceiveAnswer, Arrives, Fits, callerVars
  <2> QED
    BY <2>1, FutureTypes DEF Handled
<1>4. CASE ReceiveInvalid \/ ReceivePartial \/ ReceiveReject \/ ReceiveEof \/ ReceiveReset
  BY <1>1, <1>4 DEF ReceiveInvalid, ReceivePartial, ReceiveReject, ReceiveEof, ReceiveReset,
                    Arrives, CloseTransport, callerVars
<1>5. CASE PollReadable \/ (\E t \in TimerIds : PollTimer(t)) \/ UNCHANGED vars
  BY <1>1, <1>5 DEF PollReadable, PollTimer, vars, callerVars, exchange
<1> QED
  BY <1>2, <1>3, <1>4, <1>5

LEMMA KindOfNext ==
    ASSUME IInv, [Next]_vars
    PROVE  \/ \E c \in Callers, k \in Commands : Call(c, k)
           \/ \E c \in Callers : GoesOn(c) \/ TakesLock(c) \/ Leaves(c)
           \/ Handled
<1>1. CASE RunCallback \/ Select \/ AllReturned \/ UNCHANGED vars
  BY <1>1, KindOfStep, KindOfHandler DEF RunCallback, Select, AllReturned
<1> QED
  BY <1>1, KindOfCoroutine DEF Next, Loop

-----------------------------------------------------------------------------
(* An answer has the register count its caller asked for. *)

\* What completing the future in flight does to each.
LEMMA SettledEach ==
    ASSUME IInv, NEW v \in Futures \ {Pending}, NEW c \in Callers
    PROVE  \/ Settle(v)[c] = fut[c]
           \/ fut[c] = Stranded /\ Settle(v)[c] = Broken
           \/ fut[c] = Pending /\ Holds(c) /\ Settle(v)[c] = v
<1>1. fut \in [Callers -> Futures] /\ (InFlight => owner \in Callers /\ fut[owner] \in {Pending, Stranded})
  BY DEF IInv, TypeOK, InFlight
<1>2. fut[c] = Pending => Holds(c)
  BY DEF IInv, LockInv, FutureBelongsToWaiter, Holds
<1> QED
  BY <1>1, <1>2, FutureTypes DEF Settle

\* A step after which no future is newly pending or answered.
LEMMA AnswerKept ==
    ASSUME AnswerInv, UNCHANGED <<request, command>>,
           \A c \in Callers : pc[c] = "idle" => pc'[c] = "idle",
           \A c \in Callers : \/ fut'[c] = fut[c]
                              \/ fut'[c] # Pending /\ \A k \in Commands : fut'[c] # Answer(k)
    PROVE  AnswerInv'
  BY DEF AnswerInv, CallsHaveCommand

LEMMA AnswerHandled ==
    ASSUME IInv, AnswerInv, Handled
    PROVE  AnswerInv'
<1>1. CASE fut' = fut
  BY <1>1, AnswerKept DEF Handled
<1>2. ASSUME NEW v \in Futures \ {Pending}, fut' = Settle(v),
             \A k \in Commands : v = Answer(k) => Shape[k] = Shape[command]
      PROVE  AnswerInv'
  <2>1. CallsHaveCommand'
    BY DEF Handled, AnswerInv, CallsHaveCommand
  <2>2. \A c \in Callers : fut'[c] # Pending
    BY <1>2, Settled DEF IInv
  <2>3. ASSUME NEW c \in Callers, NEW k \in Commands, fut'[c] = Answer(k)
        PROVE  Shape[k] = Shape[request'[c]]
    <3>1. CASE fut'[c] = fut[c]
      BY <2>3, <3>1 DEF Handled, AnswerInv
    <3>2. CASE fut[c] = Pending /\ fut'[c] = v
      BY <1>2, <2>3, <3>2 DEF Handled, AnswerInv
    <3> QED
      BY <1>2, <2>3, <3>1, <3>2, SettledEach, FutureTypes
  <2> QED
    BY <2>1, <2>2, <2>3 DEF AnswerInv
<1> QED
  BY <1>1, <1>2 DEF Handled

LEMMA AnswerCall ==
    ASSUME IInv, AnswerInv, NEW c \in Callers, NEW k \in Commands, Call(c, k)
    PROVE  AnswerInv'
<1>1. /\ request'[c] = k /\ fut'[c] \in {Stranded, NoFuture} /\ command' = command
      /\ \A d \in Callers : d # c => request'[d] = request[d] /\ fut'[d] = fut[d] /\ pc'[d] = pc[d]
  BY DEF Call, Goes, IInv, TypeOK, exchange
<1> QED
  BY <1>1, FutureTypes DEF AnswerInv, CallsHaveCommand

LEMMA AnswerGoesOn ==
    ASSUME IInv, AnswerInv, NEW c \in Callers, GoesOn(c) \/ TakesLock(c)
    PROVE  AnswerInv'
<1>1. /\ pc[c] # "idle" /\ request' = request
      /\ \A d \in Callers : d # c => pc'[d] = pc[d]
  BY DEF GoesOn, TakesLock, Holds, Goes, IInv, TypeOK
<1>2. CASE UNCHANGED <<command, fut>>
  BY <1>1, <1>2, AnswerKept
<1>3. CASE command' = command /\ fut' = Settle(Cancelled)
  <2>1. \A d \in Callers : \/ fut'[d] = fut[d]
                           \/ fut'[d] # Pending /\ \A k \in Commands : fut'[d] # Answer(k)
    BY <1>3, SettledEach, FutureTypes
  <2> QED
    BY <1>1, <1>3, <2>1, AnswerKept
<1>4. CASE /\ Holds(c) /\ command' = request[c]
           /\ fut' = [fut EXCEPT ![c] = Pending] \/ fut' = [fut EXCEPT ![c] = Stranded]
  <2>1. /\ fut'[c] \in {Pending, Stranded}
        /\ \A d \in Callers : d # c => fut'[d] = fut[d] /\ fut[d] # Pending
    BY <1>4, HolderAlone DEF IInv, TypeOK
  <2> QED
    BY <1>1, <1>4, <2>1, FutureTypes DEF AnswerInv, CallsHaveCommand
<1> QED
  BY <1>2, <1>3, <1>4 DEF GoesOn, TakesLock

LEMMA AnswerLeaves ==
    ASSUME IInv, AnswerInv, NEW c \in Callers, Leaves(c)
    PROVE  AnswerInv'
<1>1. /\ pc[c] # "idle" /\ UNCHANGED <<request, command>>
      /\ \A d \in Callers : d # c => pc'[d] = pc[d]
  BY DEF Leaves, Goes, IInv, TypeOK
<1>2. Settle(Cancelled) \in [Callers -> Futures]
  BY Settled, FutureTypes DEF IInv
<1>3. \A d \in Callers : fut'[d] \in {fut[d], Settle(Cancelled)[d], Exhausted}
  BY <1>2 DEF Leaves
<1>4. \A d \in Callers : \/ fut'[d] = fut[d]
                         \/ fut'[d] # Pending /\ \A k \in Commands : fut'[d] # Answer(k)
  BY <1>3, SettledEach, FutureTypes
<1> QED
  BY <1>1, <1>4, AnswerKept

LEMMA AnswerStep ==
    ASSUME IInv, AnswerInv, [Next]_vars
    PROVE  AnswerInv'
  BY KindOfNext, AnswerHandled, AnswerCall, AnswerGoesOn, AnswerLeaves

-----------------------------------------------------------------------------
(* The invariant. *)

LEMMA InitInvariant == Init => IInv /\ AnswerInv
<1> SUFFICES ASSUME Init PROVE IInv /\ AnswerInv
  OBVIOUS
<1>1. TypeOK
  <2>1. \A S : <<>> \in Seq(S)
    BY EmptySeq
  <2>2. 0 \in 0..MaxFrames /\ 0 \in 0..MaxCalls /\ 0 \in 0..MaxRetries
    BY TcpConstants
  <2>3. "idle" \in PCs /\ NoFuture \in Futures
    BY FutureTypes DEF PCs
  <2> QED
    BY <2>1, <2>2, <2>3 DEF Init, TypeOK
<1>2. /\ \A c \in Callers : pc[c] = "idle" /\ fut[c] = NoFuture
      /\ ready = <<>> /\ waiters = <<>> /\ ~locked /\ transport = "none"
  BY DEF Init
<1>3. \A x : ~Occurs(x, <<>>) /\ AtMostOnce(x, <<>>)
  BY DEF Occurs, AtMostOnce
<1>4. LockInv
  BY <1>2, <1>3, FutureTypes DEF LockInv, MutualExclusion, FutureBelongsToWaiter, NoLostWakeup,
        WaitersWait, WokenIsHead, StepsOnce, Holds, Locking, Queued
<1>5. LinkInv
  BY <1>2, <1>3 DEF LinkInv, InOrder, OpenIsUsable, WillBeClosed
<1>6. StepComes
  BY <1>2 DEF StepComes
<1>7. AnswerInv
  BY <1>2, FutureTypes DEF AnswerInv, CallsHaveCommand
<1> QED
  BY <1>1, <1>4, <1>5, <1>6, <1>7 DEF IInv

LEMMA StepCoroutine ==
    ASSUME IInv, CallsHaveCommand, NEW c \in Callers, Coroutine(c)
    PROVE  IInv'
  BY StepAcquire, StepConnect, StepSendBroken, StepSend, StepReturn, StepFailed,
     StepMaxRetriesReached, StepClose
     DEF Coroutine

LEMMA StepRunCallback ==
    ASSUME IInv, RunCallback
    PROVE  IInv'
<1>1. ASSUME NEW c \in Callers,
             \/ WakeAcquired(c) \/ WakeClosing(c) \/ WakeAwaited(c)
             \/ ProbeTransport(c) \/ ConnectReleased(c) \/ ConnectionOpened(c)
      PROVE  IInv'
  BY <1>1, StepWakeAcquired, StepWakeClosing, StepWakeAwaited, StepProbeTransport,
     StepConnectReleased, StepConnectionOpened
<1>2. CASE ConnectionLost \/ SkipCancelled \/ \E t \in TimerIds : TimeoutMechanism(t)
  BY <1>2, StepConnectionLost, StepSkipCancelled, StepTimeout
<1>3. CASE \/ ReceiveAnswer \/ ReceiveInvalid \/ ReceivePartial \/ ReceiveReject
           \/ ReceiveEof \/ ReceiveReset
  BY <1>3, StepReceiveAnswer, StepReceiveInvalid, StepReceivePartial, StepReceiveReject,
     StepReceiveEof, StepReceiveReset
<1> QED
  BY <1>1, <1>2, <1>3 DEF RunCallback

LEMMA Step ==
    ASSUME IInv, CallsHaveCommand, [Next]_vars
    PROVE  IInv'
<1>1. CASE UNCHANGED vars
  BY <1>1 DEF vars, callerVars, lockVars, linkVars, exchange, timerVars, IInv, TypeOK,
     LockInv, MutualExclusion, FutureBelongsToWaiter, NoLostWakeup, WaitersWait, WokenIsHead,
     StepsOnce, LinkInv, OpenIsUsable, WillBeClosed, StepComes, Holds, Queued
<1>2. CASE Select
  BY <1>2, StepPoll, StepConnectEnds DEF Select
<1> QED
  BY <1>1, <1>2, StepCall, StepCoroutine, StepRunCallback DEF Next, Loop, AllReturned

\* Types, the lock, the connection, the waits and the answers: the invariant of
\* the protocol object (protocol.py:232-464).
THEOREM TcpInvariance == Spec => [](TypeOK /\ LockInv /\ LinkInv /\ StepComes /\ AnswerInv)
<1>1. Init => IInv /\ AnswerInv
  BY InitInvariant
<1>2. IInv /\ AnswerInv /\ [Next]_vars => (IInv /\ AnswerInv)'
  BY Step, AnswerStep DEF AnswerInv
<1>3. IInv /\ AnswerInv => TypeOK /\ LockInv /\ LinkInv /\ StepComes /\ AnswerInv
  BY DEF IInv
<1> QED
  BY <1>1, <1>2, <1>3, PTL DEF Spec

\* Every variable keeps its type: the waiter that is popped and the segment that
\* is read exist, the retry count stays within the budget.
THEOREM TcpTypeCorrect == Spec => []TypeOK
  BY TcpInvariance, PTL

\* One coroutine at most is between acquire and release, also while retries
\* release "if locked" in nested frames (protocol.py:325-355).
THEOREM LockIsExclusive == Spec => []MutualExclusion
<1>1. LockInv => MutualExclusion
  BY DEF LockInv
<1> QED
  BY <1>1, TcpInvariance, PTL

\* Whoever waits for the lock, for the task of its connection or for an answer
\* has a holder of the lock, a callback or a timer to end the wait (protocol.py:325-330,
\* 379).  That an attempt to connect ends is left to wait_for.
THEOREM WaitsAreEnded == Spec => []NobodyHangs
<1>1. TypeOK /\ LockInv => LockComes
  <2> SUFFICES ASSUME TypeOK, LockInv, NEW c \in Callers, pc[c] \in Locking,
                      ~\E d \in Callers : Holds(d)
               PROVE  Queued(Wake(Head(waiters)))
    BY DEF LockComes
  <2>1. ~locked
    BY DEF LockInv, MutualExclusion
  <2>2. waiters # <<>>
    BY DEF LockInv, WaitersWait, Occurs
  <2> QED
    BY <2>1, <2>2 DEF LockInv, NoLostWakeup
<1> QED
  BY <1>1, TcpInvariance, PTL DEF NobodyHangs

\* When every call has returned, without keep_alive the connection is closed,
\* whoever closed it (protocol.py:378-384, 464).
THEOREM CallsLeaveNothing == Spec => []NothingLeftBehind
<1>1. TypeOK /\ LockInv /\ LinkInv => NothingLeftBehind
  <2> SUFFICES ASSUME TypeOK, LockInv, LinkInv, \A c \in Callers : pc[c] = "idle"
               PROVE  ~locked /\ waiters = <<>> /\ (KeepAlive \/ transport = "none")
    BY DEF NothingLeftBehind
  <2>1. ~locked
    BY DEF LockInv, MutualExclusion, Holds
  <2>2. waiters = <<>>
    <3>1. \A c \in Callers : ~Occurs(c, waiters)
      BY DEF LockInv, WaitersWait, Locking
    <3> QED
      BY <3>1, TailFacts DEF TypeOK
  <2>3. KeepAlive \/ transport = "none"
    BY DEF LinkInv, WillBeClosed, TypeOK
  <2> QED
    BY <2>1, <2>2, <2>3
<1> QED
  BY <1>1, TcpInvariance, PTL

\* The connection_lost of a connection that was closed comes late, but never when
\* the next one is open (protocol.py:278-284).
THEOREM LateLossFindsNothing == Spec => LateLossIsHarmless
<1>1. TypeOK /\ LockInv /\ LinkInv => [ConnectionLost => transport # "open"]_vars
  <2> SUFFICES ASSUME TypeOK, LinkInv, ConnectionLost PROVE transport # "open"
    OBVIOUS
  <2>1. Queued(Lost)
    BY TailFacts DEF ConnectionLost, Runs, TypeOK, Queued
  <2> QED
    BY <2>1 DEF LinkInv, OpenIsUsable
<1> QED
  BY <1>1, TcpInvariance, PTL DEF LateLossIsHarmless

-----------------------------------------------------------------------------
(* The service: what the abstract state depends on. *)

phaseBar   == [c \in Callers |-> Phase(c)]
outcomeBar == [c \in Callers |-> Outcome(c)]

\* The outcome of an idle caller is read off its future; stranded and broken
\* futures are both failures.
LEMMA OutcomeKept ==
    ASSUME NEW c \in Callers, Phase(c)' = Phase(c),
           \/ Phase(c) # "idle"
           \/ fut'[c] = fut[c]
           \/ fut[c] = Stranded /\ fut'[c] = Broken
    PROVE  Outcome(c)' = Outcome(c)
<1>1. CASE Phase(c) # "idle"
  BY <1>1 DEF Outcome
<1>2. CASE fut'[c] = fut[c]
  BY <1>2 DEF Outcome
<1>3. CASE Phase(c) = "idle" /\ fut[c] = Stranded /\ fut'[c] = Broken
  <2>1. fut[c] # Rejected /\ \A k \in Commands : fut[c] # Answer(k)
    BY <1>3, FutureTypes DEF Stranded, Rejected
  <2>2. fut'[c] # Rejected /\ \A k \in Commands : fut'[c] # Answer(k)
    BY <1>3, FutureTypes DEF Broken, Rejected
  <2> QED
    BY <1>3, <2>1, <2>2 DEF Outcome
<1> QED
  BY <1>1, <1>2, <1>3

\* Completing the future in flight is no outcome yet, or a failure either way.
LEMMA SettledUnseen ==
    ASSUME IInv, NEW v \in Futures \ {Pending}, NEW c \in Callers
    PROVE  \/ Phase(c) # "idle" \/ Settle(v)[c] = fut[c]
           \/ fut[c] = Stranded /\ Settle(v)[c] = Broken
  BY SettledEach DEF Phase

\* A step that leaves everybody's phase alone, and shows no new outcome.
LEMMA Stutters ==
    ASSUME request' = request,
           \A c \in Callers :
              /\ Phase(c)' = Phase(c)
              /\ \/ Phase(c) # "idle" \/ fut'[c] = fut[c]
                 \/ fut[c] = Stranded /\ fut'[c] = Broken
    PROVE  UNCHANGED Service!vars
<1>1. \A c \in Callers : Phase(c)' = Phase(c) /\ Outcome(c)' = Outcome(c)
  BY OutcomeKept
<1>2. phaseBar' = phaseBar /\ outcomeBar' = outcomeBar
  BY <1>1, Zenon DEF phaseBar, outcomeBar
<1> QED
  BY <1>2 DEF Service!vars, phaseBar, outcomeBar

LEMMA HandledStutters ==
    ASSUME IInv, Handled
    PROVE  UNCHANGED Service!vars
<1>1. \A c \in Callers : Phase(c)' = Phase(c)
  BY DEF Handled, Phase, Holds
<1>2. \A c \in Callers : \/ Phase(c) # "idle" \/ fut'[c] = fut[c]
                         \/ fut[c] = Stranded /\ fut'[c] = Broken
  BY SettledUnseen DEF Handled
<1> QED
  BY <1>1, <1>2, Stutters DEF Handled

LEMMA GoesOnStutters ==
    ASSUME IInv, NEW c \in Callers, GoesOn(c)
    PROVE  UNCHANGED Service!vars
<1>1. /\ \A p : Goes(c, p) => pc'[c] = p
      /\ \A d \in Callers : d # c => pc'[d] = pc[d]
  BY DEF GoesOn, Goes, IInv, TypeOK
<1>2. Phase(c)' = Phase(c)
  BY <1>1 DEF GoesOn, Phase, Holds
<1>3. \A d \in Callers : d # c => Phase(d)' = Phase(d)
  BY <1>1 DEF Phase, Holds
<1>4. CASE fut' = fut \/ fut' = Settle(Cancelled)
  <2>1. \A d \in Callers : \/ Phase(d) # "idle" \/ fut'[d] = fut[d]
                           \/ fut[d] = Stranded /\ fut'[d] = Broken
    BY <1>4, SettledUnseen, FutureTypes
  <2> QED
    BY <1>2, <1>3, <2>1, Stutters DEF GoesOn
<1>5. CASE Holds(c) /\ \E v : fut' = [fut EXCEPT ![c] = v]
  <2>1. Phase(c) # "idle" /\ \A d \in Callers : d # c => fut'[d] = fut[d]
    BY <1>5 DEF Phase
  <2> QED
    BY <1>2, <1>3, <2>1, Stutters DEF GoesOn
<1> QED
  BY <1>4, <1>5 DEF GoesOn

-----------------------------------------------------------------------------
(* The four operations of the service. *)

\* A step of one coroutine changes only its own entry of the abstract state.
LEMMA OneMoves ==
    ASSUME NEW c \in Callers,
           \A d \in Callers : d # c =>
              /\ pc'[d] = pc[d]
              /\ \/ Phase(d) # "idle" \/ fut'[d] = fut[d]
                 \/ fut[d] = Stranded /\ fut'[d] = Broken
    PROVE  /\ phaseBar' = [phaseBar EXCEPT ![c] = Phase(c)']
           /\ outcomeBar' = [outcomeBar EXCEPT ![c] = Outcome(c)']
<1>1. \A d \in Callers : d # c => Phase(d)' = Phase(d)
  BY DEF Phase, Holds
<1>2. \A d \in Callers : d # c => Phase(d)' = Phase(d) /\ Outcome(d)' = Outcome(d)
  BY <1>1, OutcomeKept
<1> QED
  BY <1>2, Zenon DEF phaseBar, outcomeBar

\* execute begins.
LEMMA CallSubmits ==
    ASSUME IInv, NEW c \in Callers, NEW k \in Commands, Call(c, k)
    PROVE  Service!Submit(c, k)
<1>1. /\ pc[c] = "idle" /\ pc'[c] = "acquire" /\ request' = [request EXCEPT ![c] = k]
      /\ \A d \in Callers : d # c => pc'[d] = pc[d] /\ fut'[d] = fut[d]
  BY DEF Call, Goes, IInv, TypeOK
<1>2. Phase(c) = "idle" /\ Phase(c)' = "queued" /\ Outcome(c)' = <<>>
  BY <1>1 DEF Phase, Outcome, Holds
<1>3. phaseBar' = [phaseBar EXCEPT ![c] = "queued"] /\ outcomeBar' = [outcomeBar EXCEPT ![c] = <<>>]
  BY <1>1, <1>2, OneMoves
<1>4. phaseBar[c] = "idle"
  BY <1>2 DEF phaseBar
<1> QED
  BY <1>1, <1>3, <1>4 DEF Service!Submit, Service!Pending, phaseBar, outcomeBar

\* A coroutine takes the lock, which nobody holds.
LEMMA TakesLockDispatches ==
    ASSUME IInv, NEW c \in Callers, TakesLock(c)
    PROVE  Service!Dispatch(c)
<1>1. /\ pc[c] \in {"acquire", "waiting"} /\ pc'[c] = "connect" /\ UNCHANGED <<request, fut>>
      /\ ~locked /\ \A d \in Callers : d # c => pc'[d] = pc[d]
  BY DEF TakesLock, Goes, IInv, TypeOK
<1>2. Phase(c) = "queued" /\ Phase(c)' = "active" /\ Outcome(c)' = Outcome(c)
  BY <1>1 DEF Phase, Outcome, Holds
<1>3. /\ phaseBar' = [phaseBar EXCEPT ![c] = "active"]
      /\ outcomeBar' = [outcomeBar EXCEPT ![c] = Outcome(c)]
  BY <1>1, <1>2, OneMoves
<1>4. \A d \in Callers : Phase(d) # "active"
  BY <1>1 DEF Phase, IInv, LockInv, MutualExclusion
<1>5. /\ phaseBar[c] = "queued" /\ outcomeBar' = outcomeBar
      /\ \A d \in Callers : phaseBar[d] # "active"
  BY <1>2, <1>3, <1>4 DEF phaseBar, outcomeBar
<1> QED
  BY <1>1, <1>3, <1>5 DEF Service!Dispatch, Service!Free, phaseBar, outcomeBar

\* Queueing again, or ending with an acceptable answer or a failure.
LEMMA LeavesServes ==
    ASSUME IInv, AnswerInv, NEW c \in Callers, Leaves(c)
    PROVE  Service!Requeue(c) \/ Service!Complete(c)
<1>1. /\ pc[c] \in {"resumed", "refused"} /\ request' = request /\ request[c] \in Commands
      /\ pc'[c] \in {"acquire", "idle", "close"}
      /\ \A d \in Callers : d # c => pc'[d] = pc[d]
  BY DEF Leaves, Goes, IInv, TypeOK, AnswerInv, CallsHaveCommand
<1>2. /\ Cancelled \in Futures \ {Pending} /\ Settle(Cancelled) \in [Callers -> Futures]
  BY Settled, FutureTypes DEF IInv
<1>3. \A d \in Callers : d # c =>
         \/ Phase(d) # "idle" \/ fut'[d] = fut[d]
         \/ fut[d] = Stranded /\ fut'[d] = Broken
  BY <1>2, SettledUnseen DEF Leaves
<1>4. Phase(c) = "active" /\ phaseBar[c] = "active"
  BY <1>1 DEF Phase, Holds, phaseBar
<1>5. CASE pc'[c] = "acquire"
  <2>1. Phase(c)' = "queued" /\ Outcome(c)' = Outcome(c)
    BY <1>4, <1>5 DEF Phase, Outcome, Holds
  <2>2. /\ phaseBar' = [phaseBar EXCEPT ![c] = "queued"]
        /\ outcomeBar' = [outcomeBar EXCEPT ![c] = Outcome(c)]
    BY <1>1, <1>3, <2>1, OneMoves
  <2>3. outcomeBar' = outcomeBar
    BY <2>2 DEF outcomeBar
  <2> QED
    BY <1>1, <1>4, <2>2, <2>3 DEF Service!Requeue, phaseBar, outcomeBar
<1>6. CASE pc'[c] \in {"idle", "close"}
  <2>1. Phase(c)' = "idle"
    BY <1>6 DEF Phase, Holds
  <2>2. ASSUME NEW k \in Commands, fut'[c] = Answer(k) PROVE Shape[k] = Shape[request[c]]
    <3>1. fut'[c] \in {fut[c], Settle(Cancelled)[c], Exhausted}
      BY <1>2 DEF Leaves
    <3>2. fut'[c] = fut[c]
      BY <1>2, <2>2, <3>1, SettledEach, FutureTypes
    <3> QED
      BY <2>2, <3>2 DEF AnswerInv
  <2>3. Outcome(c)' \in Service!Failures
           \cup {Service!Answer(k) : k \in {j \in Commands : Shape[j] = Shape[request[c]]}}
    <3>1. CASE \E k \in Commands : fut'[c] = Answer(k)
      <4>1. PICK k \in Commands : fut'[c] = Answer(k)
        BY <3>1
      <4>2. Outcome(c)' = Answer(k)
        BY <2>1, <4>1, FutureTypes DEF Outcome
      <4> QED
        BY <2>2, <4>1, <4>2 DEF Service!Answer, Answer
    <3>2. CASE ~\E k \in Commands : fut'[c] = Answer(k)
      BY <2>1, <3>2 DEF Outcome, Service!Failures
    <3> QED
      BY <3>1, <3>2
  <2>4. /\ phaseBar' = [phaseBar EXCEPT ![c] = "idle"]
        /\ outcomeBar' = [outcomeBar EXCEPT ![c] = Outcome(c)']
    BY <1>1, <1>3, <2>1, OneMoves
  <2>5. outcomeBar' \in {[outcomeBar EXCEPT ![c] = o] : o \in Service!Failures \cup
           {Service!Answer(k) : k \in {j \in Commands : Shape[j] = Shape[request[c]]}}}
    BY <2>3, <2>4
  <2> QED
    BY <1>1, <1>4, <2>4, <2>5 DEF Service!Complete, phaseBar, outcomeBar
<1> QED
  BY <1>1, <1>5, <1>6

LEMMA InitServes == Init => Service!Init
<1> SUFFICES ASSUME Init PROVE Service!Init
  OBVIOUS
<1>1. \A c \in Callers : pc[c] = "idle" /\ fut[c] = NoFuture
  BY DEF Init
<1>2. \A c \in Callers : Phase(c) = "idle" /\ Outcome(c) = <<"failed">>
  BY <1>1, FutureTypes DEF Phase, Holds, Outcome, NoFuture, Rejected
<1> QED
  BY <1>2 DEF Init, Service!Init

\* Whatever the network does, the coroutines that share a protocol object see a
\* service that asks the inverter one question at a time and ends each with an
\* answer of the register count asked for or a failure (protocol.py:320-464).
THEOREM ServiceSafety == Spec => Service!Safety
<1>1. Init => Service!Init
  BY InitServes
<1>2. TypeOK /\ LockInv /\ LinkInv /\ StepComes /\ AnswerInv /\ [Next]_vars
        => [Service!Next]_(Service!vars)
  BY KindOfNext, HandledStutters, GoesOnStutters, CallSubmits, TakesLockDispatches, LeavesServes
     DEF IInv, Service!Next
<1> QED
  BY <1>1, <1>2, TcpInvariance, PTL DEF Spec, Service!Safety
=============================================================================
