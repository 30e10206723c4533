----------------------------- MODULE UdpProofs -----------------------------
(***************************************************************************)
(* UdpProtocol, for any number of coroutines, commands, retries and        *)
(* datagrams.  First its lock: TypeOK and LockInv are inductive together,  *)
(* since a step of the lock's queue has its type only because a woken      *)
(* coroutine is at its head.  On top of them, what becomes of a request    *)
(* once the lock is held: the socket it is sent on is open and its own     *)
(* (LinkInv), something will end its wait (NobodyHangs), and the answer it *)
(* gets fits it (AnswerInv).  Then the timers: those armed beside the      *)
(* current one are never more than the failures that stopped none          *)
(* (TimersAccounted, with UdpTimers' count of them) and, where each        *)
(* attempt has a socket that never fails, there are none (TimerInv) and    *)
(* the retries are counted (RetryInv).                                     *)
(* Last, that it implements the safety of RequestService: its initial      *)
(* states map to an initial state, and each step to a Submit, Dispatch,    *)
(* Requeue or Complete of one coroutine or to a stutter.  That every       *)
(* request ends is liveness and left to the model checker.                 *)
(***************************************************************************)
EXTENDS UdpTimers, QueueFacts, FiniteSetTheorems

-----------------------------------------------------------------------------
(* Callbacks. *)

LEMMA CallbackFacts ==
    /\ \A c \in Callers : Wake(c) \in Callbacks /\ Made(c) \in Callbacks
    /\ \A c, d \in Callers : (Wake(c) = Wake(d) => c = d) /\ (Made(c) = Made(d) => c = d)
    /\ \A c, d : Wake(c) # Made(d)
    /\ \A c, t : Wake(c) # Due(t) /\ Made(c) # Due(t)
    /\ \A c : {Wake(c), Made(c)} \cap {Poll, Read, Lost, Invalid} = {}
    /\ \A t : Due(t) \notin {Poll, Read, Lost, Invalid}
    /\ \A c : Poll # Wake(c) /\ Poll # Made(c)
    /\ Poll \notin {Read, Lost, Invalid}
    /\ {Poll, Read, Lost, Invalid} \subseteq Callbacks
    /\ \A t \in TimerIds : Due(t) \in Callbacks
<1> USE DEF Callback, Wake, Made, Due, Poll, Read, Lost, Invalid
<1>1. \A c \in Callers : Wake(c) \in Callbacks /\ Made(c) \in Callbacks
  BY Zenon DEF Callbacks
<1>2. \A t \in TimerIds : Due(t) \in Callbacks
  BY Zenon DEF Callbacks
<1>3. {Poll, Read, Lost, Invalid} \subseteq Callbacks
  BY Zenon DEF Callbacks
<1>4. \A c, d : /\ Wake(c).do = "wake" /\ Made(c).do = "made" /\ Due(c).do = "timer"
                /\ Wake(c).of = c /\ Made(c).of = c
  OBVIOUS
<1>5. /\ Poll.do = "poll" /\ Read.do = "read" /\ Lost.do = "lost"
      /\ Invalid.do = "invalid"
  OBVIOUS
<1> HIDE DEF Callback, Wake, Made, Due, Poll, Read, Lost, Invalid
<1> QED
  BY <1>1, <1>2, <1>3, <1>4, <1>5

\* Popping the callback that runs.
LEMMA RunFacts ==
    ASSUME TypeOK, LockInv
    PROVE  /\ ready # <<>>
           /\ Tail(ready) \in Seq(Callbacks)
           /\ Head(ready) \in Callbacks
           /\ Queued(Head(ready))
           /\ \A x : Occurs(x, Tail(ready)) => Queued(x)
           /\ \A x : AtMostOnce(x, ready) => AtMostOnce(x, Tail(ready))
           /\ \A x : AtMostOnce(x, ready) /\ x = Head(ready) => ~Occurs(x, Tail(ready))
           /\ \A x : x # Head(ready) /\ Queued(x) => Occurs(x, Tail(ready))
<1>1. ready \in Seq(Callbacks) /\ ready # <<>>
  BY DEF TypeOK, LockInv, LoopPolls, Queued, Occurs
<1> QED
  BY <1>1, TailFacts DEF Queued

LEMMA PopPushFacts ==
    ASSUME TypeOK, LockInv, NEW x \in Callbacks
    PROVE  /\ Append(Tail(ready), x) \in Seq(Callbacks)
           /\ \A y : Occurs(y, Append(Tail(ready), x)) <=> Occurs(y, Tail(ready)) \/ y = x
           /\ \A y : AtMostOnce(y, Tail(ready)) /\ ~(y = x /\ Occurs(y, Tail(ready)))
                        => AtMostOnce(y, Append(Tail(ready), x))
<1>1. Tail(ready) \in Seq(Callbacks)
  BY RunFacts
<1> QED
  BY <1>1, AppendFacts

\* What the handlers append.
LEMMA PieceFacts ==
    ASSUME TypeOK, LockInv
    PROVE  /\ WakeOwner \in Seq(Callbacks)
           /\ LostIfOpen \in Seq(Callbacks)
           /\ WakeNext \in Seq(Callbacks)
           /\ \A x : Occurs(x, WakeOwner) <=> InFlight /\ x = Wake(owner)
           /\ \A x : Occurs(x, LostIfOpen) => x = Lost
           /\ \A x : Occurs(x, WakeNext) <=>
                        locked /\ waiters # <<>> /\ x = Wake(Head(waiters))
           /\ \A x : /\ AtMostOnce(x, WakeOwner) /\ AtMostOnce(x, LostIfOpen)
                     /\ AtMostOnce(x, WakeNext)
           /\ InFlight => owner \in Callers
           /\ waiters # <<>> => Head(waiters) \in Callers
<1>1. /\ InFlight => owner \in Callers
      /\ waiters # <<>> => Head(waiters) \in Callers
  BY HeadTailProperties DEF TypeOK, InFlight
<1> QED
  BY <1>1, ShortFacts, CallbackFacts DEF WakeOwner, LostIfOpen, WakeNext

-----------------------------------------------------------------------------
(* Queues that schedule the same coroutines. *)

\* What the lock depends on in a queue s of callbacks is as in r.
Agree(s, r) ==
    /\ s \in Seq(Callbacks)
    /\ Occurs(Poll, s)
    /\ \A d \in Callers :
          /\ Occurs(Wake(d), s) <=> Occurs(Wake(d), r)
          /\ Occurs(Made(d), s) <=> Occurs(Made(d), r)
          /\ AtMostOnce(Wake(d), s) /\ AtMostOnce(Made(d), s)

\* Callbacks that step no coroutine.
Neutral == {Lost, Read, Invalid} \cup {Due(t) : t \in TimerIds}

LEMMA NeutralFacts ==
    /\ Neutral \subseteq Callbacks /\ Poll \notin Neutral
    /\ \A d \in Callers : Wake(d) \notin Neutral /\ Made(d) \notin Neutral
<1>1. /\ \A d \in Callers : Wake(d) \notin {Poll, Read, Lost, Invalid}
      /\ \A d \in Callers : Made(d) \notin {Poll, Read, Lost, Invalid}
  BY CallbackFacts
<1>2. Neutral \subseteq Callbacks
  BY CallbackFacts DEF Neutral
<1>3. Poll \notin Neutral
  BY CallbackFacts DEF Neutral
<1>4. ASSUME NEW d \in Callers PROVE Wake(d) \notin Neutral /\ Made(d) \notin Neutral
  BY <1>1, CallbackFacts DEF Neutral
<1> QED
  BY <1>2, <1>3, <1>4

LEMMA AgreeReady ==
    ASSUME TypeOK, LockInv
    PROVE  Agree(ready, ready)
  BY DEF TypeOK, LockInv, LoopPolls, WakeOnce, Queued, Agree

LEMMA AgreeTail ==
    ASSUME TypeOK, LockInv, Head(ready) \in Neutral
    PROVE  Agree(Tail(ready), ready)
  BY RunFacts, AgreeReady, NeutralFacts DEF Agree, Queued

LEMMA AgreeAppend ==
    ASSUME NEW s, NEW r, Agree(s, r), NEW x \in Neutral
    PROVE  Agree(Append(s, x), r) /\ Agree(s \o <<x>>, r)
<1>1. /\ s \in Seq(Callbacks) /\ x \in Callbacks
  BY NeutralFacts DEF Agree
<1>2. /\ s \o <<x>> \in Seq(Callbacks) /\ Append(s, x) = s \o <<x>>
      /\ \A y : Occurs(y, s \o <<x>>) <=> Occurs(y, s) \/ y = x
      /\ \A y : AtMostOnce(y, s) /\ y # x => AtMostOnce(y, s \o <<x>>)
  BY <1>1, PushFacts
<1> QED
  BY <1>1, <1>2, NeutralFacts, CallbackFacts DEF Agree

LEMMA AgreeLost ==
    ASSUME NEW s, NEW r, Agree(s, r)
    PROVE  Agree(s \o LostIfOpen, r)
<1>1. CASE transport = "open"
  BY <1>1, AgreeAppend DEF LostIfOpen, Neutral
<1>2. CASE transport # "open"
  BY <1>2, ConcatEmptySeq DEF LostIfOpen, Agree
<1> QED
  BY <1>1, <1>2

\* The coroutine that is woken had no callback yet.
LEMMA AgreeWake ==
    ASSUME NEW s, NEW r \in Seq(Callbacks), Agree(s, r),
           NEW c \in Callers, ~Occurs(Wake(c), r)
    PROVE  Agree(s \o <<Wake(c)>>, r \o <<Wake(c)>>)
<1>1. Wake(c) \in Callbacks /\ s \in Seq(Callbacks) /\ ~Occurs(Wake(c), s)
  BY CallbackFacts DEF Agree
<1>2. /\ s \o <<Wake(c)>> \in Seq(Callbacks)
      /\ \A y : Occurs(y, s \o <<Wake(c)>>) <=> Occurs(y, s) \/ y = Wake(c)
      /\ \A y : AtMostOnce(y, s) => AtMostOnce(y, s \o <<Wake(c)>>)
  BY <1>1, PushFacts
<1>3. \A y : Occurs(y, r \o <<Wake(c)>>) <=> Occurs(y, r) \/ y = Wake(c)
  BY <1>1, PushFacts
<1> QED
  BY <1>2, <1>3, CallbackFacts DEF Agree

-----------------------------------------------------------------------------
(* The three ways a step changes what the lock depends on. *)

\* A step that wakes nobody and completes at most futures nobody waits for.
LEMMA LockUntouched ==
    ASSUME TypeOK, LockInv,
           UNCHANGED <<pc, locked, waiters, owner>>,
           \A c \in Callers : fut'[c] = Pending => fut[c] = Pending,
           Agree(ready', ready)
    PROVE  LockInv'
<1> USE DEF TypeOK, LockInv, Queued, Agree
<1>1. MutualExclusion'
  BY DEF MutualExclusion, Holds
<1>2. FutureBelongsToWaiter'
  BY DEF FutureBelongsToWaiter
<1>3. NoLostWakeup' /\ WokenIsHead'
  BY PieceFacts DEF NoLostWakeup, WokenIsHead
<1>4. WaitersWait'
  BY DEF WaitersWait
<1>5. WakeOnce' /\ LoopPolls'
  BY DEF WakeOnce, LoopPolls
<1> QED
  BY <1>1, <1>2, <1>3, <1>4, <1>5

\* A step that completes the future in flight and wakes its owner.
LEMMA OwnerWoken ==
    ASSUME TypeOK, LockInv, InFlight,
           UNCHANGED <<pc, locked, waiters, owner>>,
           \A c \in Callers : fut'[c] = Pending => fut[c] = Pending /\ c # owner,
           Agree(ready', ready \o <<Wake(owner)>>)
    PROVE  LockInv'
<1> USE DEF TypeOK, LockInv, Queued
<1>0. /\ owner \in Callers /\ pc[owner] = "awaiting"
      /\ \A c \in Callers :
            /\ Occurs(Wake(c), ready') <=> Occurs(Wake(c), ready) \/ c = owner
            /\ Occurs(Made(c), ready') <=> Occurs(Made(c), ready)
            /\ AtMostOnce(Wake(c), ready') /\ AtMostOnce(Made(c), ready')
      /\ Occurs(Poll, ready')
  <2>1. owner \in Callers /\ pc[owner] = "awaiting"
    BY PieceFacts DEF InFlight, FutureBelongsToWaiter
  <2>2. \A x : Occurs(x, ready \o <<Wake(owner)>>) <=> Occurs(x, ready) \/ x = Wake(owner)
    BY <2>1, PushFacts, CallbackFacts
  <2> QED
    BY <2>1, <2>2, CallbackFacts DEF Agree
<1>1. MutualExclusion'
  BY DEF MutualExclusion, Holds
<1>2. FutureBelongsToWaiter'
  BY DEF FutureBelongsToWaiter
<1>3. NoLostWakeup' /\ WokenIsHead'
  BY <1>0, PieceFacts DEF NoLostWakeup, WokenIsHead
<1>4. WaitersWait'
  BY DEF WaitersWait
<1>5. WakeOnce' /\ LoopPolls'
  BY <1>0 DEF WakeOnce, LoopPolls
<1> QED
  BY <1>1, <1>2, <1>3, <1>4, <1>5

\* A step that leaves the critical section and wakes the first waiter.
LEMMA LockReleased ==
    ASSUME TypeOK, LockInv,
           NEW c \in Callers, pc[c] = "resumed",
           NEW p \in {"idle", "acquire"}, pc' = [pc EXCEPT ![c] = p],
           locked' = FALSE, waiters' = waiters,
           \A d \in Callers : fut'[d] # Pending,
           Agree(ready', ready \o WakeNext)
    PROVE  LockInv'
<1> USE DEF TypeOK, LockInv, Queued
<1>0. /\ locked
      /\ \A d \in Callers : d # c => ~Holds(d) /\ pc'[d] = pc[d]
      /\ pc'[c] = p
      /\ waiters # <<>> => Head(waiters) \in Callers /\ pc[Head(waiters)] = "waiting"
  BY TailFacts DEF MutualExclusion, Holds, WaitersWait
<1>1. MutualExclusion'
  BY <1>0 DEF MutualExclusion, Holds
<1>2. FutureBelongsToWaiter'
  BY DEF FutureBelongsToWaiter
<1>3. /\ \A d \in Callers :
            /\ Occurs(Wake(d), ready') <=>
                  Occurs(Wake(d), ready) \/ (waiters # <<>> /\ d = Head(waiters))
            /\ Occurs(Made(d), ready') <=> Occurs(Made(d), ready)
            /\ AtMostOnce(Wake(d), ready') /\ AtMostOnce(Made(d), ready')
      /\ Occurs(Poll, ready')
  <2>1. \A x : Occurs(x, ready \o WakeNext) <=> Occurs(x, ready) \/ Occurs(x, WakeNext)
    BY PieceFacts, ConcatFacts
  <2> QED
    BY <1>0, <2>1, PieceFacts, CallbackFacts DEF Agree
<1>4. NoLostWakeup' /\ WokenIsHead'
  BY <1>0, <1>3 DEF NoLostWakeup, WokenIsHead
<1>5. WaitersWait'
  BY <1>0 DEF WaitersWait
<1>6. WakeOnce'
  BY <1>0, <1>3 DEF WakeOnce
<1>7. LoopPolls'
  BY <1>3 DEF LoopPolls
<1> QED
  BY <1>1, <1>2, <1>4, <1>5, <1>6, <1>7

-----------------------------------------------------------------------------
(* What the shared pieces of the handlers do. *)

\* Nobody's future is pending while a coroutine is past its own await.
LEMMA ResumedAlone ==
    ASSUME TypeOK, LockInv, NEW c \in Callers, pc[c] = "resumed"
    PROVE  /\ locked /\ ~InFlight
           /\ \A d \in Callers : fut[d] # Pending
  BY DEF TypeOK, LockInv, MutualExclusion, FutureBelongsToWaiter, Holds, InFlight

\* The first waiter is not woken twice.
LEMMA NextNotWoken ==
    ASSUME TypeOK, LockInv, locked, waiters # <<>>
    PROVE  Head(waiters) \in Callers /\ ~Occurs(Wake(Head(waiters)), ready)
<1>1. Head(waiters) \in Callers /\ pc[Head(waiters)] = "waiting"
  BY TailFacts DEF TypeOK, LockInv, WaitersWait
<1> QED
  BY <1>1 DEF LockInv, WokenIsHead, Queued

\* The ways out of send_request.
LEMMA ReleaseFacts ==
    ASSUME TypeOK, LockInv, NEW c \in Callers, pc[c] = "resumed",
           \/ ReleaseAndDrop
           \/ locked' = FALSE /\ ready' = ready \o LostIfOpen \o WakeOwner \o WakeNext
    PROVE  locked' = FALSE /\ Agree(ready', ready \o WakeNext)
<1>1. /\ ready \in Seq(Callbacks) /\ Agree(ready, ready) /\ locked
      /\ WakeOwner = <<>>
  BY ResumedAlone, AgreeReady DEF TypeOK, WakeOwner
<1>2. Agree(ready \o LostIfOpen, ready)
  BY <1>1, AgreeLost
<1>3. Agree(ready \o WakeNext, ready \o WakeNext)
      /\ Agree(ready \o LostIfOpen \o WakeNext, ready \o WakeNext)
  <2>1. CASE waiters = <<>>
    BY <1>1, <1>2, <2>1, ConcatEmptySeq DEF WakeNext, Agree
  <2>2. CASE waiters # <<>>
    BY <1>1, <1>2, <2>2, NextNotWoken, AgreeWake DEF WakeNext
  <2> QED
    BY <2>1, <2>2
<1>4. Agree(ready \o WakeNext \o LostIfOpen, ready \o WakeNext)
  BY <1>3, AgreeLost
<1>5. /\ locked' = FALSE
      /\ ready' \in {ready \o WakeNext, ready \o WakeNext \o LostIfOpen,
                     ready \o LostIfOpen \o WakeNext}
  <2>1. \A s \in Seq(Callbacks) : s \o <<>> = s
    BY ConcatEmptySeq
  <2>2. /\ ready \o LostIfOpen \in Seq(Callbacks)
        /\ ready \o WakeNext \o LostIfOpen \in Seq(Callbacks)
    BY <1>2, <1>4 DEF Agree
  <2> QED
    BY <1>1, <2>1, <2>2 DEF ReleaseAndDrop
<1> QED
  BY <1>3, <1>4, <1>5

\* A handler that completes self.response_future.
LEMMA SettleStep ==
    ASSUME TypeOK, LockInv, Head(ready) \in Neutral,
           UNCHANGED <<pc, locked, waiters, owner>>,
           NEW v, v # Pending, fut' = Settle(v),
           ready' \in {Tail(ready) \o WakeOwner, Tail(ready) \o WakeOwner \o LostIfOpen,
                       Tail(ready) \o LostIfOpen \o WakeOwner}
    PROVE  LockInv'
<1>1. Agree(Tail(ready), ready) /\ Agree(Tail(ready) \o LostIfOpen, ready)
  BY AgreeTail, AgreeLost
<1>2. CASE InFlight
  <2>1. owner \in Callers /\ ready \in Seq(Callbacks) /\ ~Occurs(Wake(owner), ready)
    BY <1>2, PieceFacts DEF TypeOK, LockInv, WakeOnce, InFlight, Queued
  <2>2. /\ Agree(Tail(ready) \o <<Wake(owner)>>, ready \o <<Wake(owner)>>)
        /\ Agree(Tail(ready) \o LostIfOpen \o <<Wake(owner)>>, ready \o <<Wake(owner)>>)
    BY <1>1, <2>1, AgreeWake
  <2>3. Agree(Tail(ready) \o <<Wake(owner)>> \o LostIfOpen, ready \o <<Wake(owner)>>)
    BY <2>2, AgreeLost
  <2>4. \A c \in Callers : fut'[c] = Pending => fut[c] = Pending /\ c # owner
    BY <1>2, <2>1 DEF Settle, TypeOK
  <2> QED
    BY <1>2, <2>2, <2>3, <2>4, OwnerWoken DEF WakeOwner
<1>3. CASE ~InFlight
  <2>1. WakeOwner = <<>> /\ fut' = fut
    BY <1>3 DEF WakeOwner, Settle
  <2>2. \A s \in Seq(Callbacks) : s \o <<>> = s
    BY ConcatEmptySeq
  <2>3. Agree(ready', ready)
    BY <1>1, <2>1, <2>2 DEF Agree
  <2> QED
    BY <2>1, <2>3, LockUntouched
<1> QED
  BY <1>2, <1>3

-----------------------------------------------------------------------------
(* The steps that take, queue for or hand over the lock. *)

LEMMA LockStepCall ==
    ASSUME TypeOK, LockInv, NEW c \in Callers, NEW k \in Commands, Call(c, k)
    PROVE  LockInv'
<1> USE DEF Call, TypeOK, LockInv, lockVars, exchange, Queued
<1>1. MutualExclusion' /\ FutureBelongsToWaiter'
  BY DEF MutualExclusion, FutureBelongsToWaiter, Holds
<1>2. NoLostWakeup' /\ WaitersWait' /\ WokenIsHead' /\ LoopPolls'
  BY DEF NoLostWakeup, WaitersWait, WokenIsHead, LoopPolls
<1>3. WakeOnce'
  BY DEF WakeOnce
<1> QED
  BY <1>1, <1>2, <1>3

LEMMA LockStepAcquireFree ==
    ASSUME TypeOK, LockInv, NEW c \in Callers, AcquireFree(c)
    PROVE  LockInv'
<1> USE DEF AcquireFree, TakeLock, TypeOK, LockInv, exchange, Queued
<1>1. MutualExclusion' /\ FutureBelongsToWaiter'
  BY DEF MutualExclusion, FutureBelongsToWaiter, Holds
<1>2. \A d \in Callers : ~Occurs(d, waiters) /\ pc[d] # "waiting"
  BY ShortFacts DEF WaitersWait
<1>3. NoLostWakeup' /\ WaitersWait' /\ WokenIsHead' /\ LoopPolls'
  BY <1>2 DEF NoLostWakeup, WaitersWait, WokenIsHead, LoopPolls
<1>4. WakeOnce'
  BY DEF WakeOnce
<1> QED
  BY <1>1, <1>3, <1>4

LEMMA LockStepAcquireWait ==
    ASSUME TypeOK, LockInv, NEW c \in Callers, AcquireWait(c)
    PROVE  LockInv'
<1> USE DEF AcquireWait, TypeOK, LockInv, exchange, Queued
<1>1. MutualExclusion' /\ FutureBelongsToWaiter'
  BY DEF MutualExclusion, FutureBelongsToWaiter, Holds
<1>2. /\ \A d : Occurs(d, waiters') <=> Occurs(d, waiters) \/ d = c
      /\ \A d : AtMostOnce(d, waiters) /\ ~(d = c /\ Occurs(d, waiters)) => AtMostOnce(d, waiters')
  <2>1. waiters \in Seq(Callers) /\ waiters' = Append(waiters, c)
    OBVIOUS
  <2> QED
    BY <2>1, AppendFacts
<1>3. waiters # <<>> => Head(waiters') = Head(waiters)
  OBVIOUS
<1>4. waiters' # <<>> /\ (waiters = <<>> => locked)
  OBVIOUS
<1>5. \A d \in Callers : Occurs(Wake(d), ready) => d # c
  BY DEF WakeOnce
<1>6. NoLostWakeup'
  BY <1>3, <1>4 DEF NoLostWakeup
<1>7. WaitersWait'
  BY <1>2 DEF WaitersWait
<1>8. WokenIsHead'
  BY <1>3, <1>4, <1>5 DEF WokenIsHead
<1>9. WakeOnce' /\ LoopPolls'
  BY DEF WakeOnce, LoopPolls
<1> QED
  BY <1>1, <1>6, <1>7, <1>8, <1>9

LEMMA LockStepConnect ==
    ASSUME TypeOK, LockInv, NEW c \in Callers, Connect(c)
    PROVE  LockInv'
<1> USE DEF Connect, TypeOK, LockInv, lockVars, exchange, Queued
<1>1. MutualExclusion' /\ FutureBelongsToWaiter'
  <2>1. \A d \in Callers : Holds(d)' <=> Holds(d)
    BY DEF Holds
  <2>2. locked' = locked /\ fut' = fut /\ owner' = owner
    OBVIOUS
  <2>3. \A d \in Callers : pc[d] = "awaiting" => pc'[d] = "awaiting"
    OBVIOUS
  <2>4. MutualExclusion'
    BY <2>1, <2>2 DEF MutualExclusion
  <2>5. FutureBelongsToWaiter'
    BY <2>2, <2>3 DEF FutureBelongsToWaiter
  <2> QED
    BY <2>4, <2>5
<1>2. WaitersWait'
  <2>1. waiters' = waiters
    OBVIOUS
  <2>2. \A d \in Callers : pc'[d] = "waiting" <=> pc[d] = "waiting"
    OBVIOUS
  <2> QED
    BY <2>1, <2>2 DEF WaitersWait
<1>3. /\ ~Occurs(Wake(c), ready) /\ ~Occurs(Made(c), ready)
      /\ \A x : Occurs(x, ready') <=>
            Occurs(x, ready) \/ (transport # "open" /\ x = Made(c))
      /\ \A x : AtMostOnce(x, ready) => AtMostOnce(x, ready')
  <2>1. ~Occurs(Wake(c), ready) /\ ~Occurs(Made(c), ready) /\ Made(c) \in Callbacks
    BY CallbackFacts DEF WakeOnce
  <2>2. CASE transport = "open"
    BY <2>1, <2>2
  <2>3. CASE transport # "open"
    <3>1. ready' = Append(ready, Made(c))
      BY <2>3
    <3>2. /\ \A x : Occurs(x, ready') <=> Occurs(x, ready) \/ x = Made(c)
          /\ \A x : AtMostOnce(x, ready) /\ ~(x = Made(c) /\ Occurs(x, ready))
                       => AtMostOnce(x, ready')
      BY <2>1, <3>1, AppendFacts
    <3> QED
      BY <2>1, <2>3, <3>2
  <2> QED
    BY <2>1, <2>2, <2>3
<1>4. NoLostWakeup' /\ WokenIsHead' /\ LoopPolls'
  BY <1>3, CallbackFacts, PieceFacts DEF NoLostWakeup, WokenIsHead, LoopPolls
<1>5. WakeOnce'
  BY <1>3, CallbackFacts DEF WakeOnce
<1> QED
  BY <1>1, <1>2, <1>4, <1>5

LEMMA LockStepConnectFails ==
    ASSUME TypeOK, LockInv, NEW c \in Callers, ConnectFails(c)
    PROVE  LockInv'
<1> USE DEF ConnectFails, TypeOK, LockInv, lockVars, linkVars, Queued
<1>1. MutualExclusion'
  BY DEF MutualExclusion, Holds
<1>2. FutureBelongsToWaiter'
  BY DEF MutualExclusion, FutureBelongsToWaiter, Holds, Error, Pending
<1>3. NoLostWakeup' /\ WaitersWait' /\ WokenIsHead' /\ LoopPolls'
  BY DEF NoLostWakeup, WaitersWait, WokenIsHead, LoopPolls
<1>4. WakeOnce'
  BY DEF WakeOnce, Error, Pending
<1> QED
  BY <1>1, <1>2, <1>3, <1>4

LEMMA LockStepSend ==
    ASSUME TypeOK, LockInv, NEW c \in Callers, NEW r \in Reactions, Send(c, r)
    PROVE  LockInv'
<1> USE DEF Send, TypeOK, LockInv, lockVars, Queued
<1>1. MutualExclusion'
  BY DEF MutualExclusion, Holds
<1>2. FutureBelongsToWaiter'
  BY DEF MutualExclusion, FutureBelongsToWaiter, Holds
<1>3. NoLostWakeup' /\ WaitersWait' /\ WokenIsHead' /\ LoopPolls'
  BY DEF NoLostWakeup, WaitersWait, WokenIsHead, LoopPolls
<1>4. WakeOnce'
  BY DEF WakeOnce
<1> QED
  BY <1>1, <1>2, <1>3, <1>4

LEMMA LockStepSendFails ==
    ASSUME TypeOK, LockInv, NEW c \in Callers, SendFails(c)
    PROVE  LockInv'
<1> USE DEF SendFails, TypeOK, LockInv, lockVars, Queued
<1>1. Agree(ready', ready)
  BY AgreeReady, AgreeLost
<1>2. MutualExclusion'
  BY DEF MutualExclusion, Holds
<1>3. FutureBelongsToWaiter'
  BY DEF MutualExclusion, FutureBelongsToWaiter, Holds, Error, Pending
<1>4. NoLostWakeup' /\ WaitersWait' /\ WokenIsHead' /\ LoopPolls'
  BY <1>1, PieceFacts DEF NoLostWakeup, WaitersWait, WokenIsHead, LoopPolls, Agree
<1>5. WakeOnce'
  BY <1>1 DEF WakeOnce, Agree, Error, Pending
<1> QED
  BY <1>2, <1>3, <1>4, <1>5

LEMMA LockStepWakeAcquired ==
    ASSUME TypeOK, LockInv, NEW c \in Callers, WakeAcquired(c)
    PROVE  LockInv'
<1> USE DEF WakeAcquired, Runs, TypeOK, LockInv, exchange, Queued
<1>1. /\ Occurs(Wake(c), ready) /\ ~locked /\ Head(waiters) = c
      /\ waiters # <<>>
      /\ \A d \in Callers : ~Holds(d)
  <2>1. Occurs(Wake(c), ready)
    BY RunFacts
  <2>2. ~locked /\ Head(waiters) = c
    BY <2>1 DEF WokenIsHead
  <2>3. Occurs(c, waiters)
    BY DEF WaitersWait
  <2>4. waiters # <<>>
    BY <2>3, ShortFacts
  <2>5. \A d \in Callers : ~Holds(d)
    BY <2>2 DEF MutualExclusion
  <2> QED
    BY <2>1, <2>2, <2>4, <2>5
<1>2. /\ \A x : Occurs(x, ready') => Occurs(x, ready)
      /\ \A x : AtMostOnce(x, ready) => AtMostOnce(x, ready')
      /\ ~Occurs(Wake(c), ready') /\ Occurs(Poll, ready')
  BY RunFacts, CallbackFacts DEF WakeOnce, LoopPolls
<1>3. /\ \A d : Occurs(d, waiters') <=> Occurs(d, waiters) /\ d # c
      /\ \A d : AtMostOnce(d, waiters) => AtMostOnce(d, waiters')
  BY <1>1, TailFacts DEF WaitersWait
<1>4. MutualExclusion'
  BY <1>1 DEF MutualExclusion, Holds
<1>5. FutureBelongsToWaiter'
  BY DEF FutureBelongsToWaiter
<1>6. NoLostWakeup' /\ LoopPolls'
  BY <1>2 DEF NoLostWakeup, LoopPolls
<1>7. WaitersWait'
  BY <1>3 DEF WaitersWait
<1>8. WokenIsHead'
  BY <1>1, <1>2 DEF WokenIsHead
<1>9. WakeOnce'
  BY <1>2 DEF WakeOnce
<1> QED
  BY <1>4, <1>5, <1>6, <1>7, <1>8, <1>9

LEMMA LockStepWakeAwaited ==
    ASSUME TypeOK, LockInv, NEW c \in Callers, WakeAwaited(c)
    PROVE  LockInv'
<1> USE DEF WakeAwaited, Runs, TypeOK, LockInv, lockVars, exchange, Queued
<1>1. Occurs(Wake(c), ready) /\ fut[c] # Pending
  BY RunFacts DEF WakeOnce
<1>2. /\ \A x : Occurs(x, ready') => Occurs(x, ready)
      /\ \A x : x # Wake(c) /\ Occurs(x, ready) => Occurs(x, ready')
      /\ \A x : AtMostOnce(x, ready) => AtMostOnce(x, ready')
      /\ ~Occurs(Wake(c), ready') /\ Occurs(Poll, ready')
  BY RunFacts, CallbackFacts DEF WakeOnce, LoopPolls
<1>3. MutualExclusion'
  BY DEF MutualExclusion, Holds
<1>4. FutureBelongsToWaiter'
  BY <1>1 DEF FutureBelongsToWaiter
<1>5. WaitersWait'
  BY DEF WaitersWait
<1>6. waiters # <<>> => Head(waiters) \in Callers /\ Head(waiters) # c
  BY TailFacts DEF WaitersWait
<1>7. NoLostWakeup' /\ WokenIsHead' /\ LoopPolls'
  BY <1>2, <1>6, CallbackFacts DEF NoLostWakeup, WokenIsHead, LoopPolls
<1>8. WakeOnce'
  BY <1>1, <1>2 DEF WakeOnce
<1> QED
  BY <1>3, <1>4, <1>5, <1>7, <1>8

LEMMA LockStepConnectionMade ==
    ASSUME TypeOK, LockInv, NEW c \in Callers, ConnectionMade(c)
    PROVE  LockInv'
<1> USE DEF ConnectionMade, Runs, TypeOK, LockInv, callerVars, lockVars, exchange, Queued
<1>1. pc[c] = "connecting" /\ ~Occurs(Wake(c), ready) /\ fut[c] # Pending
  BY RunFacts DEF WakeOnce, FutureBelongsToWaiter
<1>2. /\ \A x : Occurs(x, ready') <=> Occurs(x, Tail(ready)) \/ x = Wake(c)
      /\ \A x : AtMostOnce(x, Tail(ready)) /\ ~(x = Wake(c) /\ Occurs(x, Tail(ready)))
                  => AtMostOnce(x, ready')
  <2>1. Wake(c) \in Callbacks
    BY CallbackFacts
  <2> QED
    BY <2>1, PopPushFacts
<1>3. \A d \in Callers :
         /\ Occurs(Wake(d), ready') <=> Occurs(Wake(d), ready) \/ d = c
         /\ Occurs(Made(d), ready') => Occurs(Made(d), ready) /\ d # c
         /\ AtMostOnce(Wake(d), ready') /\ AtMostOnce(Made(d), ready')
  BY <1>1, <1>2, RunFacts, CallbackFacts DEF WakeOnce
<1>4. MutualExclusion' /\ FutureBelongsToWaiter' /\ WaitersWait'
  BY DEF MutualExclusion, Holds, FutureBelongsToWaiter, WaitersWait
<1>5. NoLostWakeup' /\ WokenIsHead'
  BY <1>1, <1>3, PieceFacts DEF NoLostWakeup, WokenIsHead
<1>6. LoopPolls'
  BY <1>2, RunFacts, CallbackFacts DEF LoopPolls
<1>7. WakeOnce'
  BY <1>1, <1>3 DEF WakeOnce
<1> QED
  BY <1>4, <1>5, <1>6, <1>7

-----------------------------------------------------------------------------
(* Every step preserves the invariant of the lock. *)

\* The ways out of send_request, with a retry or without.
LEMMA LockStepLeave ==
    ASSUME TypeOK, LockInv, NEW c \in Callers,
           Return(c) \/ Retry(c) \/ RecursionLimit(c) \/ MaxRetriesReached(c)
    PROVE  LockInv'
<1>1. /\ pc[c] = "resumed" /\ waiters' = waiters
      /\ pc' \in {[pc EXCEPT ![c] = "idle"], [pc EXCEPT ![c] = "acquire"]}
      /\ \/ ReleaseAndDrop
         \/ locked' = FALSE /\ ready' = ready \o LostIfOpen \o WakeOwner \o WakeNext
  BY DEF Return, Retry, Nested, TimedOut, RecursionLimit, MaxRetriesReached, GiveUp
<1>2. locked' = FALSE /\ Agree(ready', ready \o WakeNext)
  BY <1>1, ReleaseFacts
<1>3. \A d \in Callers : fut'[d] # Pending
  <2>1. /\ \A d \in Callers : fut[d] # Pending
        /\ Settle(Cancelled) = fut
    BY <1>1, ResumedAlone DEF Settle
  <2>2. CASE Return(c) \/ Retry(c) \/ RecursionLimit(c)
    BY <2>1, <2>2 DEF Return, Retry, Nested, TimedOut, RecursionLimit, ReleaseAndDrop
  <2>3. CASE MaxRetriesReached(c)
    BY <2>1, <2>3 DEF MaxRetriesReached, GiveUp, TimedOut, TypeOK, Exhausted, Pending
  <2> QED
    BY <2>2, <2>3
<1> QED
  BY <1>1, <1>2, <1>3, LockReleased

LEMMA LockStepReceive ==
    ASSUME TypeOK, LockInv, NEW d \in Datagrams,
           \/ ReceiveAnswer(d) \/ ReceivePartial(d) \/ ReceiveReject(d)
           \/ ReceiveInvalid(d) \/ ReceiveError(d)
    PROVE  LockInv'
<1>1. Head(ready) \in Neutral /\ UNCHANGED <<pc, locked, waiters, owner>>
  BY DEF ReceiveAnswer, ReceivePartial, ReceiveReject, ReceiveInvalid, ReceiveError,
         Receive, Runs, Neutral, callerVars, lockVars
<1>2. Agree(Tail(ready), ready)
  BY <1>1, AgreeTail
<1>3. CASE ReceiveAnswer(d)
  BY <1>1, <1>3, SettleStep DEF ReceiveAnswer, Answer, Pending
<1>4. CASE ReceivePartial(d)
  BY <1>1, <1>2, <1>4, LockUntouched DEF ReceivePartial
<1>5. CASE ReceiveReject(d)
  BY <1>1, <1>5, SettleStep DEF ReceiveReject, Rejected, Pending
<1>6. CASE ReceiveInvalid(d)
  <2>1. Agree(Append(Tail(ready), Invalid), ready)
    BY <1>2, AgreeAppend DEF Neutral
  <2> QED
    BY <1>1, <1>6, <2>1, LockUntouched DEF ReceiveInvalid
<1>7. CASE ReceiveError(d)
  <2>1. CASE InFlight
    BY <1>1, <1>7, <2>1, SettleStep DEF ReceiveError, Error, Pending
  <2>2. CASE ~InFlight
    BY <1>1, <1>2, <1>7, <2>2, LockUntouched DEF ReceiveError
  <2> QED
    BY <2>1, <2>2
<1> QED
  BY <1>3, <1>4, <1>5, <1>6, <1>7

LEMMA LockStepCallback ==
    ASSUME TypeOK, LockInv, RunCallback
    PROVE  LockInv'
<1>1. ASSUME NEW c \in Callers, WakeAcquired(c) PROVE LockInv'
  BY <1>1, LockStepWakeAcquired
<1>2. ASSUME NEW c \in Callers, WakeAwaited(c) PROVE LockInv'
  BY <1>2, LockStepWakeAwaited
<1>3. ASSUME NEW c \in Callers, ConnectionMade(c) PROVE LockInv'
  BY <1>3, LockStepConnectionMade
<1>4. CASE ConnectionLost
  BY <1>4, SettleStep DEF ConnectionLost, Runs, Neutral, callerVars, lockVars, Cancelled, Pending
<1>5. ASSUME NEW t \in TimerIds, TimerExpired(t) PROVE LockInv'
  BY <1>5, SettleStep
     DEF TimerExpired, TimeoutMechanism, Runs, Neutral, callerVars, lockVars, Cancelled, Pending
<1>6. CASE InvalidHandled
  BY <1>6, SettleStep
     DEF InvalidHandled, TimeoutMechanism, Runs, Neutral, callerVars, lockVars, Cancelled, Pending
<1>7. CASE SkipCancelled
  <2>1. Head(ready) \in Neutral /\ UNCHANGED <<pc, locked, waiters, owner, fut>>
    BY <1>7 DEF SkipCancelled, Runs, Neutral, callerVars, lockVars, exchange
  <2>2. Agree(ready', ready)
    BY <1>7, <2>1, AgreeTail DEF SkipCancelled
  <2> QED
    BY <2>1, <2>2, LockUntouched
<1>8. ASSUME NEW d \in Datagrams,
             \/ ReceiveAnswer(d) \/ ReceivePartial(d) \/ ReceiveReject(d)
             \/ ReceiveInvalid(d) \/ ReceiveError(d)
      PROVE  LockInv'
  BY <1>8, LockStepReceive
<1> QED
  BY <1>1, <1>2, <1>3, <1>4, <1>5, <1>6, <1>7, <1>8 DEF RunCallback

LEMMA LockStepSelect ==
    ASSUME TypeOK, LockInv, Select
    PROVE  LockInv'
<1>1. UNCHANGED <<pc, locked, waiters, owner, fut>>
  BY DEF Select, PollReadable, PollTimer, PollEnds, callerVars, lockVars, exchange
<1>2. Agree(ready, ready)
  BY AgreeReady
<1>3. CASE PollReadable
  <2>1. Agree(Append(ready, Read), ready)
    BY <1>2, AgreeAppend DEF Neutral
  <2> QED
    BY <1>1, <1>3, <2>1, LockUntouched DEF PollReadable
<1>4. ASSUME NEW t \in TimerIds, PollTimer(t) PROVE LockInv'
  <2>1. Agree(Append(ready, Due(t)), ready)
    BY <1>2, AgreeAppend DEF Neutral
  <2> QED
    BY <1>1, <1>4, <2>1, LockUntouched DEF PollTimer
<1>5. CASE PollEnds
  <2>1. Head(ready) = Poll /\ ready' = Append(Tail(ready), Poll)
    BY <1>5 DEF PollEnds, Polls
  <2>2. \A d \in Callers :
           /\ Occurs(Wake(d), Tail(ready)) <=> Occurs(Wake(d), ready)
           /\ Occurs(Made(d), Tail(ready)) <=> Occurs(Made(d), ready)
           /\ AtMostOnce(Wake(d), Tail(ready)) /\ AtMostOnce(Made(d), Tail(ready))
    BY <1>2, <2>1, RunFacts, CallbackFacts DEF Agree, Queued
  <2>3. Agree(Append(Tail(ready), Poll), ready)
    BY <2>2, PopPushFacts, CallbackFacts DEF Agree
  <2> QED
    BY <1>1, <2>1, <2>3, LockUntouched
<1> QED
  BY <1>3, <1>4, <1>5 DEF Select

LEMMA LockStep ==
    ASSUME TypeOK, LockInv, [Next]_vars
    PROVE  LockInv'
<1>1. ASSUME NEW c \in Callers, NEW k \in Commands, Call(c, k) PROVE LockInv'
  BY <1>1, LockStepCall
<1>2. ASSUME NEW c \in Callers, Coroutine(c) PROVE LockInv'
  BY <1>2, LockStepAcquireFree, LockStepAcquireWait, LockStepConnect,
     LockStepConnectFails, LockStepSend, LockStepSendFails, LockStepLeave
     DEF Coroutine
<1>3. CASE RunCallback
  BY <1>3, LockStepCallback
<1>4. CASE Select
  BY <1>4, LockStepSelect
<1>5. CASE UNCHANGED vars
  BY <1>5, AgreeReady, LockUntouched DEF vars, callerVars, lockVars, exchange
<1> QED
  BY <1>1, <1>2, <1>3, <1>4, <1>5 DEF Next, Loop, AllReturned

-----------------------------------------------------------------------------
(* Every step preserves the types. *)

LEMMA SettleType ==
    ASSUME TypeOK, LockInv, NEW v \in Futures
    PROVE  Settle(v) \in [Callers -> Futures]
  BY PieceFacts DEF Settle, TypeOK

LEMMA TimerType ==
    ASSUME TypeOK, NEW live, live \subseteq TimerIds, ArmTimer(live)
    PROVE  timer' \in TimerIds \cup {None} /\ armed' \subseteq TimerIds
<1>1. FreeTimers \subseteq TimerIds /\ FreeTimers # {}
  BY DEF FreeTimers, ArmTimer
<1>2. NewTimer \in TimerIds
  BY <1>1 DEF NewTimer
<1> QED
  BY <1>2 DEF ArmTimer

LEMMA NetType == NoDatagrams \in [Datagrams -> Nat]
  BY DEF NoDatagrams

LEMMA FutureType ==
    /\ {NoFuture, Pending, Rejected, Error, Cancelled, Exhausted} \subseteq Futures
    /\ \A k \in Commands : Answer(k) \in Futures
  BY DEF Futures

\* The loop's queue, joined from what the handlers append.
LEMMA JoinType ==
    ASSUME NEW a \in Seq(Callbacks), NEW b \in Seq(Callbacks), NEW c \in Seq(Callbacks),
           NEW d \in Seq(Callbacks)
    PROVE  /\ a \o b \in Seq(Callbacks) /\ a \o b \o c \in Seq(Callbacks)
           /\ a \o b \o c \o d \in Seq(Callbacks)
  BY ConcatProperties

LEMMA ReleaseType ==
    ASSUME TypeOK, LockInv, ReleaseAndDrop
    PROVE  /\ locked' \in BOOLEAN /\ ready' \in Seq(Callbacks)
           /\ fut' \in [Callers -> Futures]
           /\ transport' \in {"none", "open"} /\ net' \in [Datagrams -> Nat]
<1>1. Settle(Cancelled) \in [Callers -> Futures]
  BY FutureType, SettleType
<1>2. /\ ready \in Seq(Callbacks) /\ WakeNext \in Seq(Callbacks)
      /\ LostIfOpen \in Seq(Callbacks) /\ WakeOwner \in Seq(Callbacks)
  BY PieceFacts DEF TypeOK
<1>3. /\ ready \o WakeNext \in Seq(Callbacks)
      /\ ready \o WakeNext \o LostIfOpen \o WakeOwner \in Seq(Callbacks)
  BY <1>2, JoinType
<1>4. ready' \in Seq(Callbacks)
  BY <1>3, Zenon DEF ReleaseAndDrop
<1> QED
  BY <1>1, <1>4, NetType DEF TypeOK, ReleaseAndDrop, HangUp, linkVars

LEMMA TypeStepCall ==
    ASSUME TypeOK, LockInv, NEW c \in Callers, NEW k \in Commands, Call(c, k)
    PROVE  TypeOK'
  BY ConstantsAssumption
     DEF TypeOK, Call, PCs, Synchronous, lockVars, linkVars, exchange, timerVars

LEMMA TypeStepAcquire ==
    ASSUME TypeOK, LockInv, NEW c \in Callers, AcquireFree(c) \/ AcquireWait(c)
    PROVE  TypeOK'
<1>1. Append(waiters, c) \in Seq(Callers)
  BY AppendFacts DEF TypeOK
<1>2. waiters' \in Seq(Callers)
  BY <1>1, Zenon DEF TypeOK, AcquireFree, TakeLock, AcquireWait
<1>3. pc' \in [Callers -> PCs] /\ locked' \in BOOLEAN
  BY DEF TypeOK, AcquireFree, TakeLock, AcquireWait, PCs, Synchronous
<1> QED
  BY <1>2, <1>3 DEF TypeOK, AcquireFree, TakeLock, AcquireWait, linkVars, exchange, timerVars

LEMMA TypeStepConnect ==
    ASSUME TypeOK, LockInv, NEW c \in Callers, Connect(c)
    PROVE  TypeOK'
<1>1. ready \in Seq(Callbacks) /\ Made(c) \in Callbacks
  BY CallbackFacts DEF TypeOK
<1>2. Append(ready, Made(c)) \in Seq(Callbacks)
  BY <1>1, AppendFacts
<1>3. ready' \in Seq(Callbacks)
  BY <1>1, <1>2, Zenon DEF Connect
<1>4. pc' \in [Callers -> PCs]
  BY DEF TypeOK, Connect, PCs, Synchronous
<1> QED
  BY <1>3, <1>4 DEF TypeOK, Connect, lockVars, linkVars, exchange, timerVars

LEMMA TypeStepConnectFails ==
    ASSUME TypeOK, LockInv, NEW c \in Callers, ConnectFails(c)
    PROVE  TypeOK'
<1>1. fut' \in [Callers -> Futures]
  BY FutureType DEF TypeOK, ConnectFails
<1> QED
  BY <1>1 DEF TypeOK, ConnectFails, PCs, Synchronous, lockVars, linkVars, timerVars

LEMMA TypeStepSend ==
    ASSUME TypeOK, LockInv, NEW c \in Callers, NEW r \in Reactions, Send(c, r)
    PROVE  TypeOK'
<1>1. timer' \in TimerIds \cup {None} /\ armed' \subseteq TimerIds
  BY TimerType DEF TypeOK, Send
<1>2. net' \in [Datagrams -> Nat]
  <2>1. r \in [Kinds -> Nat]
    BY ConstantsAssumption
  <2>2. \A d \in Datagrams : net[d] \in Nat /\ r[d.kind] \in Nat
    BY <2>1 DEF TypeOK, Datagrams
  <2>3. \A d \in Datagrams : net[d] + r[d.kind] \in Nat
    BY <2>2
  <2> QED
    BY <2>2, <2>3 DEF Send
<1>3. fut' \in [Callers -> Futures]
  BY FutureType DEF TypeOK, Send
<1> QED
  BY <1>1, <1>2, <1>3 DEF TypeOK, Send, PCs, Synchronous, lockVars

LEMMA TypeStepSendFails ==
    ASSUME TypeOK, LockInv, NEW c \in Callers, SendFails(c)
    PROVE  TypeOK'
<1>1. timer' \in TimerIds \cup {None} /\ armed' \subseteq TimerIds
  BY TimerType DEF TypeOK, SendFails
<1>2. ready' \in Seq(Callbacks)
  BY PieceFacts, JoinType DEF TypeOK, SendFails
<1>3. fut' \in [Callers -> Futures] /\ net' \in [Datagrams -> Nat]
  BY FutureType, NetType DEF TypeOK, SendFails, HangUp
<1> QED
  BY <1>1, <1>2, <1>3 DEF TypeOK, SendFails, HangUp, PCs, Synchronous, lockVars

LEMMA TypeStepLeave ==
    ASSUME TypeOK, LockInv, NEW c \in Callers,
           Return(c) \/ Retry(c) \/ RecursionLimit(c) \/ MaxRetriesReached(c)
    PROVE  TypeOK'
<1>1. CASE Return(c)
  BY <1>1, ReleaseType DEF TypeOK, Return, PCs, Synchronous, timerVars
<1>2. CASE Retry(c)
  <2>1. retry' \in 0..MaxRetries /\ frames' \in [Callers -> 0..MaxFrames]
    BY <1>2, ConstantsAssumption DEF TypeOK, Retry, Nested, TimedOut
  <2> QED
    BY <1>2, <2>1, ReleaseType DEF TypeOK, Retry, Nested, TimedOut, PCs, Synchronous, timerVars
<1>3. CASE RecursionLimit(c)
  <2>1. retry' \in 0..MaxRetries
    BY <1>3, ConstantsAssumption DEF TypeOK, RecursionLimit, TimedOut
  <2> QED
    BY <1>3, <2>1, ReleaseType DEF TypeOK, RecursionLimit, TimedOut, PCs, Synchronous, timerVars
<1>4. CASE MaxRetriesReached(c)
  <2>1. ready' \in Seq(Callbacks)
    BY <1>4, PieceFacts, JoinType DEF TypeOK, MaxRetriesReached, GiveUp, TimedOut
  <2>2. fut' \in [Callers -> Futures] /\ net' \in [Datagrams -> Nat]
    BY <1>4, FutureType, SettleType, NetType DEF MaxRetriesReached, GiveUp, TimedOut, HangUp
  <2> QED
    BY <1>4, <2>1, <2>2 DEF TypeOK, MaxRetriesReached, GiveUp, TimedOut, HangUp,
           PCs, Synchronous, timerVars
<1> QED
  BY <1>1, <1>2, <1>3, <1>4

LEMMA TypeStepWake ==
    ASSUME TypeOK, LockInv, NEW c \in Callers, WakeAcquired(c) \/ WakeAwaited(c) \/ ConnectionMade(c)
    PROVE  TypeOK'
<1>1. CASE WakeAcquired(c)
  <2>1. Occurs(c, waiters)
    BY <1>1 DEF WakeAcquired, LockInv, WaitersWait
  <2>2. waiters # <<>>
    BY <2>1, ShortFacts
  <2>3. Tail(waiters) \in Seq(Callers) /\ Tail(ready) \in Seq(Callbacks)
    BY <2>2, RunFacts, TailFacts DEF TypeOK
  <2> QED
    BY <1>1, <2>3 DEF TypeOK, WakeAcquired, PCs, Synchronous, linkVars, exchange, timerVars
<1>2. CASE WakeAwaited(c)
  BY <1>2, RunFacts
     DEF TypeOK, WakeAwaited, PCs, Synchronous, lockVars, linkVars, exchange, timerVars
<1>3. CASE ConnectionMade(c)
  <2>1. ready' \in Seq(Callbacks)
    BY <1>3, PopPushFacts, CallbackFacts DEF ConnectionMade
  <2> QED
    BY <1>3, <2>1, NetType DEF TypeOK, ConnectionMade, callerVars, lockVars, exchange, timerVars
<1> QED
  BY <1>1, <1>2, <1>3

LEMMA TypeStepTimeout ==
    ASSUME TypeOK, LockInv,
           \/ ConnectionLost \/ InvalidHandled \/ SkipCancelled
           \/ \E t \in TimerIds : TimerExpired(t)
    PROVE  TypeOK'
<1>1. /\ Tail(ready) \in Seq(Callbacks)
      /\ Tail(ready) \o WakeOwner \in Seq(Callbacks)
      /\ Tail(ready) \o LostIfOpen \o WakeOwner \in Seq(Callbacks)
  BY RunFacts, PieceFacts, JoinType
<1>2. Settle(Cancelled) \in [Callers -> Futures]
  BY FutureType, SettleType
<1>3. CASE ConnectionLost
  BY <1>1, <1>2, <1>3, NetType DEF TypeOK, ConnectionLost, HangUp, callerVars, lockVars, timerVars
<1>4. ASSUME TimeoutMechanism, armed' \subseteq TimerIds PROVE TypeOK'
  BY <1>1, <1>2, <1>4, ConstantsAssumption
     DEF TypeOK, TimeoutMechanism, callerVars, lockVars, linkVars
<1>5. CASE InvalidHandled
  BY <1>4, <1>5 DEF InvalidHandled, TypeOK
<1>6. CASE \E t \in TimerIds : TimerExpired(t)
  BY <1>4, <1>6 DEF TimerExpired, TypeOK
<1>7. CASE SkipCancelled
  BY <1>1, <1>7 DEF TypeOK, SkipCancelled, callerVars, lockVars, linkVars, exchange, timerVars
<1> QED
  BY <1>3, <1>5, <1>6, <1>7

LEMMA TypeStepReceive ==
    ASSUME TypeOK, LockInv, NEW d \in Datagrams,
           \/ ReceiveAnswer(d) \/ ReceivePartial(d) \/ ReceiveReject(d)
           \/ ReceiveInvalid(d) \/ ReceiveError(d)
    PROVE  TypeOK'
<1>1. /\ Tail(ready) \in Seq(Callbacks)
      /\ Tail(ready) \o WakeOwner \in Seq(Callbacks)
      /\ Tail(ready) \o WakeOwner \o LostIfOpen \in Seq(Callbacks)
      /\ Append(Tail(ready), Invalid) \in Seq(Callbacks)
  BY RunFacts, PieceFacts, JoinType, PopPushFacts, CallbackFacts
<1>2. d.cmd \in Commands
  BY DEF Datagrams
<1>3. \A v \in {Answer(d.cmd), Rejected, Error} : Settle(v) \in [Callers -> Futures]
  BY <1>2, FutureType, SettleType
<1>4. Receive(d) /\ transport' \in {"none", "open"} /\ ready' \in Seq(Callbacks)
  BY <1>1 DEF ReceiveAnswer, ReceivePartial, ReceiveReject, ReceiveInvalid, ReceiveError,
              Receive, HangUp, TypeOK
<1>5. net' \in [Datagrams -> Nat]
  <2>1. Consume(d) => net' \in [Datagrams -> Nat]
    BY <1>4 DEF Consume, Receive, TypeOK
  <2> QED
    BY <2>1, NetType
       DEF ReceiveAnswer, ReceivePartial, ReceiveReject, ReceiveInvalid, ReceiveError, HangUp
<1>6. timer' \in TimerIds \cup {None} /\ armed' \subseteq TimerIds
  <2>1. StopTimer => timer' \in TimerIds \cup {None} /\ armed' \subseteq TimerIds
    BY DEF StopTimer, TypeOK
  <2>2. ArmTimer(armed \ {timer}) => timer' \in TimerIds \cup {None} /\ armed' \subseteq TimerIds
    BY TimerType DEF TypeOK
  <2> QED
    BY <2>1, <2>2
       DEF ReceiveAnswer, ReceivePartial, ReceiveReject, ReceiveInvalid, ReceiveError,
           TypeOK, timerVars
<1>7. fut' \in [Callers -> Futures]
  BY <1>3 DEF ReceiveAnswer, ReceivePartial, ReceiveReject, ReceiveInvalid, ReceiveError, TypeOK
<1>8. retry' \in 0..MaxRetries /\ partial' \in Commands \cup {None}
  BY <1>2, ConstantsAssumption
     DEF ReceiveAnswer, ReceivePartial, ReceiveReject, ReceiveInvalid, ReceiveError,
         Unpack, TypeOK
<1> QED
  BY <1>4, <1>5, <1>6, <1>7, <1>8 DEF TypeOK, Receive, callerVars, lockVars

LEMMA TypeStepSelect ==
    ASSUME TypeOK, LockInv, Select
    PROVE  TypeOK'
<1>1. /\ Append(ready, Read) \in Seq(Callbacks)
      /\ Append(Tail(ready), Poll) \in Seq(Callbacks)
      /\ \A t \in TimerIds : Append(ready, Due(t)) \in Seq(Callbacks)
  BY PopPushFacts, AppendFacts, CallbackFacts DEF TypeOK
<1> QED
  BY <1>1 DEF TypeOK, Select, PollReadable, PollTimer, PollEnds,
              callerVars, lockVars, linkVars, exchange, timerVars

LEMMA TypeStep ==
    ASSUME TypeOK, LockInv, [Next]_vars
    PROVE  TypeOK'
<1>1. ASSUME NEW c \in Callers, NEW k \in Commands, Call(c, k) PROVE TypeOK'
  BY <1>1, TypeStepCall
<1>2. ASSUME NEW c \in Callers, Coroutine(c) PROVE TypeOK'
  BY <1>2, TypeStepAcquire, TypeStepConnect, TypeStepConnectFails, TypeStepSend,
     TypeStepSendFails, TypeStepLeave
     DEF Coroutine
<1>3. CASE RunCallback
  BY <1>3, TypeStepWake, TypeStepTimeout, TypeStepReceive DEF RunCallback
<1>4. CASE Select
  BY <1>4, TypeStepSelect
<1>5. CASE UNCHANGED vars
  BY <1>5 DEF TypeOK, vars, callerVars, lockVars, linkVars, exchange, timerVars
<1> QED
  BY <1>1, <1>2, <1>3, <1>4, <1>5 DEF Next, Loop, AllReturned

-----------------------------------------------------------------------------
(* The theorems. *)

LEMMA InitTypes == Init => TypeOK
<1> SUFFICES ASSUME Init PROVE TypeOK
  OBVIOUS
<1>1. fut \in [Callers -> Futures] /\ net \in [Datagrams -> Nat]
  BY FutureType, NetType DEF Init
<1>2. ready \in Seq(Callbacks) /\ waiters \in Seq(Callers)
  BY CallbackFacts, ShortFacts DEF Init
<1>3. 0 \in 0..MaxFrames /\ 0 \in 0..MaxCalls /\ 0 \in 0..MaxRetries
  BY ConstantsAssumption
<1>4. /\ pc \in [Callers -> PCs] /\ request \in [Callers -> Commands \cup {None}]
      /\ frames \in [Callers -> 0..MaxFrames] /\ calls \in [Callers -> 0..MaxCalls]
  BY <1>3 DEF Init, PCs
<1> QED
  BY <1>1, <1>2, <1>3, <1>4 DEF Init, TypeOK

LEMMA InitLock == Init => LockInv
<1> SUFFICES ASSUME Init PROVE LockInv
  OBVIOUS
<1>1. /\ \A x : ~Occurs(x, waiters) /\ AtMostOnce(x, waiters)
      /\ \A x : (Occurs(x, ready) <=> x = Poll) /\ AtMostOnce(x, ready)
  BY ShortFacts DEF Init
<1>2. \A c \in Callers : fut[c] # Pending /\ pc[c] = "idle"
  BY DEF Init, NoFuture, Pending
<1>3. MutualExclusion /\ FutureBelongsToWaiter
  BY <1>2 DEF MutualExclusion, FutureBelongsToWaiter, Holds, Init
<1>4. NoLostWakeup /\ WaitersWait /\ WokenIsHead /\ LoopPolls
  BY <1>1, <1>2 DEF NoLostWakeup, WaitersWait, WokenIsHead, LoopPolls, Queued, Init
<1>5. WakeOnce
  <2>1. \A c \in Callers : ~Occurs(Wake(c), ready) /\ ~Occurs(Made(c), ready)
    <3> SUFFICES ASSUME NEW c \in Callers
                 PROVE  ~Occurs(Wake(c), ready) /\ ~Occurs(Made(c), ready)
      OBVIOUS
    <3>1. Poll # Wake(c) /\ Poll # Made(c)
      BY CallbackFacts
    <3>2. /\ Occurs(Wake(c), ready) <=> Wake(c) = Poll
          /\ Occurs(Made(c), ready) <=> Made(c) = Poll
      BY <1>1, Zenon
    <3> QED
      BY <3>1, <3>2, Zenon
  <2> QED
    BY <1>1, <1>2, <2>1 DEF WakeOnce, Queued
<1> QED
  BY <1>3, <1>4, <1>5 DEF LockInv

\* TypeOK and LockInv are inductive together.
THEOREM Invariance == Spec => [](TypeOK /\ LockInv)
<1>1. Init => TypeOK /\ LockInv
  BY InitTypes, InitLock
<1>2. TypeOK /\ LockInv /\ [Next]_vars => (TypeOK /\ LockInv)'
  BY TypeStep, LockStep
<1> QED
  BY <1>1, <1>2, PTL DEF Spec

\* Every variable of the protocol keeps its type: the retry counter stays within
\* retries, the loop's queue holds only callbacks, the lock's only coroutines.
THEOREM TypeCorrect == Spec => []TypeOK
  BY Invariance, PTL

\* The lock's queue, its flag and the loop's callbacks always agree.
THEOREM LockInvariant == Spec => []LockInv
  BY Invariance, PTL

\* At most one coroutine is between acquire and release, and the lock is taken
\* exactly when one is (protocol.py:180-198).
THEOREM LockIsExclusive == Spec => []MutualExclusion
<1>1. LockInv => MutualExclusion
  BY DEF LockInv
<1> QED
  BY <1>1, LockInvariant, PTL

\* A free lock with waiters has woken the first of them.
THEOREM WakeupsArrive == Spec => []NoLostWakeup
<1>1. LockInv => NoLostWakeup
  BY DEF LockInv
<1> QED
  BY <1>1, LockInvariant, PTL

\* A pending future is self.response_future and its coroutine awaits it.
THEOREM FuturesAreAwaited == Spec => []FutureBelongsToWaiter
<1>1. LockInv => FutureBelongsToWaiter
  BY DEF LockInv
<1> QED
  BY <1>1, LockInvariant, PTL

\* No step replaces self.response_future, or resumes its coroutine, while it is
\* pending (protocol.py:184-185, 205).
THEOREM FuturesNotReplaced == Spec => FutureNeverReplaced
<1>1. ASSUME TypeOK, LockInv, [Next]_vars, InFlight
      PROVE  owner' = owner /\ pc'[owner] = "awaiting"
  <2>1. owner \in Callers /\ fut[owner] = Pending /\ pc[owner] = "awaiting"
    BY <1>1 DEF InFlight, TypeOK, LockInv, FutureBelongsToWaiter
  <2>2. ~Queued(Wake(owner))
    BY <1>1, <2>1 DEF LockInv, WakeOnce
  <2>3. \A c \in Callers : pc[c] \notin {"connect", "send", "resumed"}
    BY <1>1, <2>1 DEF LockInv, MutualExclusion, Holds
  <2>4. pc \in [Callers -> PCs]
    BY <1>1 DEF TypeOK
  <2>5. CASE \E c \in Callers, k \in Commands : Call(c, k)
    BY <2>1, <2>4, <2>5 DEF Call, exchange
  <2>6. CASE \E c \in Callers : Coroutine(c)
    BY <2>1, <2>3, <2>4, <2>6
       DEF Coroutine, AcquireFree, TakeLock, AcquireWait, Connect, ConnectFails, Send, SendFails,
           Return, Retry, Nested, TimedOut, RecursionLimit, MaxRetriesReached, GiveUp, exchange
  <2>7. CASE RunCallback
    <3>1. \A c \in Callers : Runs(Wake(c)) => c # owner
      BY <1>1, <2>2, RunFacts DEF Runs
    <3>2. CASE \E c \in Callers : WakeAcquired(c) \/ WakeAwaited(c) \/ ConnectionMade(c)
      BY <2>1, <2>4, <3>1, <3>2
         DEF WakeAcquired, WakeAwaited, ConnectionMade, exchange, callerVars
    <3>3. CASE UNCHANGED <<callerVars, owner>>
      BY <2>1, <3>3 DEF callerVars
    <3>4. RunCallback => \/ \E c \in Callers :
                                WakeAcquired(c) \/ WakeAwaited(c) \/ ConnectionMade(c)
                         \/ UNCHANGED <<callerVars, owner>>
      BY DEF RunCallback, ConnectionLost, TimerExpired, InvalidHandled, TimeoutMechanism,
             SkipCancelled, ReceiveAnswer, ReceivePartial, ReceiveReject, ReceiveInvalid,
             ReceiveError, Receive, exchange
    <3> QED
      BY <2>7, <3>2, <3>3, <3>4
  <2>8. CASE Select
    BY <2>1, <2>8 DEF Select, PollReadable, PollTimer, PollEnds, exchange, callerVars
  <2>9. CASE UNCHANGED vars
    BY <2>1, <2>9 DEF vars, exchange, callerVars
  <2> QED
    BY <1>1, <2>5, <2>6, <2>7, <2>8, <2>9 DEF Next, Loop, AllReturned
<1>2. TypeOK /\ LockInv /\ [Next]_vars
        => [InFlight => owner' = owner /\ pc'[owner] = "awaiting"]_vars
  BY <1>1
<1> QED
  BY <1>2, Invariance, PTL DEF Spec, FutureNeverReplaced

-----------------------------------------------------------------------------
(* The order of the callbacks of the socket. *)

\* Only connection_lost and connection_made open or close a socket.
LEMMA SocketCallbacks ==
    /\ Lost \in Callbacks /\ Invalid \in Callbacks /\ Read \in Callbacks /\ Poll \in Callbacks
    /\ \A c : Lost # Made(c) /\ Lost # Wake(c)
    /\ \A c, d : Wake(c) # Made(d)
    /\ \A x \in {Invalid, Read, Poll} : x # Lost /\ \A c : x # Made(c)
    /\ \A t : Due(t) # Lost /\ \A c : Due(t) # Made(c)
<1>1. {Lost, Invalid, Read, Poll} \subseteq Callbacks
  BY CallbackFacts
<1>2. /\ \A c : Made(c).do = "made" /\ Wake(c).do = "wake" /\ Due(c).do = "timer"
      /\ Lost.do = "lost" /\ Invalid.do = "invalid" /\ Read.do = "read" /\ Poll.do = "poll"
  BY DEF Callback, Wake, Made, Due, Poll, Read, Lost, Invalid
<1> QED
  BY <1>1, <1>2

\* Popping a callback keeps the order.
LEMMA InOrderTail ==
    ASSUME NEW s \in Seq(Callbacks), s # <<>>, NEW t, InOrder(s, t)
    PROVE  InOrder(Tail(s), t)
<1>1. /\ Len(s) \in Nat \ {0} /\ DOMAIN s = 1..Len(s)
      /\ DOMAIN Tail(s) = 1..(Len(s) - 1)
      /\ \A i \in 1..(Len(s) - 1) : Tail(s)[i] = s[i + 1]
  BY HeadTailProperties, LenProperties, EmptySeq
<1>2. ASSUME NEW i \in DOMAIN Tail(s), NEW j \in DOMAIN Tail(s), NEW c \in Callers,
             Tail(s)[i] = Lost, Tail(s)[j] = Made(c)
      PROVE  i < j
  <2>1. i + 1 \in DOMAIN s /\ j + 1 \in DOMAIN s /\ s[i + 1] = Lost /\ s[j + 1] = Made(c)
    BY <1>1, <1>2
  <2>2. i + 1 < j + 1
    BY <2>1 DEF InOrder
  <2>3. i \in Nat /\ j \in Nat
    BY <1>1
  <2> QED
    BY <2>2, <2>3
<1>3. \A x : Occurs(x, Tail(s)) => Occurs(x, s)
  BY TailFacts
<1> QED
  BY <1>2, <1>3 DEF InOrder

\* Once an endpoint is at the head, no connection_lost is left.
LEMMA MadeAfterLost ==
    ASSUME NEW s \in Seq(Callbacks), s # <<>>, NEW t, InOrder(s, t),
           NEW c \in Callers, Head(s) = Made(c)
    PROVE  ~Occurs(Lost, s)
<1> SUFFICES ASSUME NEW i \in DOMAIN s, s[i] = Lost PROVE FALSE
  BY DEF Occurs
<1>1. Len(s) \in Nat \ {0} /\ DOMAIN s = 1..Len(s) /\ s[1] = Made(c)
  BY HeadTailProperties, LenProperties, EmptySeq
<1>2. i < 1
  BY <1>1 DEF InOrder
<1> QED
  BY <1>1, <1>2

\* Queueing a connection_lost is safe if no endpoint is to come, a
\* connection_made always is, anything else leaves the order alone.
LEMMA InOrderPush ==
    ASSUME NEW s \in Seq(Callbacks), NEW t, InOrder(s, t), NEW x \in Callbacks,
           x = Lost => t # "open" /\ \A c \in Callers : ~Occurs(Made(c), s),
           \A c \in Callers : x = Made(c) => t # "open"
    PROVE  InOrder(s \o <<x>>, t) /\ InOrder(Append(s, x), t)
<1> DEFINE whole == s \o <<x>>
<1>1. /\ Append(s, x) = whole /\ Len(s) \in Nat /\ DOMAIN s = 1..Len(s)
      /\ DOMAIN whole = 1..(Len(s) + 1)
      /\ \A i \in 1..(Len(s) + 1) : whole[i] = IF i <= Len(s) THEN s[i] ELSE x
  BY AppendIsConcat, ConcatProperties, LenProperties
<1>2. \A y : Occurs(y, whole) <=> Occurs(y, s) \/ y = x
  BY PushFacts
<1> HIDE DEF whole
<1>3. ASSUME NEW i \in DOMAIN whole, NEW j \in DOMAIN whole, NEW c \in Callers,
             whole[i] = Lost, whole[j] = Made(c)
      PROVE  i < j
  <2>0. i \in Nat /\ j \in Nat /\ i <= Len(s) + 1 /\ j <= Len(s) + 1 /\ Lost # Made(c)
    BY <1>1, SocketCallbacks
  <2>1. CASE i <= Len(s) /\ j <= Len(s)
    <3>1. i \in DOMAIN s /\ j \in DOMAIN s /\ s[i] = Lost /\ s[j] = Made(c)
      BY <1>1, <1>3, <2>0, <2>1
    <3> QED
      BY <3>1 DEF InOrder
  <2>2. CASE i = Len(s) + 1 /\ j <= Len(s)
    <3>1. x = Lost /\ j \in DOMAIN s /\ s[j] = Made(c)
      BY <1>1, <1>3, <2>0, <2>2
    <3> QED
      BY <3>1 DEF Occurs
  <2>3. CASE i <= Len(s) /\ j = Len(s) + 1
    BY <1>1, <2>0, <2>3
  <2>4. CASE i = Len(s) + 1 /\ j = Len(s) + 1
    BY <1>1, <1>3, <2>0, <2>4
  <2> QED
    BY <1>1, <2>0, <2>1, <2>2, <2>3, <2>4
<1>4. InOrder(whole, t)
  BY <1>2, <1>3 DEF InOrder
<1> QED
  BY <1>1, <1>4 DEF whole

\* What the handlers append when they close the socket ...
LEMMA InOrderClosed ==
    ASSUME NEW s \in Seq(Callbacks), InOrder(s, transport)
    PROVE  s \o LostIfOpen \in Seq(Callbacks) /\ InOrder(s \o LostIfOpen, "none")
<1>1. InOrder(s, "none")
  BY DEF InOrder
<1>2. CASE transport = "open"
  <2>1. \A c \in Callers : ~Occurs(Made(c), s)
    BY <1>2 DEF InOrder
  <2>2. Lost \in Callbacks /\ \A c \in Callers : Lost # Made(c)
    BY SocketCallbacks
  <2> QED
    BY <1>1, <1>2, <2>1, <2>2, InOrderPush, PushFacts DEF LostIfOpen
<1>3. CASE transport # "open"
  BY <1>1, <1>3, ConcatEmptySeq DEF LostIfOpen
<1> QED
  BY <1>2, <1>3

\* ... and when they wake a coroutine.
LEMMA InOrderWoken ==
    ASSUME TypeOK, LockInv, NEW s \in Seq(Callbacks), NEW t, InOrder(s, t)
    PROVE  /\ s \o WakeOwner \in Seq(Callbacks) /\ InOrder(s \o WakeOwner, t)
           /\ s \o WakeNext \in Seq(Callbacks) /\ InOrder(s \o WakeNext, t)
<1>1. /\ s \o <<>> = s
      /\ InFlight => owner \in Callers
      /\ waiters # <<>> => Head(waiters) \in Callers
  BY PieceFacts, ConcatEmptySeq
<1>2. ASSUME NEW c \in Callers
      PROVE  s \o <<Wake(c)>> \in Seq(Callbacks) /\ InOrder(s \o <<Wake(c)>>, t)
  <2>1. Wake(c) \in Callbacks /\ Wake(c) # Lost /\ \A d \in Callers : Wake(c) # Made(d)
    BY CallbackFacts, SocketCallbacks
  <2> QED
    BY <2>1, InOrderPush, PushFacts
<1> QED
  BY <1>1, <1>2 DEF WakeOwner, WakeNext

-----------------------------------------------------------------------------
(* The three ways a step leaves the socket. *)

\* A future that is completed is not pending, nor is any other.
LEMMA SettledAll ==
    ASSUME TypeOK, LockInv, NEW v, v # Pending
    PROVE  \A c \in Callers : Settle(v)[c] # Pending
<1>1. \A c \in Callers : fut[c] = Pending => owner = c /\ InFlight
  BY ConstantsAssumption DEF LockInv, FutureBelongsToWaiter, InFlight
<1>2. fut \in [Callers -> Futures]
  BY DEF TypeOK
<1> QED
  BY <1>1, <1>2 DEF Settle

\* Nobody opens an endpoint, or has just sent, while another holds the lock.
LEMMA HolderAlone ==
    ASSUME TypeOK, LockInv, NEW c \in Callers, Holds(c)
    PROVE  \A d \in Callers : d # c =>
              /\ ~Holds(d) /\ fut[d] # Pending /\ ~Queued(Made(d))
              /\ pc[d] \notin {"connect", "connecting", "send", "awaiting", "resumed"}
  BY DEF LockInv, MutualExclusion, FutureBelongsToWaiter, WakeOnce, Holds

\* A step that leaves the socket, and whoever waits for one, alone.
LEMMA LinkKept ==
    ASSUME TypeOK, LockInv, LinkInv,
           UNCHANGED <<pc, transport>>,
           net' = net \/ \E d \in Datagrams : net[d] > 0,
           \A c \in Callers : fut'[c] = Pending => fut[c] = Pending,
           InOrder(ready', transport),
           \A c \in Callers : Queued(Made(c)) => Occurs(Made(c), ready')
    PROVE  LinkInv'
<1>1. InOrder(ready, transport)'
  BY DEF InOrder
<1>2. EndpointArrives'
  BY DEF LinkInv, EndpointArrives, Queued, NoDatagrams
<1>3. WaitsOnOpenTransport' /\ SocketIsUsed'
  BY DEF LinkInv, WaitsOnOpenTransport, SocketIsUsed
<1> QED
  BY <1>1, <1>2, <1>3 DEF LinkInv

\* A step that closes the socket, used by nobody who waits for an answer.
LEMMA LinkClosed ==
    ASSUME HangUp, InOrder(ready', "none"),
           \A c \in Callers : pc'[c] # "send" /\ fut'[c] # Pending,
           \A c \in Callers : pc'[c] = "connecting" => Occurs(Made(c), ready')
    PROVE  LinkInv'
  BY DEF HangUp, LinkInv, InOrder, EndpointArrives, WaitsOnOpenTransport, SocketIsUsed, Queued

\* A step of a coroutine that has not asked for the socket yet.
LEMMA LinkAhead ==
    ASSUME TypeOK, LockInv, LinkInv, UNCHANGED <<transport, net, fut>>,
           NEW c \in Callers, pc[c] \in {"idle", "acquire", "waiting"},
           NEW p \in {"acquire", "waiting", "connect"}, pc' = [pc EXCEPT ![c] = p],
           InOrder(ready', transport),
           \A d \in Callers : Queued(Made(d)) => Occurs(Made(d), ready')
    PROVE  LinkInv'
<1>1. InOrder(ready, transport)'
  BY DEF InOrder
<1>2. /\ pc'[c] = p
      /\ \A d \in Callers : d # c => pc'[d] = pc[d]
  BY DEF TypeOK
<1>3. EndpointArrives' /\ WaitsOnOpenTransport' /\ SocketIsUsed'
  BY <1>2 DEF LinkInv, EndpointArrives, WaitsOnOpenTransport, SocketIsUsed, Queued
<1> QED
  BY <1>1, <1>3 DEF LinkInv

-----------------------------------------------------------------------------
(* Every step preserves the invariant of the socket. *)

LEMMA LinkStepConnect ==
    ASSUME TypeOK, LockInv, LinkInv, NEW c \in Callers, Connect(c)
    PROVE  LinkInv'
<1>1. /\ ready \in Seq(Callbacks) /\ Made(c) \in Callbacks
      /\ \A d \in Callers : d # c => pc'[d] = pc[d] /\ pc[d] \notin {"connecting", "send", "awaiting"}
      /\ UNCHANGED <<transport, net, fut>> /\ \A d \in Callers : fut[d] # Pending
  BY HolderAlone, CallbackFacts
     DEF Connect, Holds, TypeOK, linkVars, exchange, LockInv, FutureBelongsToWaiter
<1>2. CASE transport = "open"
  <2>1. ready' = ready /\ pc'[c] = "send"
    BY <1>2 DEF Connect, TypeOK
  <2> QED
    BY <1>1, <1>2, <2>1
       DEF LinkInv, InOrder, EndpointArrives, WaitsOnOpenTransport, SocketIsUsed
<1>3. CASE transport # "open"
  <2>1. ready' = Append(ready, Made(c)) /\ pc'[c] = "connecting"
    BY <1>3 DEF Connect, TypeOK
  <2>2. InOrder(ready', transport) /\ Occurs(Made(c), ready')
    BY <1>1, <1>3, <2>1, InOrderPush, AppendFacts, SocketCallbacks DEF LinkInv
  <2> QED
    BY <1>1, <1>3, <2>1, <2>2
       DEF LinkInv, InOrder, EndpointArrives, WaitsOnOpenTransport, SocketIsUsed, Queued
<1> QED
  BY <1>2, <1>3

LEMMA LinkStepConnectFails ==
    ASSUME TypeOK, LockInv, LinkInv, NEW c \in Callers, ConnectFails(c)
    PROVE  LinkInv'
<1>1. /\ pc'[c] = "resumed" /\ fut'[c] # Pending
      /\ \A d \in Callers : d # c => pc'[d] = pc[d] /\ fut'[d] = fut[d]
                                 /\ pc[d] \notin {"connecting", "send", "awaiting"}
      /\ UNCHANGED <<transport, net, ready>> /\ transport # "open"
  BY HolderAlone DEF ConnectFails, Holds, TypeOK, linkVars, Error, Pending
<1>2. EndpointArrives' /\ WaitsOnOpenTransport' /\ SocketIsUsed'
  BY <1>1 DEF EndpointArrives, WaitsOnOpenTransport, SocketIsUsed
<1> QED
  BY <1>1, <1>2 DEF LinkInv, InOrder

LEMMA LinkStepSend ==
    ASSUME TypeOK, LockInv, LinkInv, NEW c \in Callers,
           SendFails(c) \/ \E r \in Reactions : Send(c, r)
    PROVE  LinkInv'
<1>1. pc[c] = "send" /\ transport = "open" /\ ready \in Seq(Callbacks) /\ InOrder(ready, transport)
  BY DEF Send, SendFails, LinkInv, WaitsOnOpenTransport, TypeOK
<1>2. \A d \in Callers : d # c =>
         pc'[d] = pc[d] /\ fut'[d] = fut[d] /\ fut[d] # Pending
         /\ pc[d] \notin {"connecting", "send", "awaiting"}
  BY <1>1, HolderAlone DEF Send, SendFails, TypeOK, Holds
<1>3. CASE SendFails(c)
  <2>1. pc'[c] = "resumed" /\ fut'[c] # Pending /\ HangUp
    BY <1>3 DEF SendFails, TypeOK, Error, Pending
  <2>2. InOrder(ready', "none")
    BY <1>1, <1>3, InOrderClosed DEF SendFails
  <2> QED
    BY <1>2, <2>1, <2>2, LinkClosed
<1>4. CASE \E r \in Reactions : Send(c, r)
  <2>1. pc'[c] = "awaiting" /\ UNCHANGED <<transport, ready>>
    BY <1>4 DEF Send, TypeOK
  <2>2. EndpointArrives' /\ WaitsOnOpenTransport' /\ SocketIsUsed'
    BY <1>1, <1>2, <2>1 DEF EndpointArrives, WaitsOnOpenTransport, SocketIsUsed
  <2> QED
    BY <1>1, <2>1, <2>2 DEF LinkInv, InOrder
<1> QED
  BY <1>3, <1>4

LEMMA LinkStepLeave ==
    ASSUME TypeOK, LockInv, LinkInv, NEW c \in Callers,
           Return(c) \/ Retry(c) \/ RecursionLimit(c) \/ MaxRetriesReached(c)
    PROVE  LinkInv'
<1>1. /\ pc[c] = "resumed" /\ pc'[c] \in {"idle", "acquire"}
      /\ \A d \in Callers : d # c => pc'[d] = pc[d] /\ pc[d] \notin {"connecting", "send"}
  <2>1. /\ pc[c] = "resumed"
        /\ pc' \in {[pc EXCEPT ![c] = "idle"], [pc EXCEPT ![c] = "acquire"]}
    BY DEF Return, Retry, Nested, TimedOut, RecursionLimit, MaxRetriesReached, GiveUp
  <2> QED
    BY <2>1, HolderAlone DEF Holds, TypeOK
<1>2. ready \in Seq(Callbacks) /\ InOrder(ready, transport)
  BY DEF TypeOK, LinkInv
<1>3. /\ \A d \in Callers : fut[d] # Pending
      /\ Settle(Cancelled) = fut
  BY <1>1, ResumedAlone DEF Settle
<1>4. CASE MaxRetriesReached(c)
  <2>1. InOrder(ready', "none")
    BY <1>2, <1>4, InOrderClosed, InOrderWoken DEF MaxRetriesReached
  <2>2. HangUp /\ \A d \in Callers : fut'[d] # Pending
    BY <1>3, <1>4 DEF MaxRetriesReached, GiveUp, TimedOut, TypeOK, Exhausted, Pending
  <2> QED
    BY <1>1, <2>1, <2>2, LinkClosed
<1>5. CASE ReleaseAndDrop /\ ~KeepAlive
  <2>1. InOrder(ready \o WakeNext \o LostIfOpen \o WakeOwner, "none")
    BY <1>2, InOrderClosed, InOrderWoken
  <2>2. HangUp /\ InOrder(ready', "none") /\ \A d \in Callers : fut'[d] # Pending
    BY <1>3, <1>5, <2>1 DEF ReleaseAndDrop
  <2> QED
    BY <1>1, <2>2, LinkClosed
<1>6. CASE ReleaseAndDrop /\ KeepAlive
  <2>1. InOrder(ready \o WakeNext, transport)
    BY <1>2, InOrderWoken
  <2>2. UNCHANGED <<transport, net, fut>> /\ ready' = ready \o WakeNext
    BY <1>6 DEF ReleaseAndDrop, linkVars
  <2>3. EndpointArrives' /\ WaitsOnOpenTransport' /\ SocketIsUsed'
    BY <1>1, <1>3, <1>6, <2>2 DEF EndpointArrives, WaitsOnOpenTransport, SocketIsUsed
  <2> QED
    BY <2>1, <2>2, <2>3 DEF LinkInv, InOrder
<1> QED
  BY <1>4, <1>5, <1>6 DEF Return, Retry, Nested, RecursionLimit

LEMMA LinkStepWake ==
    ASSUME TypeOK, LockInv, LinkInv, NEW c \in Callers, WakeAcquired(c) \/ WakeAwaited(c)
    PROVE  LinkInv'
<1>1. /\ Head(ready) = Wake(c) /\ ready' = Tail(ready)
      /\ UNCHANGED <<transport, net, fut>>
  BY DEF WakeAcquired, WakeAwaited, Runs, linkVars, exchange
<1>2. InOrder(ready', transport)
  BY <1>1, RunFacts, InOrderTail DEF LinkInv, TypeOK
<1>3. /\ Queued(Wake(c))
      /\ \A d \in Callers : Queued(Made(d)) => Occurs(Made(d), ready')
  <2>1. Queued(Wake(c)) /\ \A x : x # Wake(c) /\ Queued(x) => Occurs(x, ready')
    BY <1>1, RunFacts
  <2> QED
    BY <2>1, SocketCallbacks
<1>4. CASE WakeAcquired(c)
  BY <1>1, <1>2, <1>3, <1>4, LinkAhead DEF WakeAcquired
<1>5. CASE WakeAwaited(c)
  <2>1. \A d \in Callers : d # c => pc'[d] = pc[d]
    BY <1>5 DEF WakeAwaited, TypeOK
  <2>2. ~Queued(Made(c)) /\ fut[c] # Pending
    BY <1>3 DEF LockInv, WakeOnce
  <2>3. \/ pc[c] = "connecting" /\ pc'[c] = "send" /\ transport = "open"
        \/ pc[c] = "awaiting" /\ pc'[c] = "resumed"
    BY <1>5, <2>2 DEF WakeAwaited, TypeOK, LinkInv, EndpointArrives
  <2>4. EndpointArrives' /\ WaitsOnOpenTransport' /\ SocketIsUsed'
    BY <1>1, <1>3, <2>1, <2>2, <2>3
       DEF LinkInv, EndpointArrives, WaitsOnOpenTransport, SocketIsUsed, Queued
  <2> QED
    BY <1>1, <1>2, <2>4 DEF LinkInv, InOrder
<1> QED
  BY <1>4, <1>5

LEMMA LinkStepConnectionMade ==
    ASSUME TypeOK, LockInv, LinkInv, NEW c \in Callers, ConnectionMade(c)
    PROVE  LinkInv'
<1>1. /\ Head(ready) = Made(c) /\ ready' = Append(Tail(ready), Wake(c))
      /\ transport' = "open" /\ net' = NoDatagrams /\ UNCHANGED <<pc, fut>>
  BY DEF ConnectionMade, Runs, callerVars, exchange
<1>2. pc[c] = "connecting" /\ Queued(Made(c))
  BY <1>1, RunFacts DEF LockInv, WakeOnce
<1>3. ~Occurs(Lost, Tail(ready)) /\ \A d \in Callers : ~Occurs(Made(d), Tail(ready))
  <2>1. ~Occurs(Lost, ready)
    BY <1>1, RunFacts, MadeAfterLost DEF TypeOK, LinkInv
  <2>2. \A d \in Callers : Queued(Made(d)) => d = c
    BY <1>2, HolderAlone DEF Holds
  <2>3. ~Occurs(Made(c), Tail(ready))
    <3>1. AtMostOnce(Made(c), ready)
      BY DEF LockInv, WakeOnce
    <3> QED
      BY <1>1, <3>1, RunFacts
  <2>4. \A x : Occurs(x, Tail(ready)) => Occurs(x, ready)
    BY RunFacts DEF Queued
  <2> QED
    BY <2>1, <2>2, <2>3, <2>4 DEF Queued
<1>4. ~Occurs(Lost, ready') /\ \A d \in Callers : ~Occurs(Made(d), ready')
  <2>1. \A y : Occurs(y, ready') <=> Occurs(y, Tail(ready)) \/ y = Wake(c)
    BY <1>1, PopPushFacts, CallbackFacts
  <2> QED
    BY <1>3, <2>1, SocketCallbacks
<1>5. InOrder(ready, transport)'
  BY <1>1, <1>4 DEF InOrder, Occurs
<1>6. EndpointArrives' /\ WaitsOnOpenTransport' /\ SocketIsUsed'
  BY <1>1, <1>2 DEF EndpointArrives, WaitsOnOpenTransport, SocketIsUsed
<1> QED
  BY <1>5, <1>6 DEF LinkInv

LEMMA LinkStepReceive ==
    ASSUME TypeOK, LockInv, LinkInv, NEW d \in Datagrams,
           \/ ReceiveAnswer(d) \/ ReceivePartial(d) \/ ReceiveReject(d)
           \/ ReceiveInvalid(d) \/ ReceiveError(d)
    PROVE  LinkInv'
<1>1. /\ Quiet /\ Head(ready) = Read /\ pc' = pc /\ transport = "open" /\ net[d] > 0
  BY DEF ReceiveAnswer, ReceivePartial, ReceiveReject, ReceiveInvalid, ReceiveError,
         Receive, Runs, callerVars
<1>2. Tail(ready) \in Seq(Callbacks) /\ InOrder(Tail(ready), transport)
  BY RunFacts, InOrderTail DEF TypeOK, LinkInv
<1>3. \A c \in Callers : ~Queued(Made(c)) /\ pc[c] \notin {"connecting", "send"}
  <2>1. \A c \in Callers : ~Queued(Made(c))
    BY <1>1 DEF LinkInv, InOrder, Queued
  <2>2. net # NoDatagrams
    BY <1>1 DEF NoDatagrams
  <2> QED
    BY <1>1, <2>1, <2>2 DEF LinkInv, EndpointArrives, Quiet, Synchronous
<1>4. CASE ReceiveAnswer(d)
  <2>1. InOrder(ready', transport) /\ transport' = transport
    BY <1>2, <1>4, InOrderWoken DEF ReceiveAnswer
  <2>2. \A c \in Callers : fut'[c] # Pending
    BY <1>4, SettledAll DEF ReceiveAnswer, Answer, Pending
  <2> QED
    BY <1>1, <1>3, <2>1, <2>2, LinkKept
<1>5. CASE ReceivePartial(d)
  BY <1>1, <1>2, <1>3, <1>5, LinkKept DEF ReceivePartial
<1>6. CASE ReceiveReject(d)
  <2>1. InOrder(ready', "none")
    BY <1>2, <1>6, InOrderWoken, InOrderClosed DEF ReceiveReject
  <2>2. \A c \in Callers : fut'[c] # Pending
    BY <1>6, SettledAll DEF ReceiveReject, Rejected, Pending
  <2> QED
    BY <1>1, <1>3, <1>6, <2>1, <2>2, LinkClosed DEF ReceiveReject
<1>7. CASE ReceiveInvalid(d)
  <2>1. InOrder(ready', transport)
    BY <1>2, <1>7, InOrderPush, SocketCallbacks DEF ReceiveInvalid
  <2> QED
    BY <1>1, <1>3, <1>7, <2>1, LinkKept DEF ReceiveInvalid
<1>8. CASE ReceiveError(d) /\ InFlight
  <2>1. InOrder(ready', "none")
    BY <1>2, <1>8, InOrderWoken, InOrderClosed DEF ReceiveError
  <2>2. \A c \in Callers : fut'[c] # Pending
    BY <1>8, SettledAll DEF ReceiveError, Error, Pending
  <2> QED
    BY <1>1, <1>3, <1>8, <2>1, <2>2, LinkClosed DEF ReceiveError
<1>9. CASE ReceiveError(d) /\ ~InFlight
  BY <1>1, <1>2, <1>3, <1>9, LinkKept DEF ReceiveError
<1> QED
  BY <1>4, <1>5, <1>6, <1>7, <1>8, <1>9

\* A late connection_lost finds nobody's socket and nobody's future.
LEMMA LostFindsNothing ==
    ASSUME TypeOK, LockInv, LinkInv, ConnectionLost
    PROVE  transport' = transport /\ fut' = fut
<1>1. transport = "none" /\ transport' = "none"
  BY RunFacts DEF ConnectionLost, Runs, HangUp, LinkInv, InOrder, Queued, TypeOK
<1>2. ~InFlight
  BY <1>1, PieceFacts
     DEF LinkInv, WaitsOnOpenTransport, LockInv, FutureBelongsToWaiter, InFlight
<1> QED
  BY <1>1, <1>2 DEF ConnectionLost, Settle

LEMMA LinkStepCallback ==
    ASSUME TypeOK, LockInv, LinkInv, RunCallback
    PROVE  LinkInv'
<1>0. /\ Tail(ready) \in Seq(Callbacks) /\ InOrder(Tail(ready), transport)
      /\ \A x : x # Head(ready) /\ Queued(x) => Occurs(x, Tail(ready))
  BY RunFacts, InOrderTail DEF TypeOK, LinkInv
<1>1. ASSUME NEW c \in Callers, WakeAcquired(c) \/ WakeAwaited(c) \/ ConnectionMade(c)
      PROVE  LinkInv'
  BY <1>1, LinkStepWake, LinkStepConnectionMade
<1>2. CASE ConnectionLost
  <2>1. /\ Head(ready) = Lost /\ Quiet /\ pc' = pc /\ HangUp
        /\ ready' = Tail(ready) \o LostIfOpen \o WakeOwner
    BY <1>2 DEF ConnectionLost, Runs, callerVars
  <2>2. InOrder(ready', "none") /\ transport = "none"
    BY <1>0, <1>2, <2>1, LostFindsNothing, InOrderClosed, InOrderWoken DEF HangUp
  <2>3. /\ LostIfOpen = <<>> /\ \A x : Occurs(x, Tail(ready)) => Occurs(x, ready')
    BY <1>0, <2>1, <2>2, PieceFacts, ConcatFacts, ConcatEmptySeq DEF LostIfOpen
  <2>4. \A c \in Callers : pc[c] = "connecting" => Occurs(Made(c), ready')
    BY <1>0, <2>1, <2>2, <2>3, SocketCallbacks DEF LinkInv, EndpointArrives
  <2>5. \A c \in Callers : fut'[c] # Pending
    BY <1>2, SettledAll DEF ConnectionLost, Cancelled, Pending
  <2> QED
    BY <2>1, <2>2, <2>4, <2>5, LinkClosed DEF Quiet, Synchronous
<1>3. ASSUME TimeoutMechanism, NEW x, x = Head(ready), \A c \in Callers : x # Made(c)
      PROVE  LinkInv'
  <2>1. InOrder(ready', transport)
    BY <1>0, <1>3, InOrderWoken DEF TimeoutMechanism
  <2>2. \A c \in Callers : fut'[c] # Pending
    BY <1>3, SettledAll DEF TimeoutMechanism, Cancelled, Pending
  <2>3. \A y : Occurs(y, Tail(ready)) => Occurs(y, ready')
    BY <1>0, <1>3, PieceFacts, ConcatFacts DEF TimeoutMechanism
  <2> QED
    BY <1>0, <1>3, <2>1, <2>2, <2>3, LinkKept DEF TimeoutMechanism, callerVars, linkVars
<1>4. ASSUME NEW t \in TimerIds, TimerExpired(t) PROVE LinkInv'
  BY <1>3, <1>4, SocketCallbacks DEF TimerExpired, Runs
<1>5. CASE InvalidHandled
  BY <1>3, <1>5, SocketCallbacks DEF InvalidHandled, Runs
<1>6. CASE SkipCancelled
  <2>1. /\ \A c \in Callers : Head(ready) # Made(c)
        /\ ready' = Tail(ready) /\ UNCHANGED <<pc, transport, net, fut>>
    BY <1>6, SocketCallbacks DEF SkipCancelled, Runs, callerVars, linkVars, exchange
  <2> QED
    BY <1>0, <2>1, LinkKept
<1> QED
  BY <1>1, <1>2, <1>4, <1>5, <1>6, LinkStepReceive DEF RunCallback

LEMMA LinkStepSelect ==
    ASSUME TypeOK, LockInv, LinkInv, Select
    PROVE  LinkInv'
<1>0. /\ ready \in Seq(Callbacks) /\ InOrder(ready, transport)
      /\ Tail(ready) \in Seq(Callbacks) /\ InOrder(Tail(ready), transport)
      /\ \A x : x # Head(ready) /\ Queued(x) => Occurs(x, Tail(ready))
  BY RunFacts, InOrderTail DEF TypeOK, LinkInv
<1>1. UNCHANGED <<pc, transport, net, fut>>
  BY DEF Select, PollReadable, PollTimer, PollEnds, callerVars, linkVars, exchange
<1>2. ASSUME NEW x \in Callbacks, x # Lost, \A c : x # Made(c), ready' = Append(ready, x)
      PROVE  LinkInv'
  <2>1. InOrder(Append(ready, x), transport)
    BY <1>0, <1>2, InOrderPush
  <2>2. \A y : Occurs(y, Append(ready, x)) <=> Occurs(y, ready) \/ y = x
    BY <1>0, <1>2, AppendFacts
  <2> QED
    BY <1>1, <1>2, <2>1, <2>2, LinkKept DEF Queued
<1>3. CASE PollReadable
  BY <1>2, <1>3, SocketCallbacks DEF PollReadable
<1>4. ASSUME NEW t \in TimerIds, PollTimer(t) PROVE LinkInv'
  BY <1>2, <1>4, SocketCallbacks, CallbackFacts DEF PollTimer
<1>5. CASE PollEnds
  <2>1. Head(ready) = Poll /\ ready' = Append(Tail(ready), Poll)
    BY <1>5 DEF PollEnds, Polls
  <2>2. InOrder(ready', transport)
    BY <1>0, <2>1, InOrderPush, SocketCallbacks
  <2>3. \A y : Occurs(y, Tail(ready)) => Occurs(y, ready')
    BY <1>0, <2>1, AppendFacts, SocketCallbacks
  <2> QED
    BY <1>0, <1>1, <2>1, <2>2, <2>3, SocketCallbacks, LinkKept
<1> QED
  BY <1>3, <1>4, <1>5 DEF Select

LEMMA LinkStep ==
    ASSUME TypeOK, LockInv, LinkInv, [Next]_vars
    PROVE  LinkInv'
<1>1. ASSUME NEW c \in Callers, NEW k \in Commands, Call(c, k) PROVE LinkInv'
  BY <1>1, LinkAhead DEF Call, linkVars, exchange, LinkInv, Queued
<1>2. ASSUME NEW c \in Callers, AcquireFree(c) \/ AcquireWait(c) PROVE LinkInv'
  BY <1>2, LinkAhead DEF AcquireFree, TakeLock, AcquireWait, linkVars, exchange, LinkInv, Queued
<1>3. ASSUME NEW c \in Callers, Coroutine(c) PROVE LinkInv'
  BY <1>2, <1>3, LinkStepConnect, LinkStepConnectFails, LinkStepSend, LinkStepLeave DEF Coroutine
<1>4. CASE RunCallback
  BY <1>4, LinkStepCallback
<1>5. CASE Select
  BY <1>5, LinkStepSelect
<1>6. CASE UNCHANGED vars
  BY <1>6, LinkKept DEF vars, callerVars, linkVars, exchange, LinkInv, Queued
<1> QED
  BY <1>1, <1>3, <1>4, <1>5, <1>6 DEF Next, Loop, AllReturned

LEMMA InitLink == Init => LinkInv
<1> SUFFICES ASSUME Init PROVE LinkInv
  OBVIOUS
<1>1. \A x : Occurs(x, ready) <=> x = Poll
  BY ShortFacts DEF Init
<1>2. InOrder(ready, transport)
  BY <1>1, SocketCallbacks DEF InOrder, Occurs, Init
<1>3. \A c \in Callers : pc[c] = "idle"
  BY DEF Init
<1> QED
  BY <1>2, <1>3 DEF LinkInv, EndpointArrives, WaitsOnOpenTransport, SocketIsUsed, Init

-----------------------------------------------------------------------------
(* Something ends every wait. *)

\* A step that completes nothing and forgets no callback but a timer's.
LEMMA WaitsOn ==
    ASSUME LockInv, AnswerComes, UNCHANGED <<pc, fut>>,
           armed' = {} => armed = {} \/ \A c \in Callers : fut[c] # Pending,
           \A c \in Callers : Queued(Wake(c)) => Occurs(Wake(c), ready'),
           Queued(Invalid) => Occurs(Invalid, ready')
    PROVE  AnswerComes'
  BY DEF AnswerComes, Queued

\* A step that completes the future in flight, if any, and wakes its owner.
LEMMA WaitEnds ==
    ASSUME TypeOK, LockInv, AnswerComes, pc' = pc,
           NEW v, v # Pending, fut' = Settle(v),
           \A c \in Callers : Queued(Wake(c)) => Occurs(Wake(c), ready'),
           InFlight => Occurs(Wake(owner), ready')
    PROVE  AnswerComes'
<1>1. \A c \in Callers : fut'[c] # Pending
  BY SettledAll
<1>2. \A c \in Callers : fut[c] = Pending => InFlight /\ c = owner
  BY ConstantsAssumption DEF LockInv, FutureBelongsToWaiter, InFlight
<1> QED
  BY <1>1, <1>2 DEF AnswerComes, Queued

\* A handler forgets no callback but its own, and wakes the owner it completes.
LEMMA HandlerQueues ==
    ASSUME TypeOK, LockInv,
           ready' \in {Tail(ready) \o WakeOwner, Tail(ready) \o WakeOwner \o LostIfOpen,
                      Tail(ready) \o LostIfOpen \o WakeOwner}
    PROVE  \A x : Occurs(x, Tail(ready)) \/ (InFlight /\ x = Wake(owner)) => Occurs(x, ready')
<1> DEFINE rest == Tail(ready)
<1>1. /\ rest \in Seq(Callbacks) /\ WakeOwner \in Seq(Callbacks) /\ LostIfOpen \in Seq(Callbacks)
      /\ \A x : InFlight /\ x = Wake(owner) => Occurs(x, WakeOwner)
  BY RunFacts, PieceFacts
<1> HIDE DEF rest
<1>2. /\ rest \o WakeOwner \in Seq(Callbacks) /\ rest \o LostIfOpen \in Seq(Callbacks)
      /\ \A x : Occurs(x, rest \o WakeOwner) <=> Occurs(x, rest) \/ Occurs(x, WakeOwner)
      /\ \A x : Occurs(x, rest \o LostIfOpen) <=> Occurs(x, rest) \/ Occurs(x, LostIfOpen)
  BY <1>1, ConcatFacts
<1>3. \A x : Occurs(x, rest \o WakeOwner \o LostIfOpen) <=>
                Occurs(x, rest \o WakeOwner) \/ Occurs(x, LostIfOpen)
  BY <1>1, <1>2, ConcatFacts
<1>4. \A x : Occurs(x, rest \o LostIfOpen \o WakeOwner) <=>
                Occurs(x, rest \o LostIfOpen) \/ Occurs(x, WakeOwner)
  BY <1>1, <1>2, ConcatFacts
<1>5. \/ ready' = rest \o WakeOwner \/ ready' = rest \o WakeOwner \o LostIfOpen
      \/ ready' = rest \o LostIfOpen \o WakeOwner
  BY DEF rest
<1>6. \A x : Occurs(x, rest) \/ Occurs(x, WakeOwner) => Occurs(x, ready')
  BY <1>2, <1>3, <1>4, <1>5
<1> QED
  BY <1>1, <1>6 DEF rest

LEMMA HangsStepReceive ==
    ASSUME TypeOK, LockInv, AnswerComes, NEW d \in Datagrams,
           \/ ReceiveAnswer(d) \/ ReceivePartial(d) \/ ReceiveReject(d)
           \/ ReceiveInvalid(d) \/ ReceiveError(d)
    PROVE  AnswerComes'
<1>0. /\ Head(ready) = Read /\ pc' = pc
      /\ Tail(ready) \in Seq(Callbacks)
      /\ \A x : x # Head(ready) /\ Queued(x) => Occurs(x, Tail(ready))
  BY RunFacts DEF ReceiveAnswer, ReceivePartial, ReceiveReject, ReceiveInvalid, ReceiveError,
                  Receive, Runs, callerVars
<1>1. /\ \A c \in Callers : Queued(Wake(c)) => Occurs(Wake(c), Tail(ready))
      /\ Queued(Invalid) => Occurs(Invalid, Tail(ready))
  BY <1>0, CallbackFacts DEF Read, Invalid, Wake, Callback
<1>2. ASSUME NEW v, v # Pending, fut' = Settle(v),
             ready' \in {Tail(ready) \o WakeOwner, Tail(ready) \o WakeOwner \o LostIfOpen}
      PROVE  AnswerComes'
  <2>1. \A x : Occurs(x, Tail(ready)) \/ (InFlight /\ x = Wake(owner)) => Occurs(x, ready')
    BY <1>2, HandlerQueues
  <2> QED
    BY <1>0, <1>1, <1>2, <2>1, WaitEnds
<1>3. CASE ReceiveAnswer(d)
  BY <1>2, <1>3 DEF ReceiveAnswer, Answer, Pending
<1>4. CASE ReceivePartial(d)
  BY <1>0, <1>1, <1>4, WaitsOn DEF ReceivePartial, ArmTimer
<1>5. CASE ReceiveReject(d)
  BY <1>2, <1>5 DEF ReceiveReject, Rejected, Pending
<1>6. CASE ReceiveInvalid(d)
  <2>1. \A x : Occurs(x, ready') <=> Occurs(x, Tail(ready)) \/ x = Invalid
    BY <1>0, <1>6, PopPushFacts, SocketCallbacks DEF ReceiveInvalid
  <2>2. fut' = fut
    BY <1>6 DEF ReceiveInvalid
  <2> QED
    BY <1>0, <1>1, <2>1, <2>2 DEF AnswerComes, Queued
<1>7. CASE ReceiveError(d)
  <2>1. CASE InFlight
    BY <1>2, <1>7, <2>1 DEF ReceiveError, Error, Pending
  <2>2. CASE ~InFlight
    BY <1>0, <1>1, <1>7, <2>2, WaitsOn DEF ReceiveError, timerVars
  <2> QED
    BY <2>1, <2>2
<1> QED
  BY <1>3, <1>4, <1>5, <1>6, <1>7

LEMMA HangsStepCallback ==
    ASSUME TypeOK, LockInv, AnswerComes, RunCallback
    PROVE  AnswerComes'
<1>0. /\ Tail(ready) \in Seq(Callbacks)
      /\ \A x : x # Head(ready) /\ Queued(x) => Occurs(x, Tail(ready))
  BY RunFacts
<1>1. ASSUME NEW c \in Callers, WakeAcquired(c) \/ WakeAwaited(c) \/ ConnectionMade(c)
      PROVE  AnswerComes'
  <2>1. Head(ready) = Wake(c) \/ Head(ready) = Made(c)
    BY <1>1 DEF WakeAcquired, WakeAwaited, ConnectionMade, Runs
  <2>2. \/ Queued(Wake(c)) /\ pc[c] = "waiting" /\ ~locked
        \/ pc[c] \in {"connecting", "awaiting"}
    BY <1>1, <2>1, RunFacts
       DEF WakeAcquired, WakeAwaited, ConnectionMade, LockInv, WakeOnce, WokenIsHead, Runs
  <2>3. \A d \in Callers : d # c => pc[d] # "awaiting"
    BY <2>2, HolderAlone DEF LockInv, MutualExclusion, Holds
  <2>4. /\ \A d \in Callers : d # c => pc'[d] = pc[d]
        /\ pc'[c] # "awaiting"
    <3>1. CASE WakeAcquired(c) \/ WakeAwaited(c)
      BY <3>1 DEF WakeAcquired, WakeAwaited, TypeOK
    <3>2. CASE ConnectionMade(c)
      BY <3>2, RunFacts DEF ConnectionMade, Runs, callerVars, LockInv, WakeOnce
    <3> QED
      BY <1>1, <3>1, <3>2
  <2> QED
    BY <2>3, <2>4 DEF AnswerComes
<1>2. ASSUME \A c \in Callers : Head(ready) # Wake(c), pc' = pc, fut' = Settle(Cancelled),
             ready' \in {Tail(ready) \o WakeOwner, Tail(ready) \o LostIfOpen \o WakeOwner}
      PROVE  AnswerComes'
  <2>1. \A x : Occurs(x, Tail(ready)) \/ (InFlight /\ x = Wake(owner)) => Occurs(x, ready')
    BY <1>2, HandlerQueues
  <2>2. Cancelled # Pending
    BY DEF Cancelled, Pending
  <2> QED
    BY <1>0, <1>2, <2>1, <2>2, WaitEnds
<1>3. \A c : Lost # Wake(c) /\ Invalid # Wake(c) /\ Read # Wake(c) /\ \A t : Due(t) # Wake(c)
  BY DEF Lost, Invalid, Read, Wake, Due, Callback
<1>4. CASE ConnectionLost
  BY <1>2, <1>3, <1>4 DEF ConnectionLost, Runs, callerVars
<1>5. ASSUME NEW t \in TimerIds, TimerExpired(t) PROVE AnswerComes'
  BY <1>2, <1>3, <1>5 DEF TimerExpired, TimeoutMechanism, Runs, callerVars
<1>6. CASE InvalidHandled
  BY <1>2, <1>3, <1>6 DEF InvalidHandled, TimeoutMechanism, Runs, callerVars
<1>7. CASE SkipCancelled
  <2>1. /\ \A c \in Callers : Head(ready) # Wake(c)
        /\ Head(ready) # Invalid
        /\ ready' = Tail(ready) /\ UNCHANGED <<pc, fut, armed>>
    BY <1>3, <1>7
       DEF SkipCancelled, Runs, callerVars, exchange, timerVars, Read, Due, Invalid, Callback
  <2> QED
    BY <1>0, <2>1, WaitsOn
<1> QED
  BY <1>1, <1>4, <1>5, <1>6, <1>7, HangsStepReceive DEF RunCallback

LEMMA HangsStepCoroutine ==
    ASSUME TypeOK, LockInv, AnswerComes, NEW c \in Callers, Coroutine(c)
    PROVE  AnswerComes'
<1>1. CASE AcquireFree(c) \/ AcquireWait(c)
  BY <1>1 DEF AcquireFree, TakeLock, AcquireWait, exchange, timerVars, AnswerComes, Queued, TypeOK
<1>2. CASE \E r \in Reactions : Send(c, r)
  <2>1. /\ pc[c] = "send" /\ fut'[c] = Pending /\ armed' # {}
        /\ \A d \in Callers : d # c => pc'[d] = pc[d]
    BY <1>2 DEF Send, ArmTimer, TypeOK
  <2> QED
    BY <2>1, HolderAlone DEF AnswerComes, Holds
<1>3. CASE \/ Connect(c) \/ ConnectFails(c) \/ SendFails(c)
           \/ Return(c) \/ Retry(c) \/ RecursionLimit(c) \/ MaxRetriesReached(c)
  <2>1. /\ pc[c] \in {"connect", "send", "resumed"} /\ pc'[c] # "awaiting"
        /\ \A d \in Callers : d # c => pc'[d] = pc[d]
    BY <1>3 DEF Connect, ConnectFails, SendFails, Return, Retry, Nested, TimedOut,
                RecursionLimit, MaxRetriesReached, GiveUp, TypeOK
  <2> QED
    BY <2>1, HolderAlone DEF AnswerComes, Holds
<1> QED
  BY <1>1, <1>2, <1>3 DEF Coroutine

LEMMA HangsStep ==
    ASSUME TypeOK, LockInv, AnswerComes, [Next]_vars
    PROVE  AnswerComes'
<1>1. ASSUME NEW c \in Callers, NEW k \in Commands, Call(c, k) PROVE AnswerComes'
  BY <1>1 DEF Call, exchange, timerVars, AnswerComes, Queued, TypeOK
<1>2. CASE Select
  <2>1. UNCHANGED <<pc, fut, armed>>
    BY <1>2 DEF Select, PollReadable, PollTimer, PollEnds, callerVars, exchange, timerVars
  <2>2. ASSUME NEW x \in Callbacks, ready' = Append(ready, x)
        PROVE  \A y : Queued(y) => Occurs(y, ready')
    BY <2>2, AppendFacts DEF TypeOK, Queued
  <2>3. CASE PollEnds
    <3>1. Head(ready) = Poll /\ ready' = Append(Tail(ready), Poll)
      BY <2>3 DEF PollEnds, Polls
    <3>2. \A y : Occurs(y, ready') <=> Occurs(y, Tail(ready)) \/ y = Poll
      BY <3>1, PopPushFacts, SocketCallbacks
    <3> QED
      BY <2>1, <3>1, <3>2, RunFacts, WaitsOn
  <2>4. CASE ~PollEnds
    <3>1. \E x \in Callbacks : ready' = Append(ready, x)
      BY <1>2, <2>4, SocketCallbacks, CallbackFacts DEF Select, PollReadable, PollTimer
    <3> QED
      BY <2>1, <2>2, <3>1, WaitsOn
  <2> QED
    BY <2>3, <2>4
<1>3. CASE UNCHANGED vars
  BY <1>3, WaitsOn DEF vars, callerVars, exchange, timerVars, Queued
<1> QED
  BY <1>1, <1>2, <1>3, HangsStepCoroutine, HangsStepCallback DEF Next, Loop, AllReturned

-----------------------------------------------------------------------------
(* The endpoint a coroutine waits for arrives. *)

\* A step after which nobody new waits, and that forgets none of their callbacks.
LEMMA EndpointKept ==
    ASSUME EndpointComes,
           \A c \in Callers : pc'[c] = "connecting" => pc[c] = "connecting",
           \A c \in Callers : /\ Queued(Wake(c)) => Occurs(Wake(c), ready')
                              /\ Queued(Made(c)) => Occurs(Made(c), ready')
    PROVE  EndpointComes'
<1> SUFFICES ASSUME NEW c \in Callers, pc'[c] = "connecting"
             PROVE  Occurs(Made(c), ready') \/ Occurs(Wake(c), ready')
  BY DEF EndpointComes, Queued
<1>1. Queued(Made(c)) \/ Queued(Wake(c))
  BY DEF EndpointComes
<1> QED
  BY <1>1

LEMMA EndpointStepCoroutine ==
    ASSUME TypeOK, LockInv, EndpointComes, NEW c \in Callers, Coroutine(c)
    PROVE  EndpointComes'
<1>1. CASE AcquireFree(c) \/ AcquireWait(c)
  <2>1. ready' = ready /\ \A d \in Callers : pc'[d] = "connecting" => pc[d] = "connecting"
    BY <1>1 DEF AcquireFree, TakeLock, AcquireWait, TypeOK
  <2> QED
    BY <2>1, EndpointKept DEF Queued
<1>2. CASE Connect(c)
  <2>1. \A d \in Callers : d # c => pc'[d] # "connecting"
    BY <1>2, HolderAlone DEF Connect, Holds, TypeOK
  <2>2. pc'[c] = "connecting" => ready' = Append(ready, Made(c))
    BY <1>2 DEF Connect, TypeOK
  <2>3. Occurs(Made(c), Append(ready, Made(c)))
    BY CallbackFacts, AppendFacts DEF TypeOK
  <2> QED
    BY <2>1, <2>2, <2>3 DEF EndpointComes, Queued
<1>3. CASE \/ ConnectFails(c) \/ SendFails(c) \/ \E r \in Reactions : Send(c, r)
           \/ Return(c) \/ Retry(c) \/ RecursionLimit(c) \/ MaxRetriesReached(c)
  <2>1. /\ pc[c] \in {"connect", "send", "resumed"} /\ pc'[c] # "connecting"
        /\ \A d \in Callers : d # c => pc'[d] = pc[d]
    BY <1>3 DEF ConnectFails, SendFails, Send, Return, Retry, Nested, TimedOut, RecursionLimit,
                MaxRetriesReached, GiveUp, TypeOK
  <2> QED
    BY <2>1, HolderAlone DEF EndpointComes, Holds
<1> QED
  BY <1>1, <1>2, <1>3 DEF Coroutine

LEMMA EndpointStepCallback ==
    ASSUME TypeOK, LockInv, EndpointComes, RunCallback
    PROVE  EndpointComes'
<1>0. /\ Tail(ready) \in Seq(Callbacks)
      /\ \A x : x # Head(ready) /\ Queued(x) => Occurs(x, Tail(ready))
  BY RunFacts
<1>1. ASSUME NEW c \in Callers, WakeAcquired(c) \/ WakeAwaited(c) PROVE EndpointComes'
  <2>1. \/ Queued(Wake(c)) /\ pc[c] = "waiting" /\ ~locked
        \/ pc[c] \in {"connecting", "awaiting"}
    BY <1>1, RunFacts DEF WakeAcquired, WakeAwaited, LockInv, WokenIsHead, Runs
  <2>2. \A d \in Callers : d # c => pc[d] # "connecting"
    BY <2>1, HolderAlone DEF LockInv, MutualExclusion, Holds
  <2>3. pc'[c] # "connecting" /\ \A d \in Callers : d # c => pc'[d] = pc[d]
    BY <1>1 DEF WakeAcquired, WakeAwaited, TypeOK
  <2> QED
    BY <2>2, <2>3 DEF EndpointComes
<1>2. ASSUME NEW c \in Callers, ConnectionMade(c) PROVE EndpointComes'
  <2>1. pc[c] = "connecting" /\ pc' = pc /\ ready' = Append(Tail(ready), Wake(c))
    BY <1>2, RunFacts DEF ConnectionMade, Runs, callerVars, LockInv, WakeOnce
  <2>2. Occurs(Wake(c), ready')
    BY <2>1, PopPushFacts, CallbackFacts
  <2>3. \A d \in Callers : d # c => pc'[d] # "connecting"
    BY <2>1, HolderAlone DEF Holds
  <2> QED
    BY <2>2, <2>3 DEF EndpointComes, Queued
<1>3. ASSUME pc' = pc, Head(ready) \in Neutral,
             \A x : Occurs(x, Tail(ready)) => Occurs(x, ready')
      PROVE  EndpointComes'
  BY <1>0, <1>3, NeutralFacts, EndpointKept
<1>4. ASSUME pc' = pc, Head(ready) \in Neutral,
             ready' \in {Tail(ready) \o WakeOwner, Tail(ready) \o WakeOwner \o LostIfOpen,
                        Tail(ready) \o LostIfOpen \o WakeOwner}
      PROVE  EndpointComes'
  BY <1>3, <1>4, HandlerQueues
<1>5. CASE ConnectionLost \/ InvalidHandled \/ \E t \in TimerIds : TimerExpired(t)
  BY <1>4, <1>5 DEF ConnectionLost, InvalidHandled, TimerExpired, TimeoutMechanism, Runs, Neutral,
                    callerVars
<1>6. CASE SkipCancelled
  BY <1>3, <1>6 DEF SkipCancelled, Runs, Neutral, callerVars
<1>7. ASSUME NEW d \in Datagrams,
             \/ ReceiveAnswer(d) \/ ReceivePartial(d) \/ ReceiveReject(d)
             \/ ReceiveInvalid(d) \/ ReceiveError(d)
      PROVE  EndpointComes'
  <2>1. pc' = pc /\ Head(ready) \in Neutral
    BY <1>7 DEF ReceiveAnswer, ReceivePartial, ReceiveReject, ReceiveInvalid, ReceiveError,
                Receive, Runs, Neutral, callerVars
  <2>2. \A x : Occurs(x, Tail(ready)) => Occurs(x, Append(Tail(ready), Invalid))
    BY PopPushFacts, SocketCallbacks
  <2>3. \/ ready' \in {Tail(ready), Append(Tail(ready), Invalid)}
        \/ ready' \in {Tail(ready) \o WakeOwner, Tail(ready) \o WakeOwner \o LostIfOpen}
    BY <1>7 DEF ReceiveAnswer, ReceivePartial, ReceiveReject, ReceiveInvalid, ReceiveError
  <2> QED
    BY <1>3, <1>4, <2>1, <2>2, <2>3
<1> QED
  BY <1>1, <1>2, <1>5, <1>6, <1>7 DEF RunCallback

LEMMA EndpointStep ==
    ASSUME TypeOK, LockInv, EndpointComes, [Next]_vars
    PROVE  EndpointComes'
<1>1. ASSUME NEW c \in Callers, NEW k \in Commands, Call(c, k) PROVE EndpointComes'
  <2>1. ready' = ready /\ \A d \in Callers : pc'[d] = "connecting" => pc[d] = "connecting"
    BY <1>1 DEF Call, TypeOK
  <2> QED
    BY <2>1, EndpointKept DEF Queued
<1>2. CASE Select
  <2>1. pc' = pc
    BY <1>2 DEF Select, PollReadable, PollTimer, PollEnds, callerVars
  <2>2. CASE PollEnds
    <3>1. Head(ready) = Poll /\ ready' = Append(Tail(ready), Poll)
      BY <2>2 DEF PollEnds, Polls
    <3>2. \A y : Occurs(y, ready') <=> Occurs(y, Tail(ready)) \/ y = Poll
      BY <3>1, PopPushFacts, SocketCallbacks
    <3> QED
      BY <2>1, <3>1, <3>2, RunFacts, EndpointKept
  <2>3. CASE ~PollEnds
    <3>1. PICK x \in Callbacks : ready' = Append(ready, x)
      BY <1>2, <2>3, SocketCallbacks, CallbackFacts DEF Select, PollReadable, PollTimer
    <3>2. \A y : Queued(y) => Occurs(y, ready')
      BY <3>1, AppendFacts DEF TypeOK, Queued
    <3> QED
      BY <2>1, <3>2, EndpointKept
  <2> QED
    BY <2>2, <2>3
<1>3. CASE UNCHANGED vars
  BY <1>3, EndpointKept DEF vars, callerVars, Queued
<1> QED
  BY <1>1, <1>2, <1>3, EndpointStepCoroutine, EndpointStepCallback DEF Next, Loop, AllReturned

-----------------------------------------------------------------------------
(* An answer fits the command it is returned for. *)

LEMMA FutureValues ==
    /\ \A k : Answer(k) \notin {NoFuture, Pending, Rejected, Error, Cancelled, Exhausted}
    /\ \A j, k : Answer(j) = Answer(k) => j = k
    /\ Pending \notin {NoFuture, Rejected, Error, Cancelled, Exhausted}
  BY DEF Answer, NoFuture, Pending, Rejected, Error, Cancelled, Exhausted

\* A handler that leaves the coroutines alone and may complete the future in
\* flight with an answer it accepts.
LEMMA AnswerHandled ==
    ASSUME TypeOK, LockInv, AnswerInv, Quiet,
           UNCHANGED <<pc, request, command, owner>>,
           \A d \in Datagrams : net'[d] > 0 => net[d] > 0,
           \/ fut' = fut
           \/ \E v : /\ fut' = Settle(v) /\ v # Pending
                    /\ \A k : InFlight /\ v = Answer(k) => k \in Acceptable(command)
    PROVE  AnswerInv'
<1>1. AsksItsCommand'
  <2>1. CASE fut' = fut
    BY <2>1 DEF AnswerInv, AsksItsCommand, InFlight
  <2>2. CASE \E v : fut' = Settle(v) /\ v # Pending
    <3>1. \A c \in Callers : fut'[c] # Pending
      BY <2>2, SettledAll
    <3>2. ~InFlight'
      BY <3>1 DEF TypeOK, InFlight
    <3> QED
      BY <3>2 DEF AnswerInv, AsksItsCommand
  <2> QED
    BY <2>1, <2>2
<1>2. FreshSocket'
  BY DEF AnswerInv, FreshSocket, Quiet, Synchronous
<1>3. AnswersFit'
  <2>1. CASE fut' = fut
    BY <2>1 DEF AnswerInv, AnswersFit, Acceptable
  <2>2. ASSUME NEW v, fut' = Settle(v), InFlight,
               \A k : InFlight /\ v = Answer(k) => k \in Acceptable(command)
        PROVE  AnswersFit'
    <3>1. owner \in Callers /\ command = request[owner]
      BY <2>2 DEF TypeOK, InFlight, AnswerInv, AsksItsCommand
    <3>2. fut'[owner] = v /\ \A c \in Callers : c # owner => fut'[c] = fut[c]
      BY <2>2, <3>1 DEF Settle, TypeOK
    <3> QED
      BY <2>2, <3>1, <3>2 DEF AnswerInv, AnswersFit, Acceptable
  <2>3. CASE ~InFlight
    BY <2>1, <2>3 DEF Settle
  <2> QED
    BY <2>1, <2>2, <2>3
<1> QED
  BY <1>1, <1>2, <1>3 DEF AnswerInv

\* A step of a coroutine on its way to send or past its await.
LEMMA AnswerAhead ==
    ASSUME TypeOK, LockInv, AnswerInv,
           UNCHANGED <<request, net, command, owner, fut>>,
           NEW c \in Callers, pc[c] # "idle",
           NEW p \in {"waiting", "connect", "connecting", "send", "resumed"},
           pc' = [pc EXCEPT ![c] = p],
           p = "send" => KeepAlive \/ net = NoDatagrams,
           p = "resumed" => pc[c] = "awaiting"
    PROVE  AnswerInv'
<1>1. pc'[c] = p /\ \A d \in Callers : d # c => pc'[d] = pc[d]
  BY DEF TypeOK
<1>2. AsksItsCommand'
  BY <1>1 DEF AnswerInv, AsksItsCommand, InFlight
<1>3. FreshSocket'
  BY <1>1 DEF AnswerInv, FreshSocket
<1>4. AnswersFit'
  BY <1>1 DEF AnswerInv, AnswersFit, Acceptable
<1> QED
  BY <1>2, <1>3, <1>4 DEF AnswerInv

LEMMA AnswerStepCall ==
    ASSUME TypeOK, LockInv, AnswerInv, NEW c \in Callers, NEW k \in Commands, Call(c, k)
    PROVE  AnswerInv'
<1>1. /\ pc[c] = "idle" /\ pc'[c] = "acquire" /\ request'[c] = k
      /\ \A d \in Callers : d # c => pc'[d] = pc[d] /\ request'[d] = request[d]
      /\ UNCHANGED <<net, command, owner, fut>>
  BY DEF Call, TypeOK, linkVars, exchange
<1>2. InFlight => owner \in Callers /\ owner # c
  BY <1>1, PieceFacts DEF LockInv, FutureBelongsToWaiter, InFlight
<1>3. AsksItsCommand'
  BY <1>1, <1>2 DEF AnswerInv, AsksItsCommand, InFlight
<1>4. FreshSocket'
  BY <1>1 DEF AnswerInv, FreshSocket
<1>5. AnswersFit'
  BY <1>1 DEF AnswerInv, AnswersFit, Acceptable
<1> QED
  BY <1>3, <1>4, <1>5 DEF AnswerInv

LEMMA AnswerStepConnect ==
    ASSUME TypeOK, LockInv, LinkInv, AnswerInv, NEW c \in Callers, Connect(c)
    PROVE  AnswerInv'
<1>1. transport = "open" => KeepAlive
  BY HolderAlone DEF Connect, Holds, LinkInv, SocketIsUsed
<1>2. /\ UNCHANGED <<request, net, command, owner, fut>> /\ pc[c] = "connect"
      /\ \/ pc' = [pc EXCEPT ![c] = "send"] /\ transport = "open"
         \/ pc' = [pc EXCEPT ![c] = "connecting"]
  BY DEF Connect, linkVars, exchange
<1> QED
  BY <1>1, <1>2, AnswerAhead

LEMMA AnswerStepConnectFails ==
    ASSUME TypeOK, LockInv, AnswerInv, NEW c \in Callers, ConnectFails(c)
    PROVE  AnswerInv'
<1>1. /\ pc[c] = "connect" /\ pc'[c] = "resumed" /\ fut'[c] = Error
      /\ \A d \in Callers : d # c => pc'[d] = pc[d] /\ fut'[d] = fut[d] /\ fut[d] # Pending
      /\ UNCHANGED <<request, command, owner, net>>
  BY HolderAlone DEF ConnectFails, TypeOK, Holds, linkVars
<1>2. AsksItsCommand'
  BY <1>1, FutureValues DEF AnswerInv, AsksItsCommand, InFlight, TypeOK
<1>3. FreshSocket'
  BY <1>1 DEF AnswerInv, FreshSocket
<1>4. AnswersFit'
  BY <1>1, FutureValues DEF AnswerInv, AnswersFit, Acceptable
<1> QED
  BY <1>2, <1>3, <1>4 DEF AnswerInv

LEMMA AnswerStepSend ==
    ASSUME TypeOK, LockInv, AnswerInv, NEW c \in Callers,
           SendFails(c) \/ \E r \in Reactions : Send(c, r)
    PROVE  AnswerInv'
<1>1. /\ pc[c] = "send" /\ pc'[c] \in {"awaiting", "resumed"} /\ fut'[c] \in {Pending, Error}
      /\ \A d \in Callers : d # c =>
            pc'[d] = pc[d] /\ fut'[d] = fut[d] /\ pc[d] # "send"
      /\ request' = request /\ command' = request[c] /\ owner' = c
  BY HolderAlone DEF Send, SendFails, TypeOK, Holds
<1>2. AsksItsCommand'
  BY <1>1 DEF AnswerInv, AsksItsCommand, InFlight
<1>3. FreshSocket'
  <2>1. CASE SendFails(c)
    BY <1>1, <2>1 DEF SendFails, HangUp, FreshSocket, NoDatagrams
  <2>2. CASE \E r \in Reactions : Send(c, r)
    <3>1. ~KeepAlive => \A d \in Datagrams : d.cmd # request[c] => net'[d] = 0
      BY <1>1, <2>2 DEF Send, AnswerInv, FreshSocket, NoDatagrams
    <3> QED
      BY <1>1, <3>1 DEF FreshSocket
  <2> QED
    BY <2>1, <2>2
<1>4. AnswersFit'
  BY <1>1, FutureValues DEF AnswerInv, AnswersFit, Acceptable
<1> QED
  BY <1>2, <1>3, <1>4 DEF AnswerInv

LEMMA AnswerStepLeave ==
    ASSUME TypeOK, LockInv, AnswerInv, NEW c \in Callers,
           Return(c) \/ Retry(c) \/ RecursionLimit(c) \/ MaxRetriesReached(c)
    PROVE  AnswerInv'
<1>1. /\ pc[c] = "resumed" /\ pc'[c] \in {"idle", "acquire"}
      /\ \A d \in Callers : d # c => pc'[d] = pc[d] /\ pc[d] # "send"
      /\ UNCHANGED <<request, command>>
  <2>1. /\ pc[c] = "resumed" /\ UNCHANGED <<request, command>>
        /\ pc' \in {[pc EXCEPT ![c] = "idle"], [pc EXCEPT ![c] = "acquire"]}
    BY DEF Return, Retry, Nested, TimedOut, RecursionLimit, MaxRetriesReached, GiveUp
  <2> QED
    BY <2>1, HolderAlone DEF Holds, TypeOK
<1>2. Settle(Cancelled) = fut /\ \A d \in Callers : fut[d] # Pending
  BY <1>1, ResumedAlone DEF Settle
<1>3. \/ fut' = fut /\ owner' = owner
      \/ fut' = [fut EXCEPT ![c] = Exhausted] /\ owner' = c
  BY <1>2 DEF Return, Retry, Nested, TimedOut, RecursionLimit, MaxRetriesReached, GiveUp,
              ReleaseAndDrop
<1>4. net' = net \/ net' = NoDatagrams
  BY DEF Return, Retry, Nested, RecursionLimit, MaxRetriesReached, GiveUp,
         ReleaseAndDrop, HangUp, linkVars
<1>5. AsksItsCommand'
  <2>1. ~InFlight'
    BY <1>2, <1>3, FutureValues DEF TypeOK, InFlight
  <2> QED
    BY <1>1, <2>1 DEF AnswerInv, AsksItsCommand
<1>6. FreshSocket'
  BY <1>1, <1>4 DEF AnswerInv, FreshSocket, NoDatagrams
<1>7. AnswersFit'
  <2>1. \A d \in Callers, k \in Commands : fut'[d] = Answer(k) => fut[d] = Answer(k)
    BY <1>3, FutureValues DEF TypeOK
  <2> QED
    BY <1>1, <2>1 DEF AnswerInv, AnswersFit, Acceptable
<1> QED
  BY <1>5, <1>6, <1>7 DEF AnswerInv

LEMMA AnswerStepReceive ==
    ASSUME TypeOK, LockInv, AnswerInv, NEW d \in Datagrams,
           \/ ReceiveAnswer(d) \/ ReceivePartial(d) \/ ReceiveReject(d)
           \/ ReceiveInvalid(d) \/ ReceiveError(d)
    PROVE  AnswerInv'
<1>1. Quiet /\ net[d] > 0 /\ UNCHANGED <<pc, request, command, owner>>
  BY DEF ReceiveAnswer, ReceivePartial, ReceiveReject, ReceiveInvalid, ReceiveError,
         Receive, Runs, callerVars
<1>2. \A e \in Datagrams : net'[e] > 0 => net[e] > 0
  <2>1. Consume(d) => \A e \in Datagrams : net'[e] > 0 => net[e] > 0
    BY <1>1 DEF Consume, TypeOK
  <2>2. HangUp => \A e \in Datagrams : net'[e] > 0 => net[e] > 0
    BY DEF HangUp, NoDatagrams
  <2> QED
    BY <2>1, <2>2
       DEF ReceiveAnswer, ReceivePartial, ReceiveReject, ReceiveInvalid, ReceiveError
<1>3. CASE ReceiveAnswer(d)
  <2>1. d.cmd \in Commands /\ Shape[d.cmd] = Shape[command]
    BY <1>3 DEF ReceiveAnswer, Valid, Composed, Datagrams
  <2>2. ~KeepAlive => d.cmd = command
    BY <1>1 DEF AnswerInv, FreshSocket
  <2>3. fut' = Settle(Answer(d.cmd)) /\ d.cmd \in Acceptable(command)
    BY <1>3, <2>1, <2>2 DEF ReceiveAnswer, Acceptable
  <2> QED
    BY <1>1, <1>2, <2>3, FutureValues, AnswerHandled
<1>4. CASE ReceiveReject(d)
  BY <1>1, <1>2, <1>4, FutureValues, AnswerHandled DEF ReceiveReject
<1>5. CASE ReceivePartial(d) \/ ReceiveInvalid(d)
  BY <1>1, <1>2, <1>5, AnswerHandled DEF ReceivePartial, ReceiveInvalid
<1>6. CASE ReceiveError(d)
  BY <1>1, <1>2, <1>6, FutureValues, AnswerHandled DEF ReceiveError
<1> QED
  BY <1>3, <1>4, <1>5, <1>6

LEMMA AnswerStepCallback ==
    ASSUME TypeOK, LockInv, LinkInv, AnswerInv, RunCallback
    PROVE  AnswerInv'
<1>1. ASSUME NEW c \in Callers, WakeAcquired(c) PROVE AnswerInv'
  BY <1>1, AnswerAhead DEF WakeAcquired, linkVars, exchange
<1>2. ASSUME NEW c \in Callers, WakeAwaited(c) PROVE AnswerInv'
  <2>1. ~Queued(Made(c))
    BY <1>2, RunFacts DEF WakeAwaited, Runs, LockInv, WakeOnce
  <2>2. pc[c] = "connecting" => net = NoDatagrams
    BY <2>1 DEF LinkInv, EndpointArrives
  <2> QED
    BY <1>2, <2>2, AnswerAhead DEF WakeAwaited, linkVars, exchange
<1>3. ASSUME Quiet, UNCHANGED <<pc, request, command, owner>>, net' \in {net, NoDatagrams},
             fut' \in {fut, Settle(Cancelled)}
      PROVE  AnswerInv'
  BY <1>3, FutureValues, AnswerHandled DEF NoDatagrams
<1>4. ASSUME NEW c \in Callers, ConnectionMade(c) PROVE AnswerInv'
  BY <1>3, <1>4 DEF ConnectionMade, Runs, callerVars, exchange
<1>5. CASE ConnectionLost
  BY <1>3, <1>5 DEF ConnectionLost, Runs, HangUp, callerVars
<1>6. ASSUME NEW t \in TimerIds, TimerExpired(t) PROVE AnswerInv'
  BY <1>3, <1>6 DEF TimerExpired, TimeoutMechanism, Runs, callerVars, linkVars
<1>7. CASE InvalidHandled
  BY <1>3, <1>7 DEF InvalidHandled, TimeoutMechanism, Runs, callerVars, linkVars
<1>8. CASE SkipCancelled
  BY <1>3, <1>8 DEF SkipCancelled, Runs, callerVars, linkVars, exchange
<1> QED
  BY <1>1, <1>2, <1>4, <1>5, <1>6, <1>7, <1>8, AnswerStepReceive DEF RunCallback

LEMMA AnswerStep ==
    ASSUME TypeOK, LockInv, LinkInv, AnswerInv, [Next]_vars
    PROVE  AnswerInv'
<1>1. ASSUME NEW c \in Callers, AcquireFree(c) \/ AcquireWait(c) PROVE AnswerInv'
  BY <1>1, AnswerAhead DEF AcquireFree, TakeLock, AcquireWait, linkVars, exchange
<1>2. ASSUME NEW c \in Callers, Coroutine(c) PROVE AnswerInv'
  BY <1>1, <1>2, AnswerStepConnect, AnswerStepConnectFails, AnswerStepSend, AnswerStepLeave
     DEF Coroutine
<1>3. CASE UNCHANGED <<pc, request, net, command, owner, fut>>
  BY <1>3 DEF AnswerInv, AsksItsCommand, InFlight, FreshSocket, AnswersFit, Acceptable
<1>4. CASE Select
  BY <1>3, <1>4
     DEF Select, PollReadable, PollTimer, PollEnds, callerVars, linkVars, exchange
<1>5. CASE UNCHANGED vars
  BY <1>3, <1>5 DEF vars, callerVars, linkVars, exchange
<1> QED
  BY <1>2, <1>4, <1>5, AnswerStepCall, AnswerStepCallback DEF Next, Loop, AllReturned

-----------------------------------------------------------------------------
(* The theorems. *)

LEMMA InitExchange == Init => LinkInv /\ AnswerComes /\ AnswerInv
<1> SUFFICES ASSUME Init PROVE LinkInv /\ AnswerComes /\ AnswerInv
  OBVIOUS
<1>1. /\ \A c \in Callers : pc[c] = "idle" /\ fut[c] = NoFuture
      /\ net = NoDatagrams /\ owner = None
  BY DEF Init
<1>2. AnswerComes
  BY <1>1 DEF AnswerComes
<1>3. AsksItsCommand /\ FreshSocket /\ AnswersFit
  BY <1>1, FutureValues DEF AsksItsCommand, InFlight, FreshSocket, AnswersFit, NoDatagrams
<1> QED
  BY <1>2, <1>3, InitLink DEF AnswerInv

\* The invariants of the socket, of the waits and of the answers are inductive
\* on top of the lock's.
THEOREM ExchangeInvariance ==
    Spec => [](TypeOK /\ LockInv /\ LinkInv /\ AnswerComes /\ AnswerInv)
<1>1. Init => TypeOK /\ LockInv /\ LinkInv /\ AnswerComes /\ AnswerInv
  BY InitTypes, InitLock, InitExchange
<1>2. TypeOK /\ LockInv /\ LinkInv /\ AnswerComes /\ AnswerInv /\ [Next]_vars
        => (TypeOK /\ LockInv /\ LinkInv /\ AnswerComes /\ AnswerInv)'
  BY TypeStep, LockStep, LinkStep, HangsStep, AnswerStep
<1> QED
  BY <1>1, <1>2, PTL DEF Spec

\* Every suspension of send_request has its end to come: the answer's timer, the
\* invalid-answer callback or its wake-up, connection_made of the endpoint or its
\* wake-up, and for the lock its holder or the wake-up of the first of the queue
\* (protocol.py:158, 163, 180-186, 191-198, 214-226).
THEOREM WaitsAreEnded == Spec => []NobodyHangs
<1>1. Init => EndpointComes
  BY DEF Init, EndpointComes
<1>2. TypeOK /\ LockInv /\ EndpointComes /\ [Next]_vars => EndpointComes'
  BY EndpointStep
<1>3. TypeOK /\ LockInv => LockComes
  <2> SUFFICES ASSUME TypeOK, LockInv, NEW c \in Callers, pc[c] = "waiting"
               PROVE  (\E d \in Callers : Holds(d)) \/ Queued(Wake(Head(waiters)))
    BY DEF LockComes
  <2>1. waiters # <<>>
    BY ShortFacts DEF LockInv, WaitersWait
  <2> QED
    BY <2>1 DEF LockInv, MutualExclusion, NoLostWakeup
<1> QED
  BY <1>1, <1>2, <1>3, ExchangeInvariance, PTL DEF Spec, NobodyHangs

\* A request is sent, and its answer awaited, on an open transport
\* (protocol.py:72-80, 182-186, 213).
THEOREM RequestsUseOpenSockets == Spec => []WaitsOnOpenTransport
<1>1. LinkInv => WaitsOnOpenTransport
  BY DEF LinkInv
<1> QED
  BY <1>1, ExchangeInvariance, PTL

\* When every call has returned the lock is free and, without keep_alive, the
\* socket is closed (protocol.py:196-200).
THEOREM CallsLeaveNothing == Spec => []NothingLeftBehind
<1>1. TypeOK /\ LockInv /\ LinkInv => NothingLeftBehind
  <2> SUFFICES ASSUME TypeOK, LockInv, LinkInv, \A c \in Callers : pc[c] = "idle"
               PROVE  ~locked /\ waiters = <<>> /\ (KeepAlive \/ transport = "none")
    BY DEF NothingLeftBehind
  <2>1. ~locked
    BY DEF LockInv, MutualExclusion, Holds
  <2>2. waiters = <<>>
    <3>1. \A c \in Callers : ~Occurs(c, waiters)
      BY DEF LockInv, WaitersWait
    <3> QED
      BY <3>1, TailFacts DEF TypeOK
  <2>3. KeepAlive \/ transport = "none"
    BY DEF LinkInv, SocketIsUsed, TypeOK
  <2> QED
    BY <2>1, <2>2, <2>3
<1> QED
  BY <1>1, ExchangeInvariance, PTL

\* execute never returns the answer to a command of another shape: what the
\* validator compares agrees, on a kept socket too (protocol.py:152-158).
THEOREM AnswersHaveTheShape == Spec => []AnswersSameShape
<1>1. AnswerInv => AnswersSameShape
  BY DEF AnswerInv, AnswersFit, Acceptable, AnswersSameShape
<1> QED
  BY <1>1, ExchangeInvariance, PTL

\* Without keep_alive every socket serves one attempt, so execute returns the
\* answer to its own command, whatever is late, doubled or cut in two.
THEOREM AnswersAreOwn ==
    ASSUME ~KeepAlive
    PROVE  Spec => []AnswersOwnCommand
<1>1. AnswerInv => AnswersOwnCommand
  BY DEF AnswerInv, AnswersFit, Acceptable, AnswersOwnCommand
<1> QED
  BY <1>1, ExchangeInvariance, PTL

\* The connection_lost of an earlier attempt neither closes the socket nor
\* cancels the future of a later one (protocol.py:72-81, 133-139).
THEOREM LateLossFindsNothing == Spec => LateLossIsHarmless
<1>1. TypeOK /\ LockInv /\ LinkInv /\ [Next]_vars
        => [ConnectionLost => UNCHANGED <<transport, fut>>]_vars
  BY LostFindsNothing
<1> QED
  BY <1>1, ExchangeInvariance, PTL DEF Spec, LateLossIsHarmless

-----------------------------------------------------------------------------
(* Which callback comes first. *)

LEMMA BeforeTail ==
    ASSUME NEW s \in Seq(Callbacks), s # <<>>, NEW x, NEW y, Before(x, y, s)
    PROVE  Before(x, y, Tail(s))
<1>1. /\ Len(s) \in Nat \ {0} /\ DOMAIN s = 1..Len(s)
      /\ DOMAIN Tail(s) = 1..(Len(s) - 1)
      /\ \A i \in 1..(Len(s) - 1) : Tail(s)[i] = s[i + 1]
  BY HeadTailProperties, LenProperties, EmptySeq
<1>2. ASSUME NEW i \in DOMAIN Tail(s), NEW j \in DOMAIN Tail(s), Tail(s)[i] = x, Tail(s)[j] = y
      PROVE  i < j
  <2>1. i + 1 \in DOMAIN s /\ j + 1 \in DOMAIN s /\ s[i + 1] = x /\ s[j + 1] = y
    BY <1>1, <1>2
  <2>2. i + 1 < j + 1
    BY <2>1 DEF Before
  <2>3. i \in Nat /\ j \in Nat
    BY <1>1
  <2> QED
    BY <2>2, <2>3
<1> QED
  BY <1>2 DEF Before

\* What must come before the head is not there any more.
LEMMA BeforeHead ==
    ASSUME NEW s \in Seq(Callbacks), s # <<>>, NEW x, Before(x, Head(s), s)
    PROVE  ~Occurs(x, s)
<1> SUFFICES ASSUME NEW i \in DOMAIN s, s[i] = x PROVE FALSE
  BY DEF Occurs
<1>1. Len(s) \in Nat \ {0} /\ DOMAIN s = 1..Len(s) /\ s[1] = Head(s)
  BY HeadTailProperties, LenProperties, EmptySeq
<1>2. i < 1
  BY <1>1 DEF Before
<1> QED
  BY <1>1, <1>2

LEMMA BeforePush ==
    ASSUME NEW s \in Seq(Callbacks), NEW z \in Callbacks, NEW x, NEW y, x # y, Before(x, y, s),
           z = x => ~Occurs(y, s)
    PROVE  Before(x, y, s \o <<z>>)
<1> DEFINE whole == s \o <<z>>
<1>1. /\ Len(s) \in Nat /\ DOMAIN s = 1..Len(s)
      /\ DOMAIN whole = 1..(Len(s) + 1)
      /\ \A i \in 1..(Len(s) + 1) : whole[i] = IF i <= Len(s) THEN s[i] ELSE z
  BY ConcatProperties, LenProperties
<1> HIDE DEF whole
<1>2. ASSUME NEW i \in DOMAIN whole, NEW j \in DOMAIN whole, whole[i] = x, whole[j] = y
      PROVE  i < j
  <2>0. i \in Nat /\ j \in Nat /\ i <= Len(s) + 1 /\ j <= Len(s) + 1
    BY <1>1
  <2>1. CASE i <= Len(s) /\ j <= Len(s)
    <3>1. i \in DOMAIN s /\ j \in DOMAIN s /\ s[i] = x /\ s[j] = y
      BY <1>1, <1>2, <2>0, <2>1
    <3> QED
      BY <3>1 DEF Before
  <2>2. CASE i = Len(s) + 1 /\ j <= Len(s)
    <3>1. z = x /\ j \in DOMAIN s /\ s[j] = y
      BY <1>1, <1>2, <2>0, <2>2
    <3> QED
      BY <3>1 DEF Occurs
  <2>3. CASE i <= Len(s) /\ j = Len(s) + 1
    BY <1>1, <2>0, <2>3
  <2>4. CASE i = Len(s) + 1 /\ j = Len(s) + 1
    BY <1>1, <1>2, <2>0, <2>4
  <2> QED
    BY <1>1, <2>0, <2>1, <2>2, <2>3, <2>4
<1> QED
  BY <1>2 DEF Before, whole

LEMMA BeforeNothing ==
    ASSUME NEW s, NEW x, NEW y, ~Occurs(x, s) \/ ~Occurs(y, s)
    PROVE  Before(x, y, s)
  BY DEF Before, Occurs

LEMMA Pushed ==
    ASSUME NEW s \in Seq(Callbacks), NEW z \in Callbacks, NEW r, r = Append(s, z)
    PROVE  /\ r = s \o <<z>>
           /\ \A y : Occurs(y, r) <=> Occurs(y, s) \/ y = z
           /\ \A y : AtMostOnce(y, s) /\ ~(y = z /\ Occurs(y, s)) => AtMostOnce(y, r)
  BY AppendIsConcat, AppendFacts

\* The reader and the invalid answer are queued once, the reader before the timers.
Turns(s) ==
    /\ AtMostOnce(Invalid, s) /\ AtMostOnce(Read, s)
    /\ \A t \in TimerIds : Before(Read, Due(t), s)

\* A coroutine whose wait has ended and that has not been stepped yet.
WaitOver(c) == pc[c] = "awaiting" /\ fut[c] # Pending

\* A queue s that has no reader and no invalid answer but those of r, in turn.
Follows(s, r) ==
    /\ s \in Seq(Callbacks) /\ Turns(s)
    /\ Occurs(Invalid, s) => Occurs(Invalid, r)
    /\ Occurs(Read, s) => Occurs(Read, r)
    /\ \A c \in Callers : WaitOver(c) => Before(Wake(c), Read, s)

LEMMA FollowsReady ==
    ASSUME TypeOK, TimerInv
    PROVE  Follows(ready, ready)
  BY DEF TypeOK, TimerInv, OneEnding, ReadInTurn, Follows, Turns, WaitOver

LEMMA FollowsTail ==
    ASSUME TypeOK, LockInv, TimerInv
    PROVE  Follows(Tail(ready), ready) /\ Follows(Tail(ready), Tail(ready))
<1>1. /\ ready \in Seq(Callbacks) /\ ready # <<>> /\ Tail(ready) \in Seq(Callbacks)
      /\ \A x : Occurs(x, Tail(ready)) => Occurs(x, ready)
      /\ \A x : AtMostOnce(x, ready) => AtMostOnce(x, Tail(ready))
  BY RunFacts DEF TypeOK, Queued
<1>2. \A x, y : Before(x, y, ready) => Before(x, y, Tail(ready))
  BY <1>1, BeforeTail
<1> QED
  BY <1>1, <1>2, FollowsReady DEF Follows, Turns

LEMMA FollowsPush ==
    ASSUME NEW r, NEW s, Follows(s, r), NEW z \in Callbacks, z \notin {Invalid, Read},
           \A c \in Callers : z = Wake(c) => ~WaitOver(c)
    PROVE  Follows(s \o <<z>>, r) /\ Follows(Append(s, z), r)
<1>1. s \in Seq(Callbacks)
  BY DEF Follows
<1>2. /\ s \o <<z>> \in Seq(Callbacks) /\ Append(s, z) = s \o <<z>>
      /\ \A y : Occurs(y, s \o <<z>>) <=> Occurs(y, s) \/ y = z
      /\ \A y : AtMostOnce(y, s) /\ ~(y = z /\ Occurs(y, s)) => AtMostOnce(y, s \o <<z>>)
  BY <1>1, PushFacts
<1>3. ASSUME NEW t \in TimerIds PROVE Before(Read, Due(t), s \o <<z>>)
  <2>1. Read # Due(t) /\ Before(Read, Due(t), s) /\ z # Read
    BY CallbackFacts DEF Follows, Turns
  <2> QED
    BY <1>1, <2>1, BeforePush
<1>4. ASSUME NEW c \in Callers, WaitOver(c) PROVE Before(Wake(c), Read, s \o <<z>>)
  <2>1. Wake(c) # Read /\ Before(Wake(c), Read, s) /\ z # Wake(c)
    BY <1>4, CallbackFacts DEF Follows
  <2> QED
    BY <1>1, <2>1, BeforePush
<1>5. Turns(s \o <<z>>)
  BY <1>2, <1>3 DEF Follows, Turns
<1> QED
  BY <1>2, <1>4, <1>5 DEF Follows

\* What the handlers append wakes nobody whose wait has ended already.
LEMMA FollowsPieces ==
    ASSUME TypeOK, LockInv, NEW r, NEW s, Follows(s, r)
    PROVE  Follows(s \o WakeOwner, r) /\ Follows(s \o LostIfOpen, r) /\ Follows(s \o WakeNext, r)
<1>0. s \in Seq(Callbacks) /\ s \o <<>> = s
  BY ConcatEmptySeq DEF Follows
<1>1. Lost \in Callbacks /\ Lost \notin {Invalid, Read} /\ \A c \in Callers : Lost # Wake(c)
  BY SocketCallbacks, CallbackFacts DEF Lost, Invalid, Read, Callback
<1>2. Follows(s \o LostIfOpen, r)
  BY <1>0, <1>1, FollowsPush DEF LostIfOpen
<1>3. ASSUME NEW c \in Callers, ~WaitOver(c) PROVE Follows(s \o <<Wake(c)>>, r)
  <2>1. Wake(c) \in Callbacks /\ Wake(c) \notin {Invalid, Read}
        /\ \A d \in Callers : Wake(c) = Wake(d) => c = d
    BY CallbackFacts
  <2> QED
    BY <1>3, <2>1, FollowsPush
<1>4. InFlight => owner \in Callers /\ ~WaitOver(owner)
  BY PieceFacts DEF InFlight, WaitOver
<1>5. waiters # <<>> => Head(waiters) \in Callers /\ ~WaitOver(Head(waiters))
  BY TailFacts DEF TypeOK, LockInv, WaitersWait, WaitOver
<1> QED
  BY <1>0, <1>2, <1>3, <1>4, <1>5 DEF WakeOwner, WakeNext

-----------------------------------------------------------------------------
(* The ways a step leaves the timers. *)

\* A step that completes no future and arms or cancels no timer.
LEMMA TimerKept ==
    ASSUME TypeOK, TimerInv, UNCHANGED <<timer, armed, owner, fut>>, net' \in {net, NoDatagrams},
           \A c \in Callers : pc'[c] = "awaiting" => pc[c] = "awaiting",
           Follows(ready', ready)
    PROVE  TimerInv'
<1>1. OneEnding'
  BY DEF TimerInv, OneEnding, InFlight, Queued, Follows, Turns
<1>2. GarbageAlone'
  BY DEF TimerInv, GarbageAlone, NoDatagrams
<1>3. ReadInTurn'
  BY DEF ReadInTurn, Follows, Turns, WaitOver
<1> QED
  BY <1>1, <1>2, <1>3 DEF TimerInv

\* A step after which nothing is in flight.
LEMMA TimerOver ==
    ASSUME NEW r, Follows(ready', r), ~Occurs(Invalid, r), armed' = {}, GarbageAlone',
           \A c \in Callers : pc'[c] = "awaiting" /\ fut'[c] # Pending => ~Occurs(Read, r)
    PROVE  TimerInv'
<1>1. OneEnding'
  BY DEF OneEnding, Queued, Follows, Turns
<1>2. \A c \in Callers : pc'[c] = "awaiting" /\ fut'[c] # Pending => Before(Wake(c), Read, ready')
  BY BeforeNothing DEF Follows
<1>3. ReadInTurn'
  BY <1>2 DEF ReadInTurn, Follows, Turns
<1> QED
  BY <1>1, <1>3 DEF TimerInv

\* A handler that completes the future in flight, when the reader is not queued.
LEMMA TimerEnds ==
    ASSUME TypeOK, LockInv, TimerInv,
           ~Occurs(Invalid, Tail(ready)), ~Occurs(Read, Tail(ready)), armed' = {}, GarbageAlone',
           ready' \in {Tail(ready) \o WakeOwner, Tail(ready) \o WakeOwner \o LostIfOpen}
    PROVE  TimerInv'
<1>1. Follows(Tail(ready), Tail(ready))
  BY FollowsTail
<1>2. Follows(ready', Tail(ready))
  BY <1>1, FollowsPieces
<1> QED
  BY <1>2, TimerOver

\* Only a request in flight has datagrams read.
LEMMA ReadAnswers ==
    ASSUME TypeOK, LockInv, LinkInv, AnswerComes, AnswerInv, Orderly, TimerInv,
           NEW d \in Datagrams, Receive(d)
    PROVE  /\ InFlight /\ d.cmd = command
           /\ ~Queued(Invalid) /\ ~Occurs(Read, Tail(ready))
<1>1. Quiet /\ Head(ready) = Read /\ transport = "open" /\ net[d] > 0
  BY DEF Receive, Runs
<1>2. ready \in Seq(Callbacks) /\ ready # <<>> /\ net # NoDatagrams
  BY <1>1, RunFacts DEF TypeOK, NoDatagrams
<1>3. ~KeepAlive /\ d.cmd = command
  BY <1>1 DEF Orderly, AnswerInv, FreshSocket
<1>4. PICK c \in Callers : pc[c] \in {"connecting", "awaiting"}
  BY <1>1, <1>3 DEF LinkInv, SocketIsUsed, Quiet, Synchronous
<1>5. pc[c] = "awaiting"
  BY <1>1, <1>2, <1>4 DEF LinkInv, EndpointArrives, InOrder, Queued
<1>6. fut[c] = Pending
  <2>1. SUFFICES ASSUME fut[c] # Pending PROVE FALSE
    OBVIOUS
  <2>2. Queued(Wake(c)) /\ Before(Wake(c), Read, ready)
    BY <1>5, <2>1 DEF AnswerComes, TimerInv, ReadInTurn
  <2> QED
    BY <1>1, <1>2, <2>2, BeforeHead DEF Queued
<1>7. InFlight
  BY <1>6, ConstantsAssumption DEF LockInv, FutureBelongsToWaiter, InFlight
<1>8. ~Queued(Invalid)
  BY <1>2 DEF TimerInv, OneEnding
<1>9. ~Occurs(Read, Tail(ready))
  BY <1>1, RunFacts DEF TimerInv, ReadInTurn
<1> QED
  BY <1>3, <1>7, <1>8, <1>9

\* Datagrams of garbage come alone, and once.
LEMMA GarbageConsumed ==
    ASSUME TypeOK, GarbageAlone, NEW d \in Datagrams, net[d] > 0, Consume(d)
    PROVE  GarbageAlone' /\ (d.kind = "garbage" => net' = NoDatagrams)
<1>1. /\ net \in [Datagrams -> Nat] /\ net' = [net EXCEPT ![d] = @ - 1]
  BY DEF TypeOK, Consume
<1>2. \A e \in Datagrams : net'[e] = IF e = d THEN net[d] - 1 ELSE net[e]
  BY <1>1
<1>3. \A e \in Datagrams : net'[e] > 0 => net[e] > 0
  BY <1>1, <1>2
<1>4. ASSUME NEW e \in Datagrams, e.kind = "garbage", net[e] > 0
      PROVE  e = d /\ net' = NoDatagrams
  <2>1. net = [NoDatagrams EXCEPT ![e] = 1]
    BY <1>4 DEF GarbageAlone
  <2>2. net[e] = 1 /\ \A x \in Datagrams : x # e => net[x] = 0
    BY <2>1 DEF NoDatagrams
  <2>3. e = d
    BY <2>2
  <2>4. \A x \in Datagrams : net'[x] = 0
    BY <1>1, <1>2, <2>2, <2>3
  <2>5. net' = [x \in Datagrams |-> 0]
    BY <1>1, <2>4
  <2> QED
    BY <2>3, <2>5 DEF NoDatagrams
<1>5. ASSUME NEW e \in Datagrams, net'[e] > 0 PROVE e.kind \notin {"second", "refused", "garbage"}
  <2>1. net[e] > 0
    BY <1>3, <1>5
  <2>2. e.kind # "garbage"
    BY <1>4, <1>5, <2>1 DEF NoDatagrams
  <2> QED
    BY <2>1, <2>2 DEF GarbageAlone
<1>6. GarbageAlone'
  BY <1>5 DEF GarbageAlone
<1> QED
  BY <1>4, <1>6

\* What is read is an answer, a first piece, a rejection or garbage.
LEMMA OrderlyDatagrams ==
    ASSUME TypeOK, LockInv, LinkInv, AnswerComes, AnswerInv, Orderly, TimerInv,
           NEW d \in Datagrams, Receive(d)
    PROVE  /\ d.kind \in {"answer", "first", "reject", "garbage"}
           /\ Composed(d) = d /\ (d.kind = "answer" => Valid(d)) /\ (d.kind = "first" => Partial(d))
<1>1. d.kind \in Kinds /\ net[d] > 0 /\ d.cmd = command
  BY ReadAnswers DEF Receive, Datagrams
<1>2. d.kind \notin {"second", "refused"}
  BY <1>1 DEF TimerInv, GarbageAlone
<1> QED
  BY <1>1, <1>2 DEF Kinds, Composed, Completes, Valid, Partial

LEMMA TimerStepReceive ==
    ASSUME TypeOK, LockInv, LinkInv, AnswerComes, AnswerInv, Orderly, TimerInv,
           NEW d \in Datagrams,
           \/ ReceiveAnswer(d) \/ ReceivePartial(d) \/ ReceiveReject(d)
           \/ ReceiveInvalid(d) \/ ReceiveError(d)
    PROVE  TimerInv'
<1>0. Receive(d)
  BY DEF ReceiveAnswer, ReceivePartial, ReceiveReject, ReceiveInvalid, ReceiveError
<1>1. /\ net[d] > 0 /\ UNCHANGED <<pc, owner>> /\ InFlight
      /\ ~Queued(Invalid) /\ ~Occurs(Invalid, Tail(ready)) /\ ~Occurs(Read, Tail(ready))
      /\ armed \subseteq {timer} /\ GarbageAlone
  BY <1>0, ReadAnswers, RunFacts DEF Receive, callerVars, TimerInv, OneEnding
<1>2. Follows(Tail(ready), Tail(ready))
  BY FollowsTail
<1>3. CASE ReceiveAnswer(d)
  <2>1. armed' = {} /\ GarbageAlone' /\ ready' = Tail(ready) \o WakeOwner
    BY <1>1, <1>3, GarbageConsumed DEF ReceiveAnswer, StopTimer
  <2> QED
    BY <1>1, <2>1, TimerEnds
<1>4. CASE ReceiveReject(d)
  <2>1. armed' = {} /\ GarbageAlone' /\ ready' = Tail(ready) \o WakeOwner \o LostIfOpen
    BY <1>1, <1>4 DEF ReceiveReject, StopTimer, HangUp, GarbageAlone, NoDatagrams
  <2> QED
    BY <1>1, <2>1, TimerEnds
<1>5. CASE ReceivePartial(d)
  <2>1. /\ GarbageAlone' /\ armed' = {timer'} /\ UNCHANGED <<pc, owner, fut>> /\ ready' = Tail(ready)
    BY <1>1, <1>5, GarbageConsumed DEF ReceivePartial, ArmTimer
  <2>2. OneEnding'
    BY <1>1, <1>2, <2>1 DEF OneEnding, InFlight, Queued, Follows, Turns
  <2>3. ReadInTurn'
    BY <1>2, <2>1 DEF ReadInTurn, Follows, Turns, WaitOver
  <2> QED
    BY <2>1, <2>2, <2>3 DEF TimerInv
<1>6. CASE ReceiveInvalid(d)
  <2>1. d.kind = "garbage"
    BY <1>0, <1>6, OrderlyDatagrams DEF ReceiveInvalid
  <2>2. /\ GarbageAlone' /\ net' = NoDatagrams /\ armed' = {} /\ UNCHANGED <<pc, owner, fut>>
        /\ ready' = Append(Tail(ready), Invalid)
    BY <1>1, <1>6, <2>1, GarbageConsumed DEF ReceiveInvalid, StopTimer
  <2> DEFINE rest == Tail(ready)
  <2>0. rest \in Seq(Callbacks) /\ Invalid \in Callbacks /\ ready' = Append(rest, Invalid)
    BY <2>2, RunFacts, SocketCallbacks
  <2> HIDE DEF rest
  <2>9. /\ Append(rest, Invalid) = rest \o <<Invalid>>
        /\ \A y : Occurs(y, ready') <=> Occurs(y, rest) \/ y = Invalid
        /\ \A y : AtMostOnce(y, rest) /\ ~(y = Invalid /\ Occurs(y, rest)) => AtMostOnce(y, ready')
    BY <2>0, Pushed
  <2>3. /\ Tail(ready) \in Seq(Callbacks) /\ Append(Tail(ready), Invalid) = Tail(ready) \o <<Invalid>>
        /\ \A y : Occurs(y, ready') <=> Occurs(y, Tail(ready)) \/ y = Invalid
        /\ \A y : AtMostOnce(y, Tail(ready)) /\ ~(y = Invalid /\ Occurs(y, Tail(ready)))
                    => AtMostOnce(y, ready')
    BY <2>0, <2>9 DEF rest
  <2>4. Invalid # Read /\ Invalid \in Callbacks
    BY SocketCallbacks DEF Invalid, Read, Callback
  <2>5. OneEnding'
    BY <1>1, <1>2, <2>2, <2>3, <2>4 DEF OneEnding, InFlight, Queued, Follows, Turns
  <2>6. ASSUME NEW t \in TimerIds PROVE Before(Read, Due(t), ready')
    <3>1. Read # Due(t) /\ Before(Read, Due(t), Tail(ready))
      BY <1>2, CallbackFacts DEF Follows, Turns
    <3> QED
      BY <2>2, <2>3, <2>4, <3>1, BeforePush
  <2>7. \A c \in Callers : Before(Wake(c), Read, ready')
    BY <1>1, <2>3, <2>4, BeforeNothing
  <2>8. ReadInTurn'
    BY <1>1, <1>2, <2>3, <2>4, <2>6, <2>7 DEF ReadInTurn, Follows, Turns
  <2> QED
    BY <2>2, <2>5, <2>8 DEF TimerInv
<1>7. CASE ReceiveError(d)
  BY <1>0, <1>7, OrderlyDatagrams DEF ReceiveError
<1> QED
  BY <1>3, <1>4, <1>5, <1>6, <1>7

LEMMA TimerStepCallback ==
    ASSUME TypeOK, LockInv, LinkInv, AnswerComes, AnswerInv, Orderly, TimerInv, RunCallback
    PROVE  TimerInv'
<1>1. /\ Follows(Tail(ready), ready) /\ Follows(Tail(ready), Tail(ready))
      /\ ready \in Seq(Callbacks) /\ ready # <<>>
  BY FollowsTail, RunFacts DEF TypeOK
<1>2. ASSUME NEW c \in Callers, WakeAcquired(c) \/ WakeAwaited(c) PROVE TimerInv'
  <2>1. /\ UNCHANGED <<timer, armed, owner, fut, net>> /\ ready' = Tail(ready)
        /\ \A d \in Callers : pc'[d] = "awaiting" => pc[d] = "awaiting"
    BY <1>2 DEF WakeAcquired, WakeAwaited, linkVars, exchange, timerVars, TypeOK
  <2> QED
    BY <1>1, <2>1, TimerKept
<1>3. ASSUME NEW c \in Callers, ConnectionMade(c) PROVE TimerInv'
  <2>1. /\ UNCHANGED <<timer, armed, owner, fut, pc>> /\ net' = NoDatagrams
        /\ ready' = Append(Tail(ready), Wake(c)) /\ Head(ready) = Made(c)
    BY <1>3 DEF ConnectionMade, Runs, callerVars, exchange, timerVars
  <2>2. ~WaitOver(c)
    BY <2>1, RunFacts DEF LockInv, WakeOnce, WaitOver
  <2>3. /\ Wake(c) \in Callbacks /\ Wake(c) \notin {Invalid, Read}
        /\ \A d \in Callers : Wake(c) = Wake(d) => c = d
    BY CallbackFacts
  <2>4. Follows(ready', ready)
    BY <1>1, <2>1, <2>2, <2>3, FollowsPush
  <2> QED
    BY <2>1, <2>4, TimerKept
<1>4. CASE ConnectionLost
  <2>1. /\ UNCHANGED <<timer, armed, owner, fut, pc>> /\ net' = NoDatagrams
        /\ ready' = Tail(ready) \o LostIfOpen \o WakeOwner
    BY <1>4, LostFindsNothing DEF ConnectionLost, HangUp, callerVars, timerVars
  <2>2. Follows(ready', ready)
    BY <1>1, <2>1, FollowsPieces
  <2> QED
    BY <2>1, <2>2, TimerKept
<1>5. ASSUME NEW t \in TimerIds, TimerExpired(t) PROVE TimerInv'
  <2>1. /\ Head(ready) = Due(t) /\ t \in armed /\ armed' = armed \ {t} /\ net' = net
        /\ ready' = Tail(ready) \o WakeOwner
    BY <1>5 DEF TimerExpired, TimeoutMechanism, Runs, linkVars
  <2>2. armed' = {} /\ ~Queued(Invalid) /\ GarbageAlone'
    BY <2>1 DEF TimerInv, OneEnding, GarbageAlone
  <2>3. ~Queued(Read)
    BY <1>1, <2>1, BeforeHead DEF TimerInv, ReadInTurn, Queued
  <2> QED
    BY <2>1, <2>2, <2>3, RunFacts, TimerEnds
<1>6. CASE InvalidHandled
  <2>1. /\ Head(ready) = Invalid /\ armed' = armed /\ net' = net
        /\ ready' = Tail(ready) \o WakeOwner
    BY <1>6 DEF InvalidHandled, TimeoutMechanism, Runs, linkVars
  <2>2. armed' = {} /\ ~Queued(Read) /\ GarbageAlone' /\ ~Occurs(Invalid, Tail(ready))
    BY <2>1, RunFacts DEF TimerInv, OneEnding, GarbageAlone
  <2> QED
    BY <2>1, <2>2, RunFacts, TimerEnds
<1>7. CASE SkipCancelled
  BY <1>1, <1>7, TimerKept DEF SkipCancelled, callerVars, linkVars, exchange, timerVars
<1> QED
  BY <1>2, <1>3, <1>4, <1>5, <1>6, <1>7, TimerStepReceive DEF RunCallback

LEMMA TimerStepSelect ==
    ASSUME TypeOK, LockInv, TimerInv, Select
    PROVE  TimerInv'
<1>1. /\ Follows(Tail(ready), ready) /\ Follows(ready, ready) /\ ready \in Seq(Callbacks)
      /\ Poll \in Callbacks /\ Poll \notin {Invalid, Read} /\ \A c \in Callers : Poll # Wake(c)
  BY FollowsTail, FollowsReady, CallbackFacts, SocketCallbacks DEF TypeOK
<1>2. UNCHANGED <<pc, timer, armed, owner, fut, net>>
  BY DEF Select, PollReadable, PollTimer, PollEnds, callerVars, linkVars, exchange, timerVars
<1>3. CASE PollEnds
  BY <1>1, <1>2, <1>3, FollowsPush, TimerKept DEF PollEnds
<1>4. ASSUME NEW t \in TimerIds, PollTimer(t) PROVE TimerInv'
  <2>1. Due(t) \in Callbacks /\ Due(t) \notin {Invalid, Read} /\ \A c \in Callers : Due(t) # Wake(c)
    BY CallbackFacts
  <2>2. Follows(ready', ready)
    BY <1>1, <1>4, <2>1, FollowsPush DEF PollTimer
  <2> QED
    BY <1>2, <2>2, TimerKept
<1>5. CASE PollReadable
  <2>1. /\ ready' = Append(ready, Read) /\ net # NoDatagrams
        /\ ready # <<>> /\ Head(ready) = Poll /\ PolledEvents = {}
    BY <1>5, RunFacts DEF PollReadable, Polls, NoDatagrams
  <2>2. \A i \in DOMAIN ready : ready[i].do \notin {"read", "timer"}
    BY <1>1, <2>1, HeadTailProperties DEF PolledEvents
  <2>3. ~Queued(Read) /\ \A t \in TimerIds : ~Queued(Due(t))
    BY <2>2 DEF Queued, Occurs, Read, Due, Callback
  <2>4. ~Queued(Invalid)
    BY <2>1 DEF TimerInv, OneEnding
  <2>0. Read # Invalid
    BY DEF Read, Invalid, Callback
  <2>5. /\ Read \in Callbacks /\ Read # Invalid /\ Append(ready, Read) = ready \o <<Read>>
        /\ \A y : Occurs(y, ready') <=> Occurs(y, ready) \/ y = Read
        /\ \A y : AtMostOnce(y, ready) /\ ~(y = Read /\ Occurs(y, ready)) => AtMostOnce(y, ready')
    BY <1>1, <2>0, <2>1, Pushed, SocketCallbacks
  <2>6. OneEnding'
    BY <1>1, <1>2, <2>3, <2>4, <2>5 DEF TimerInv, OneEnding, InFlight, Queued
  <2>7. \A t \in TimerIds : Before(Read, Due(t), ready')
    BY <2>3, <2>5, BeforeNothing, CallbackFacts DEF Queued
  <2>8. ASSUME NEW c \in Callers, WaitOver(c) PROVE Before(Wake(c), Read, ready')
    <3>1. Wake(c) # Read /\ Before(Wake(c), Read, ready)
      BY <2>8, CallbackFacts DEF TimerInv, ReadInTurn, WaitOver
    <3> QED
      BY <1>1, <2>1, <2>5, <3>1, BeforePush
  <2>9. ReadInTurn'
    BY <1>2, <2>3, <2>5, <2>7, <2>8 DEF TimerInv, ReadInTurn, Queued, WaitOver
  <2> QED
    BY <1>2, <2>6, <2>9 DEF TimerInv, GarbageAlone
<1> QED
  BY <1>3, <1>4, <1>5 DEF Select

LEMMA TimerStepSend ==
    ASSUME TypeOK, LockInv, AnswerInv, Orderly, TimerInv,
           NEW c \in Callers, NEW r \in Reactions, Send(c, r)
    PROVE  TimerInv'
<1>1. /\ pc[c] = "send" /\ pc' = [pc EXCEPT ![c] = "awaiting"] /\ fut' = [fut EXCEPT ![c] = Pending]
      /\ owner' = c /\ armed' = armed \cup {timer'} /\ ready' = ready
  BY DEF Send, ArmTimer
<1>2. ~InFlight
  <2>1. InFlight => owner \in Callers /\ pc[owner] = "awaiting"
    BY PieceFacts DEF LockInv, FutureBelongsToWaiter, InFlight
  <2>2. InFlight => owner = c
    BY <1>1, <2>1, HolderAlone DEF Holds
  <2> QED
    BY <1>1, <2>1, <2>2
<1>3. armed' = {timer'} /\ ~Queued(Invalid) /\ InFlight'
  BY <1>1, <1>2, ConstantsAssumption DEF TimerInv, OneEnding, InFlight, TypeOK
<1>4. OneEnding'
  BY <1>1, <1>3 DEF TimerInv, OneEnding, Queued
<1>5. GarbageAlone'
  <2>1. net = NoDatagrams /\ net' = [d \in Datagrams |->
                 IF d.cmd = request[c] THEN net[d] + r[d.kind] ELSE net[d]]
    BY <1>1 DEF Send, AnswerInv, FreshSocket, Orderly
  <2>2. /\ r \in [Kinds -> Nat] /\ r["second"] = 0 /\ r["refused"] = 0
        /\ r["garbage"] > 0 => r = [kind \in Kinds |-> IF kind = "garbage" THEN 1 ELSE 0]
    BY ConstantsAssumption DEF Orderly
  <2>3. \A d \in Datagrams : d.kind \in Kinds /\ r[d.kind] \in Nat
    BY <2>2 DEF Datagrams
  <2>4. \A d \in Datagrams : net'[d] = IF d.cmd = request[c] THEN r[d.kind] ELSE 0
    BY <2>1, <2>3 DEF NoDatagrams
  <2>5. ASSUME NEW d \in Datagrams, net'[d] > 0, d.kind = "garbage"
        PROVE  net' = [NoDatagrams EXCEPT ![d] = 1]
    <3>1. d.cmd = request[c] /\ r["garbage"] > 0
      BY <2>4, <2>5
    <3>2. \A e \in Datagrams : r[e.kind] = IF e.kind = "garbage" THEN 1 ELSE 0
      BY <2>2, <2>3, <3>1
    <3>3. \A e \in Datagrams : e.kind = "garbage" /\ e.cmd = request[c] => e = d
      BY <2>5, <3>1 DEF Datagrams
    <3>4. \A e \in Datagrams : net'[e] = IF e = d THEN 1 ELSE 0
      BY <2>4, <2>5, <3>1, <3>2, <3>3
    <3> QED
      BY <2>1, <3>4 DEF NoDatagrams
  <2>6. \A d \in Datagrams : net'[d] > 0 => d.kind \notin {"second", "refused"}
    BY <2>2, <2>4
  <2> QED
    BY <2>5, <2>6 DEF GarbageAlone
<1>6. ReadInTurn'
  <2>1. \A d \in Callers : pc'[d] = "awaiting" /\ fut'[d] # Pending
                             => pc[d] = "awaiting" /\ fut[d] # Pending
    BY <1>1 DEF TypeOK
  <2> QED
    BY <1>1, <2>1 DEF TimerInv, ReadInTurn
<1> QED
  BY <1>4, <1>5, <1>6 DEF TimerInv

LEMMA TimerStepLeave ==
    ASSUME TypeOK, LockInv, TimerInv, NEW c \in Callers,
           Return(c) \/ Retry(c) \/ RecursionLimit(c) \/ MaxRetriesReached(c)
    PROVE  TimerInv'
<1>1. pc[c] = "resumed" /\ armed' = armed /\ (net' = net \/ net' = NoDatagrams)
      /\ pc' \in {[pc EXCEPT ![c] = "idle"], [pc EXCEPT ![c] = "acquire"]}
  BY DEF Return, Retry, Nested, TimedOut, RecursionLimit, MaxRetriesReached, GiveUp,
         ReleaseAndDrop, HangUp, linkVars, timerVars
<1>2. ~InFlight /\ armed' = {} /\ ~Queued(Invalid)
  BY <1>1, ResumedAlone DEF TimerInv, OneEnding
<1>3. \A d \in Callers : pc'[d] # "awaiting"
  BY <1>1, HolderAlone DEF Holds, TypeOK
<1>4. GarbageAlone'
  BY <1>1 DEF TimerInv, GarbageAlone, NoDatagrams
<1>5. Follows(ready, ready) /\ Follows(ready \o WakeNext, ready)
  BY FollowsReady, FollowsPieces
<1>6. /\ Follows(ready \o WakeNext \o LostIfOpen \o WakeOwner, ready)
      /\ Follows(ready \o LostIfOpen \o WakeOwner \o WakeNext, ready)
  BY <1>5, FollowsPieces
<1>7. Follows(ready', ready)
  BY <1>5, <1>6 DEF Return, Retry, Nested, RecursionLimit, MaxRetriesReached, ReleaseAndDrop
<1> QED
  BY <1>2, <1>3, <1>4, <1>7, TimerOver DEF Queued

LEMMA TimerStep ==
    ASSUME TypeOK, LockInv, LinkInv, AnswerComes, AnswerInv, Orderly, TimerInv, [Next]_vars
    PROVE  TimerInv'
<1>0. Follows(ready, ready)
  BY FollowsReady
<1>1. ASSUME NEW c \in Callers, NEW k \in Commands, Call(c, k) PROVE TimerInv'
  <2>1. /\ UNCHANGED <<timer, armed, owner, fut, net, ready>>
        /\ \A d \in Callers : pc'[d] = "awaiting" => pc[d] = "awaiting"
    BY <1>1 DEF Call, linkVars, exchange, timerVars, TypeOK
  <2> QED
    BY <1>0, <2>1, TimerKept
<1>2. ASSUME NEW c \in Callers, AcquireFree(c) \/ AcquireWait(c) PROVE TimerInv'
  <2>1. /\ UNCHANGED <<timer, armed, owner, fut, net, ready>>
        /\ \A d \in Callers : pc'[d] = "awaiting" => pc[d] = "awaiting"
    BY <1>2 DEF AcquireFree, TakeLock, AcquireWait, linkVars, exchange, timerVars, TypeOK
  <2> QED
    BY <1>0, <2>1, TimerKept
<1>3. ASSUME NEW c \in Callers, Connect(c) PROVE TimerInv'
  <2>1. /\ UNCHANGED <<timer, armed, owner, fut, net>>
        /\ ready' = ready \/ ready' = Append(ready, Made(c))
        /\ \A d \in Callers : pc'[d] = "awaiting" => pc[d] = "awaiting"
    BY <1>3 DEF Connect, linkVars, exchange, timerVars, TypeOK
  <2>2. Made(c) \in Callbacks /\ Made(c) \notin {Invalid, Read} /\ \A d \in Callers : Made(c) # Wake(d)
    BY CallbackFacts
  <2>3. Follows(ready', ready)
    BY <1>0, <2>1, <2>2, FollowsPush
  <2> QED
    BY <2>1, <2>3, TimerKept
<1>4. ASSUME NEW c \in Callers, Coroutine(c) PROVE TimerInv'
  BY <1>2, <1>3, <1>4, TimerStepSend, TimerStepLeave
     DEF Coroutine, ConnectFails, SendFails, Orderly
<1>5. CASE UNCHANGED vars
  BY <1>0, <1>5, TimerKept DEF vars, callerVars, linkVars, exchange, timerVars
<1> QED
  BY <1>1, <1>4, <1>5, TimerStepCallback, TimerStepSelect DEF Next, Loop, AllReturned

LEMMA InitTimer == Init => TimerInv
<1> SUFFICES ASSUME Init PROVE TimerInv
  OBVIOUS
<1>1. /\ ready = <<Poll>> /\ armed = {} /\ net = NoDatagrams /\ \A c \in Callers : pc[c] = "idle"
      /\ Poll \notin {Read, Invalid}
  BY CallbackFacts DEF Init
<1>2. /\ \A x : Occurs(x, ready) <=> x = Poll
      /\ \A x : AtMostOnce(x, ready)
  BY <1>1, ShortFacts
<1>3. OneEnding
  BY <1>1, <1>2 DEF OneEnding, Queued
<1>4. GarbageAlone
  BY <1>1 DEF GarbageAlone, NoDatagrams
<1>5. ReadInTurn
  BY <1>1, <1>2, BeforeNothing DEF ReadInTurn
<1> QED
  BY <1>3, <1>4, <1>5 DEF TimerInv

\* Where each attempt has a socket that does not fail, the invariant of the timers is
\* inductive on top of those of the lock, the socket, the waits and the answers.
LEMMA TimerInvariance ==
    ASSUME Orderly
    PROVE  Spec => [](TypeOK /\ LockInv /\ LinkInv /\ AnswerComes /\ AnswerInv /\ TimerInv)
<1>1. Init => TimerInv
  BY InitTimer
<1>2. TypeOK /\ LockInv /\ LinkInv /\ AnswerComes /\ AnswerInv /\ TimerInv /\ [Next]_vars => TimerInv'
  BY TimerStep
<1> QED
  BY <1>1, <1>2, ExchangeInvariance, PTL DEF Spec

-----------------------------------------------------------------------------
(* The timers, accounted for. *)

\* Exchanging one element, or adding one.
LEMMA CountFacts ==
    ASSUME NEW S, NEW T, IsFiniteSet(S)
    PROVE  /\ T \subseteq S => Cardinality(T) <= Cardinality(S)
           /\ \A y : T \subseteq S \cup {y} => Cardinality(T) <= Cardinality(S) + 1
           /\ \A x \in S : \A y : T \subseteq (S \ {x}) \cup {y} => Cardinality(T) <= Cardinality(S)
           /\ Cardinality(S) \in Nat
<1>1. ASSUME NEW U, IsFiniteSet(U), T \subseteq U
      PROVE  Cardinality(T) <= Cardinality(U) /\ Cardinality(T) \in Nat /\ Cardinality(U) \in Nat
  <2>1. IsFiniteSet(T) /\ Cardinality(T) <= Cardinality(U)
    BY <1>1, FS_Subset
  <2> QED
    BY <1>1, <2>1, FS_CardinalityType
<1>2. ASSUME NEW U, IsFiniteSet(U), NEW y
      PROVE  IsFiniteSet(U \cup {y}) /\ Cardinality(U \cup {y}) <= Cardinality(U) + 1
             /\ Cardinality(U) \in Nat /\ Cardinality(U \cup {y}) \in Nat
  <2>1. /\ IsFiniteSet(U \cup {y})
        /\ Cardinality(U \cup {y}) = IF y \in U THEN Cardinality(U) ELSE Cardinality(U) + 1
    BY <1>2, FS_AddElement
  <2>2. Cardinality(U) \in Nat /\ Cardinality(U \cup {y}) \in Nat
    BY <1>2, <2>1, FS_CardinalityType
  <2> QED
    BY <2>1, <2>2
<1>3. ASSUME NEW y, T \subseteq S \cup {y} PROVE Cardinality(T) <= Cardinality(S) + 1
  <2>1. IsFiniteSet(S \cup {y}) /\ Cardinality(S \cup {y}) <= Cardinality(S) + 1
        /\ Cardinality(S) \in Nat
    BY <1>2
  <2>2. /\ Cardinality(T) <= Cardinality(S \cup {y}) /\ Cardinality(T) \in Nat
        /\ Cardinality(S \cup {y}) \in Nat
    BY <1>1, <1>3, <2>1
  <2> QED
    BY <2>1, <2>2
<1>4. ASSUME NEW x \in S, NEW y, T \subseteq (S \ {x}) \cup {y} PROVE Cardinality(T) <= Cardinality(S)
  <2> DEFINE R == S \ {x}
  <2>1. IsFiniteSet(R) /\ Cardinality(R) = Cardinality(S) - 1
    BY FS_RemoveElement
  <2>2. Cardinality(S) \in Nat
    BY FS_CardinalityType
  <2> HIDE DEF R
  <2>3. IsFiniteSet(R \cup {y}) /\ Cardinality(R \cup {y}) <= Cardinality(R) + 1
    BY <1>2, <2>1
  <2>4. /\ Cardinality(T) <= Cardinality(R \cup {y}) /\ Cardinality(T) \in Nat
        /\ Cardinality(R \cup {y}) \in Nat
    BY <1>1, <1>4, <2>3 DEF R
  <2> QED
    BY <2>1, <2>2, <2>3, <2>4
<1>5. Cardinality(S) \in Nat
  BY FS_CardinalityType
<1> QED
  BY <1>1, <1>3, <1>4, <1>5

\* What one step may do to the stray handles.
NoStrayMore     == Stray' \subseteq Stray
StrayLeft       == Disturbs /\ \E y : Stray' \subseteq Stray \cup {y}
StrayExchanged  == \E x \in Stray : \E y : Stray' \subseteq (Stray \ {x}) \cup {y}

\* A step that neither arms, cancels nor completes anything.
LEMMA StrayKept ==
    ASSUME UNCHANGED <<armed, timer, owner, fut>>
    PROVE  NoStrayMore
  BY DEF NoStrayMore, Stray, InFlight

\* A step after which no request is in flight.
LEMMA StrayOver ==
    ASSUME TypeOK, \A c \in Callers : fut'[c] # Pending, owner' \in Callers \cup {None}
    PROVE  ~InFlight' /\ Stray' = armed'
  BY DEF Stray, InFlight

LEMMA StrayStepCoroutine ==
    ASSUME TypeOK, LockInv, NEW c \in Callers, Coroutine(c)
    PROVE  NoStrayMore \/ StrayLeft
<1>1. CASE AcquireFree(c) \/ AcquireWait(c) \/ Connect(c)
  BY <1>1, StrayKept DEF AcquireFree, TakeLock, AcquireWait, Connect, exchange, timerVars
<1>2. ASSUME Holds(c), pc[c] # "awaiting"
      PROVE  /\ \A d \in Callers : fut[d] # Pending
             /\ ~InFlight /\ Stray = armed /\ Settle(Cancelled) = fut
  <2>1. \A d \in Callers : fut[d] # Pending
    BY <1>2, HolderAlone DEF LockInv, FutureBelongsToWaiter
  <2>2. ~InFlight
    BY <2>1 DEF InFlight, TypeOK
  <2> QED
    BY <2>1, <2>2 DEF Stray, Settle
<1>3. CASE ConnectFails(c)
  <2>1. armed' = armed /\ owner' = owner /\ fut' = [fut EXCEPT ![c] = Error] /\ pc[c] = "connect"
    BY <1>3 DEF ConnectFails, timerVars
  <2>2. \A d \in Callers : fut'[d] # Pending
    BY <1>2, <2>1, FutureValues DEF Holds, TypeOK
  <2> QED
    BY <1>2, <2>1, <2>2, StrayOver DEF NoStrayMore, Holds, TypeOK
<1>4. CASE \E r \in Reactions : Send(c, r)
  <2>1. /\ pc[c] = "send" /\ owner' = c /\ fut'[c] = Pending /\ armed' = armed \cup {timer'}
    BY <1>4 DEF Send, ArmTimer, TypeOK
  <2>2. InFlight' /\ Stray' = armed' \ {timer'}
    BY <2>1, ConstantsAssumption DEF InFlight, Stray
  <2> QED
    BY <1>2, <2>1, <2>2 DEF NoStrayMore, Holds
<1>5. CASE SendFails(c)
  <2>1. /\ pc[c] = "send" /\ owner' = c /\ fut' = [fut EXCEPT ![c] = Error]
        /\ armed' = armed \cup {timer'}
    BY <1>5 DEF SendFails, ArmTimer
  <2>2. \A d \in Callers : fut'[d] # Pending
    BY <1>2, <2>1, FutureValues DEF Holds, TypeOK
  <2>3. Stray' = armed'
    BY <2>1, <2>2, StrayOver
  <2> QED
    BY <1>2, <1>5, <2>1, <2>3 DEF StrayLeft, Disturbs, Holds
<1>6. CASE Return(c) \/ Retry(c) \/ RecursionLimit(c) \/ MaxRetriesReached(c)
  <2>1. pc[c] = "resumed" /\ armed' = armed /\ owner' \in {owner, c}
    BY <1>6 DEF Return, Retry, Nested, TimedOut, RecursionLimit, MaxRetriesReached, GiveUp, timerVars
  <2>2. fut' \in {fut, [fut EXCEPT ![c] = Exhausted]}
    BY <1>2, <1>6, <2>1
       DEF Return, Retry, Nested, TimedOut, RecursionLimit, MaxRetriesReached, GiveUp,
           ReleaseAndDrop, Holds
  <2>3. \A d \in Callers : fut'[d] # Pending
    BY <1>2, <2>1, <2>2, FutureValues DEF Holds, TypeOK
  <2> QED
    BY <1>2, <2>1, <2>3, StrayOver DEF NoStrayMore, Holds, TypeOK
<1> QED
  BY <1>1, <1>3, <1>4, <1>5, <1>6 DEF Coroutine

LEMMA StrayStepReceive ==
    ASSUME TypeOK, LockInv, NEW d \in Datagrams,
           \/ ReceiveAnswer(d) \/ ReceivePartial(d) \/ ReceiveReject(d)
           \/ ReceiveInvalid(d) \/ ReceiveError(d)
    PROVE  NoStrayMore \/ StrayLeft
<1>1. owner' = owner
  BY DEF ReceiveAnswer, ReceivePartial, ReceiveReject, ReceiveInvalid, ReceiveError, Receive
<1>2. Stray \subseteq armed /\ armed \ {timer} \subseteq Stray
  BY DEF Stray
<1>3. ASSUME NEW v, v # Pending, fut' = Settle(v) PROVE Stray' = armed'
  <2>1. \A c \in Callers : fut'[c] # Pending
    BY <1>3, SettledAll
  <2> QED
    BY <1>1, <2>1, StrayOver DEF TypeOK
<1>4. CASE ReceiveAnswer(d) \/ ReceiveReject(d)
  BY <1>2, <1>3, <1>4, FutureValues
     DEF ReceiveAnswer, ReceiveReject, StopTimer, NoStrayMore, Answer, Pending, Rejected
<1>5. CASE ReceivePartial(d)
  <2>1. armed' = (armed \ {timer}) \cup {timer'} /\ fut' = fut
    BY <1>5 DEF ReceivePartial, ArmTimer
  <2>2. InFlight' <=> InFlight
    BY <1>1, <2>1 DEF InFlight
  <2>3. CASE InFlight
    BY <1>2, <2>1, <2>2, <2>3 DEF NoStrayMore, Stray
  <2>4. CASE ~InFlight
    BY <1>5, <2>1, <2>2, <2>4 DEF StrayLeft, Disturbs, Stray
  <2> QED
    BY <2>3, <2>4
<1>6. CASE ReceiveInvalid(d)
  <2>1. armed' = armed \ {timer} /\ fut' = fut
    BY <1>6 DEF ReceiveInvalid, StopTimer
  <2> QED
    BY <1>2, <2>1 DEF NoStrayMore, Stray
<1>7. CASE ReceiveError(d)
  <2>1. CASE InFlight
    <3>1. armed' = armed /\ Stray' = armed'
      BY <1>3, <1>7, <2>1 DEF ReceiveError, timerVars, Error, Pending
    <3> QED
      BY <1>2, <1>7, <2>1, <3>1 DEF StrayLeft, Disturbs
  <2>2. CASE ~InFlight
    BY <1>1, <1>7, <2>2, StrayKept DEF ReceiveError, timerVars
  <2> QED
    BY <2>1, <2>2
<1> QED
  BY <1>4, <1>5, <1>6, <1>7

LEMMA StrayStepCallback ==
    ASSUME TypeOK, LockInv, LinkInv, RunCallback
    PROVE  NoStrayMore \/ StrayLeft \/ StrayExchanged
<1>1. ASSUME NEW c \in Callers, WakeAcquired(c) \/ WakeAwaited(c) \/ ConnectionMade(c)
      PROVE  NoStrayMore
  BY <1>1, StrayKept DEF WakeAcquired, WakeAwaited, ConnectionMade, exchange, timerVars
<1>2. CASE ConnectionLost
  BY <1>2, LostFindsNothing, StrayKept DEF ConnectionLost, timerVars
<1>3. CASE SkipCancelled
  BY <1>3, StrayKept DEF SkipCancelled, exchange, timerVars
<1>4. ASSUME TimeoutMechanism PROVE Stray' = armed'
  <2>1. owner' = owner /\ fut' = Settle(Cancelled)
    BY <1>4 DEF TimeoutMechanism
  <2>2. \A c \in Callers : fut'[c] # Pending
    BY <2>1, SettledAll DEF Cancelled, Pending
  <2> QED
    BY <2>1, <2>2, StrayOver DEF TypeOK
<1>5. ASSUME NEW t \in TimerIds, TimerExpired(t) PROVE NoStrayMore \/ StrayExchanged
  <2>1. t \in armed /\ Stray' = armed \ {t}
    BY <1>4, <1>5 DEF TimerExpired
  <2>2. CASE InFlight /\ t # timer
    <3>1. t \in Stray /\ Stray' \subseteq (Stray \ {t}) \cup {timer}
      BY <2>1, <2>2 DEF Stray
    <3> QED
      BY <3>1 DEF StrayExchanged
  <2>3. CASE ~InFlight \/ t = timer
    BY <2>1, <2>3 DEF NoStrayMore, Stray
  <2> QED
    BY <2>2, <2>3
<1>6. CASE InvalidHandled
  <2>1. Stray' = armed
    BY <1>4, <1>6 DEF InvalidHandled
  <2>2. CASE InFlight /\ armed # {}
    BY <1>6, <2>1, <2>2 DEF StrayLeft, Disturbs, Stray
  <2>3. CASE ~InFlight \/ armed = {}
    BY <2>1, <2>3 DEF NoStrayMore, Stray
  <2> QED
    BY <2>2, <2>3
<1> QED
  BY <1>1, <1>2, <1>3, <1>5, <1>6, StrayStepReceive DEF RunCallback

LEMMA StrayStep ==
    ASSUME TypeOK, LockInv, LinkInv, [Next]_vars
    PROVE  NoStrayMore \/ StrayLeft \/ StrayExchanged
<1>1. ASSUME NEW c \in Callers, NEW k \in Commands, Call(c, k) PROVE NoStrayMore
  BY <1>1, StrayKept DEF Call, exchange, timerVars
<1>2. CASE Select
  BY <1>2, StrayKept DEF Select, PollReadable, PollTimer, PollEnds, exchange, timerVars
<1>3. CASE UNCHANGED vars
  BY <1>3, StrayKept DEF vars, exchange, timerVars
<1> QED
  BY <1>1, <1>2, <1>3, StrayStepCoroutine, StrayStepCallback DEF Next, Loop, AllReturned

Accounted == disturbances \in Nat /\ TimersAccounted

LEMMA TimersFinite == IsFiniteSet(TimerIds)
  BY ConstantsAssumption, FS_Interval DEF TimerIds

LEMMA StraysAreFinite ==
    ASSUME TypeOK
    PROVE  IsFiniteSet(Stray)
<1>1. Stray \in SUBSET TimerIds
  BY DEF TypeOK, Stray
<1> QED
  BY <1>1, TimersFinite, FS_Subset

LEMMA AccountedStep ==
    ASSUME TypeOK, LockInv, LinkInv, Accounted, [HistoryNext]_<<vars, disturbances>>
    PROVE  Accounted'
<1>1. [Next]_vars
  BY DEF HistoryNext
<1>2. /\ disturbances' \in Nat /\ disturbances' >= disturbances
      /\ HistoryNext /\ Disturbs => disturbances' = disturbances + 1
  BY DEF HistoryNext, Accounted
<1>3. \/ NoStrayMore \/ StrayExchanged
      \/ HistoryNext /\ StrayLeft
  <2>1. CASE HistoryNext
    BY <1>1, <2>1, StrayStep
  <2>2. CASE UNCHANGED <<vars, disturbances>>
    BY <2>2, StrayKept DEF vars, exchange, timerVars
  <2> QED
    BY <2>1, <2>2
<1>4. IsFiniteSet(Stray) /\ IsFiniteSet(Stray')
  <2>1. TypeOK'
    BY <1>1, TypeStep
  <2>2. Stray' \in SUBSET TimerIds
    BY <2>1 DEF TypeOK, Stray
  <2> QED
    BY <2>2, TimersFinite, StraysAreFinite, FS_Subset
<1>5. Cardinality(Stray) \in Nat /\ Cardinality(Stray') \in Nat
  BY <1>4, CountFacts
<1>6. \/ Cardinality(Stray') <= Cardinality(Stray)
      \/ HistoryNext /\ Disturbs /\ Cardinality(Stray') <= Cardinality(Stray) + 1
  BY <1>3, <1>4, CountFacts DEF NoStrayMore, StrayLeft, StrayExchanged
<1>7. Cardinality(Stray') <= disturbances'
  BY <1>2, <1>5, <1>6 DEF Accounted, TimersAccounted
<1> QED
  BY <1>2, <1>7 DEF Accounted, TimersAccounted

LEMMA HistoryRefines == HistorySpec => Spec
<1>1. HistoryInit => Init
  BY DEF HistoryInit
<1>2. [HistoryNext]_<<vars, disturbances>> => [Next]_vars
  BY DEF HistoryNext
<1> QED
  BY <1>1, <1>2, PTL DEF HistorySpec, Spec

\* A handle left armed stems from an error, a late fragment or a doubled invalid
\* answer, and each of those leaves at most one, on whatever socket and however
\* many requests the strays cut off (protocol.py:145-176, 213-226).
THEOREM TimersAreAccounted == HistorySpec => []TimersAccounted
<1>1. HistoryInit => Accounted
  <2> SUFFICES ASSUME HistoryInit PROVE Accounted
    OBVIOUS
  <2>1. Stray = {} /\ disturbances = 0
    BY DEF HistoryInit, Init, Stray
  <2> QED
    BY <2>1, FS_EmptySet DEF Accounted, TimersAccounted
<1>2. TypeOK /\ LockInv /\ LinkInv /\ Accounted /\ [HistoryNext]_<<vars, disturbances>>
        => Accounted'
  BY AccountedStep
<1> QED
  BY <1>1, <1>2, HistoryRefines, ExchangeInvariance, PTL DEF HistorySpec, Accounted

\* Until a disturbance the timer that fires is the one armed for the request in
\* flight; the others have been cancelled or have run (protocol.py:145-147, 217-226).
THEOREM TimersFireForTheirOwn == HistorySpec => OnlyOwnTimerFires
<1>1. ASSUME TypeOK, TimersAccounted, NEW t \in TimerIds, TimerExpired(t), disturbances = 0
      PROVE  InFlight /\ t = timer
  <2>1. Cardinality(Stray) \in Nat /\ IsFiniteSet(Stray)
    BY <1>1, StraysAreFinite, FS_CardinalityType
  <2>2. Stray = {}
    BY <1>1, <2>1, FS_EmptySet DEF TimersAccounted
  <2> QED
    BY <1>1, <2>2 DEF Stray, TimerExpired
<1>2. TypeOK /\ TimersAccounted =>
        [\A t \in TimerIds : TimerExpired(t) /\ disturbances = 0 => InFlight /\ t = timer]_<<vars, disturbances>>
  BY <1>1
<1> QED
  BY <1>2, TimersAreAccounted, HistoryRefines, TypeCorrect, PTL DEF OnlyOwnTimerFires

-----------------------------------------------------------------------------
(* Attempts. *)

\* A step that counts no attempt and no retry, and answers at most the future in flight.
LEMMA RetryKept ==
    ASSUME TypeOK, RetryInv, UNCHANGED <<frames, retry>>,
           \A c \in Callers : pc'[c] # "idle" => pc[c] # "idle",
           \A c \in Callers : Answered(c) /\ pc'[c] # "idle" => Answered(c)'
    PROVE  RetryInv'
  BY DEF RetryInv

\* Completing the future in flight un-answers nobody.
LEMMA SettledAnswers ==
    ASSUME TypeOK, RetryInv, NEW v, fut' = Settle(v), UNCHANGED <<pc, frames, retry>>
    PROVE  RetryInv'
<1>1. \A c \in Callers : fut[c] # Pending => fut'[c] = fut[c]
  BY DEF Settle, InFlight, TypeOK
<1>2. \A c \in Callers : Answered(c) => Answered(c)'
  BY <1>1 DEF Answered
<1> QED
  BY <1>2, RetryKept

LEMMA RetryStepCoroutine ==
    ASSUME TypeOK, LockInv, Orderly, RetryInv, NEW c \in Callers, Coroutine(c)
    PROVE  RetryInv'
<1>0. /\ MaxRetries \in Nat /\ retry \in Nat /\ frames \in [Callers -> Nat] /\ pc \in [Callers -> PCs]
      /\ fut \in [Callers -> Futures]
  BY ConstantsAssumption DEF TypeOK
<1>1. ASSUME UNCHANGED <<frames, retry, fut>>, pc[c] \notin {"idle", "awaiting", "resumed"},
             NEW p \in PCs, pc' = [pc EXCEPT ![c] = p]
      PROVE  RetryInv'
  BY <1>0, <1>1, RetryKept DEF Answered
<1>2. CASE AcquireFree(c) \/ AcquireWait(c) \/ Connect(c)
  BY <1>1, <1>2 DEF AcquireFree, TakeLock, AcquireWait, Connect, exchange, PCs, Synchronous
<1>3. ASSUME NEW r \in Reactions, Send(c, r) PROVE RetryInv'
  <2>1. /\ UNCHANGED <<frames, retry>> /\ pc[c] = "send" /\ pc' = [pc EXCEPT ![c] = "awaiting"]
        /\ fut' = [fut EXCEPT ![c] = Pending]
    BY <1>3 DEF Send
  <2>2. \A d \in Callers : Answered(d) => Answered(d)'
    BY <1>0, <2>1 DEF Answered
  <2> QED
    BY <1>0, <2>1, <2>2, RetryKept
<1>4. CASE Return(c) \/ MaxRetriesReached(c)
  <2>1. /\ UNCHANGED <<frames, retry>> /\ pc[c] = "resumed" /\ pc' = [pc EXCEPT ![c] = "idle"]
    BY <1>4 DEF Return, MaxRetriesReached, GiveUp, TimedOut
  <2>2. \A d \in Callers : d # c => pc[d] \notin {"awaiting", "resumed"}
    BY <2>1, HolderAlone DEF Holds
  <2> QED
    BY <1>0, <2>1, <2>2, RetryKept DEF Answered
<1>5. CASE Retry(c)
  <2>1. /\ pc[c] = "resumed" /\ fut[c] = Cancelled /\ retry < MaxRetries /\ retry' = retry + 1
        /\ frames' = [frames EXCEPT ![c] = @ + 1] /\ pc' = [pc EXCEPT ![c] = "acquire"]
    BY <1>5 DEF Retry, Nested, TimedOut
  <2>2. \A d \in Callers : d # c => pc[d] \notin {"awaiting", "resumed"}
    BY <2>1, HolderAlone DEF Holds
  <2>3. ASSUME NEW d \in Callers
        PROVE  frames'[d] <= MaxRetries + 1 /\ (pc'[d] # "idle" => frames'[d] <= retry' + 1)
    <3>1. CASE d = c
      <4>1. frames[c] <= retry + 1
        BY <2>1 DEF RetryInv, Answered
      <4>2. frames'[c] = frames[c] + 1
        BY <1>0, <2>1
      <4> QED
        BY <1>0, <2>1, <3>1, <4>1, <4>2
    <3>2. CASE d # c
      <4>1. frames'[d] = frames[d] /\ pc'[d] = pc[d] /\ ~Answered(d)
        BY <1>0, <2>1, <2>2, <3>2 DEF Answered
      <4>2. frames[d] <= MaxRetries + 1 /\ (pc[d] # "idle" => frames[d] <= retry + 1)
        BY <4>1 DEF RetryInv
      <4> QED
        BY <1>0, <2>1, <4>1, <4>2
    <3> QED
      BY <3>1, <3>2
  <2> QED
    BY <2>3 DEF RetryInv
<1>6. CASE RecursionLimit(c)
  <2>1. /\ retry' = retry + 1 /\ frames' = frames /\ pc[c] = "resumed"
        /\ pc' = [pc EXCEPT ![c] = "idle"]
    BY <1>6 DEF RecursionLimit, TimedOut
  <2>2. \A d \in Callers : d # c => pc[d] \notin {"awaiting", "resumed"} /\ pc'[d] = pc[d]
    BY <1>0, <2>1, HolderAlone DEF Holds
  <2>3. ASSUME NEW d \in Callers
        PROVE  frames[d] <= MaxRetries + 1 /\ (pc'[d] # "idle" => frames[d] <= retry' + 1)
    <3>1. frames[d] <= MaxRetries + 1 /\ (pc'[d] # "idle" => frames[d] <= retry + 1)
      BY <1>0, <2>1, <2>2 DEF RetryInv, Answered
    <3> QED
      BY <1>0, <2>1, <3>1
  <2> QED
    BY <2>1, <2>3 DEF RetryInv
<1>7. ~SendFails(c) /\ ~ConnectFails(c)
  BY DEF SendFails, ConnectFails, Orderly
<1> QED
  BY <1>2, <1>3, <1>4, <1>5, <1>6, <1>7 DEF Coroutine

LEMMA RetryStepCallback ==
    ASSUME TypeOK, LockInv, LinkInv, AnswerComes, AnswerInv, Orderly, TimerInv, RetryInv,
           \A c, d \in Callers : c = d, RunCallback
    PROVE  RetryInv'
<1>1. ASSUME NEW c \in Callers, WakeAcquired(c) \/ WakeAwaited(c) PROVE RetryInv'
  <2>1. /\ UNCHANGED <<frames, retry, fut>>
        /\ \/ pc[c] = "waiting" /\ pc' = [pc EXCEPT ![c] = "connect"]
           \/ pc[c] = "connecting" /\ pc' = [pc EXCEPT ![c] = "send"]
           \/ pc[c] = "awaiting" /\ pc' = [pc EXCEPT ![c] = "resumed"]
    BY <1>1 DEF WakeAcquired, WakeAwaited, exchange
  <2>2. \A d \in Callers : (pc'[d] # "idle" => pc[d] # "idle") /\ (Answered(d) => Answered(d)')
    BY <2>1 DEF Answered, TypeOK
  <2> QED
    BY <2>1, <2>2, RetryKept
<1>2. ASSUME UNCHANGED <<pc, frames, retry, fut>> PROVE RetryInv'
  BY <1>2, RetryKept DEF Answered
<1>3. ASSUME NEW c \in Callers, ConnectionMade(c) PROVE RetryInv'
  BY <1>2, <1>3 DEF ConnectionMade, callerVars, exchange
<1>4. CASE ConnectionLost
  BY <1>4, SettledAnswers DEF ConnectionLost, callerVars
<1>5. CASE (\E t \in TimerIds : TimerExpired(t)) \/ InvalidHandled
  <2>1. InFlight /\ TimeoutMechanism
    BY <1>5, RunFacts DEF TimerExpired, InvalidHandled, Runs, TimerInv, OneEnding
  <2> QED
    BY <2>1, SettledAnswers DEF TimeoutMechanism, callerVars
<1>6. CASE SkipCancelled
  BY <1>2, <1>6 DEF SkipCancelled, callerVars, exchange
<1>7. ASSUME NEW d \in Datagrams, ReceiveAnswer(d) PROVE RetryInv'
  <2>1. InFlight /\ owner \in Callers /\ pc[owner] = "awaiting"
    <3>1. InFlight
      BY <1>7, ReadAnswers DEF ReceiveAnswer
    <3> QED
      BY <3>1, PieceFacts DEF LockInv, FutureBelongsToWaiter, InFlight
  <2>2. fut' = [fut EXCEPT ![owner] = Answer(d.cmd)] /\ UNCHANGED <<pc, frames>>
    BY <1>7, <2>1 DEF ReceiveAnswer, Receive, Settle, callerVars
  <2>3. \A c \in Callers : Answered(c)'
    BY <2>1, <2>2, FutureValues DEF Answered, TypeOK
  <2> QED
    BY <2>2, <2>3 DEF RetryInv
<1>8. ASSUME NEW d \in Datagrams,
             ReceivePartial(d) \/ ReceiveReject(d) \/ ReceiveInvalid(d) \/ ReceiveError(d)
      PROVE  RetryInv'
  <2>1. /\ UNCHANGED <<pc, frames, retry>> /\ (fut' = fut \/ \E v : fut' = Settle(v))
    BY <1>8 DEF ReceivePartial, ReceiveReject, ReceiveInvalid, ReceiveError, Receive, callerVars
  <2> QED
    BY <1>2, <2>1, SettledAnswers
<1> QED
  BY <1>1, <1>3, <1>4, <1>5, <1>6, <1>7, <1>8 DEF RunCallback

LEMMA RetryStep ==
    ASSUME TypeOK, LockInv, LinkInv, AnswerComes, AnswerInv, Orderly, TimerInv, RetryInv,
           \A c, d \in Callers : c = d, [Next]_vars
    PROVE  RetryInv'
<1>1. ASSUME NEW c \in Callers, NEW k \in Commands, Call(c, k) PROVE RetryInv'
  <2>1. /\ frames' = [frames EXCEPT ![c] = 1] /\ UNCHANGED <<retry, fut>>
        /\ pc' = [pc EXCEPT ![c] = "acquire"]
    BY <1>1 DEF Call, exchange
  <2>2. /\ \A d \in Callers : d = c
        /\ frames'[c] = 1
    BY <2>1 DEF TypeOK
  <2>3. 1 <= MaxRetries + 1 /\ 1 <= retry' + 1
    BY <2>1, ConstantsAssumption DEF TypeOK
  <2> QED
    BY <2>2, <2>3 DEF RetryInv
<1>2. CASE UNCHANGED <<pc, frames, retry, fut>>
  BY <1>2, RetryKept DEF Answered
<1>3. CASE Select
  BY <1>2, <1>3 DEF Select, PollReadable, PollTimer, PollEnds, callerVars, exchange
<1>4. CASE UNCHANGED vars
  BY <1>2, <1>4 DEF vars, callerVars, exchange
<1> QED
  BY <1>1, <1>3, <1>4, RetryStepCoroutine, RetryStepCallback DEF Next, Loop, AllReturned

LEMMA InitRetry == Init => RetryInv
  BY ConstantsAssumption DEF Init, RetryInv

\* A coroutine alone on the protocol object sends at most retries+1 requests: where
\* each attempt has a socket of its own every timeout is counted, and nothing but its
\* answer resets the count (protocol.py:150, 217-223, 232-235).
THEOREM AttemptsAreBounded ==
    ASSUME Orderly, \A c, d \in Callers : c = d
    PROVE  Spec => []AttemptsBounded
<1>1. Init => RetryInv
  BY InitRetry
<1>2. TypeOK /\ LockInv /\ LinkInv /\ AnswerComes /\ AnswerInv /\ TimerInv /\ RetryInv /\ [Next]_vars
        => RetryInv'
  BY RetryStep
<1>3. RetryInv => AttemptsBounded
  BY DEF RetryInv, AttemptsBounded
<1> QED
  BY <1>1, <1>2, <1>3, TimerInvariance, PTL DEF Spec

-----------------------------------------------------------------------------
(* The service: what the abstract state depends on. *)

phaseBar   == [c \in Callers |-> Phase(c)]
outcomeBar == [c \in Callers |-> Outcome(c)]

\* A step that leaves everybody's phase and last outcome alone.
LEMMA Stutters ==
    ASSUME request' = request,
           \A c \in Callers : Phase(c)' = Phase(c) /\ Outcome(c)' = Outcome(c)
    PROVE  UNCHANGED Service!vars
<1>1. phaseBar' = phaseBar /\ outcomeBar' = outcomeBar
  BY Zenon DEF phaseBar, outcomeBar
<1> QED
  BY <1>1 DEF Service!vars, phaseBar, outcomeBar

\* Outcomes are read off the futures of idle coroutines only.
LEMMA OutcomeKept ==
    ASSUME NEW c \in Callers,
           pc'[c] = "idle" <=> pc[c] = "idle",
           pc[c] = "idle" => fut'[c] = fut[c]
    PROVE  Outcome(c)' = Outcome(c)
  BY DEF Outcome

LEMMA PhaseKept ==
    ASSUME NEW c \in Callers, Holds(c)' <=> Holds(c), pc'[c] = "idle" <=> pc[c] = "idle"
    PROVE  Phase(c)' = Phase(c)
  BY DEF Phase

\* Completing the future in flight is no outcome yet: its coroutine awaits it.
LEMMA SettledUnseen ==
    ASSUME TypeOK, LockInv, NEW v, NEW c \in Callers, pc[c] = "idle"
    PROVE  Settle(v)[c] = fut[c]
  BY PieceFacts DEF TypeOK, LockInv, FutureBelongsToWaiter, Settle, InFlight

\* A handler that leaves the coroutines alone.
LEMMA HandlerStutters ==
    ASSUME TypeOK, LockInv, UNCHANGED <<pc, request>>,
           fut' = fut \/ \E v : fut' = Settle(v)
    PROVE  UNCHANGED Service!vars
<1>1. \A c \in Callers : pc[c] = "idle" => fut'[c] = fut[c]
  BY SettledUnseen
<1>2. \A c \in Callers : Holds(c)' <=> Holds(c)
  BY DEF Holds
<1> QED
  BY <1>1, <1>2, OutcomeKept, PhaseKept, Stutters

\* A step of c that neither begins nor ends its call nor its turn.
LEMMA OwnStutter ==
    ASSUME TypeOK, NEW c \in Callers, request' = request,
           NEW p, pc' = [pc EXCEPT ![c] = p],
           \/ p = "waiting" /\ pc[c] = "acquire"
           \/ /\ p \in {"connecting", "send", "awaiting", "resumed"}
              /\ pc[c] \in {"connect", "connecting", "send", "awaiting"},
           \A d \in Callers : d # c => fut'[d] = fut[d]
    PROVE  UNCHANGED Service!vars
<1>1. pc'[c] = p /\ \A d \in Callers : d # c => pc'[d] = pc[d]
  BY DEF TypeOK
<1>2. \A d \in Callers : /\ Holds(d)' <=> Holds(d)
                         /\ pc'[d] = "idle" <=> pc[d] = "idle"
                         /\ pc[d] = "idle" => fut'[d] = fut[d]
  BY <1>1 DEF Holds
<1> QED
  BY <1>2, OutcomeKept, PhaseKept, Stutters

-----------------------------------------------------------------------------
(* The four operations of the service. *)

\* A step of one coroutine changes only its own entry of the abstract state.
LEMMA OneMoves ==
    ASSUME NEW c \in Callers,
           \A d \in Callers : d # c => pc'[d] = pc[d] /\ (pc[d] = "idle" => fut'[d] = fut[d])
    PROVE  /\ phaseBar' = [phaseBar EXCEPT ![c] = Phase(c)']
           /\ outcomeBar' = [outcomeBar EXCEPT ![c] = Outcome(c)']
<1>1. \A d \in Callers : d # c => Phase(d)' = Phase(d) /\ Outcome(d)' = Outcome(d)
  BY DEF Phase, Outcome, Holds
<1> QED
  BY <1>1, Zenon DEF phaseBar, outcomeBar

\* execute begins.
LEMMA CallSubmits ==
    ASSUME TypeOK, LockInv, NEW c \in Callers, NEW k \in Commands, Call(c, k)
    PROVE  Service!Submit(c, k)
<1>1. /\ pc[c] = "idle" /\ pc'[c] = "acquire" /\ request' = [request EXCEPT ![c] = k]
      /\ fut' = fut /\ \A d \in Callers : d # c => pc'[d] = pc[d]
  BY DEF Call, TypeOK, exchange
<1>2. Phase(c) = "idle" /\ Phase(c)' = "queued" /\ Outcome(c)' = <<>>
  BY <1>1 DEF Phase, Outcome, Holds
<1>3. phaseBar' = [phaseBar EXCEPT ![c] = "queued"] /\ outcomeBar' = [outcomeBar EXCEPT ![c] = <<>>]
  BY <1>1, <1>2, OneMoves
<1>4. phaseBar[c] = "idle"
  BY <1>2 DEF phaseBar
<1> QED
  BY <1>1, <1>3, <1>4 DEF Service!Submit, Service!Pending, phaseBar, outcomeBar

\* A coroutine takes the lock, which nobody holds.
LEMMA AcquireDispatches ==
    ASSUME TypeOK, LockInv, NEW c \in Callers, AcquireFree(c) \/ WakeAcquired(c)
    PROVE  Service!Dispatch(c)
<1>1. /\ pc[c] \in {"acquire", "waiting"} /\ pc'[c] = "connect" /\ UNCHANGED <<request, fut>>
      /\ \A d \in Callers : d # c => pc'[d] = pc[d]
  BY DEF AcquireFree, TakeLock, WakeAcquired, TypeOK, exchange
<1>2. ~locked
  BY RunFacts DEF AcquireFree, WakeAcquired, Runs, LockInv, WokenIsHead
<1>3. Phase(c) = "queued" /\ Phase(c)' = "active" /\ Outcome(c)' = Outcome(c)
  BY <1>1 DEF Phase, Outcome, Holds
<1>4. /\ phaseBar' = [phaseBar EXCEPT ![c] = "active"]
      /\ outcomeBar' = [outcomeBar EXCEPT ![c] = Outcome(c)]
  BY <1>1, <1>3, OneMoves
<1>5. /\ phaseBar[c] = "queued" /\ outcomeBar' = outcomeBar
      /\ \A d \in Callers : phaseBar[d] # "active"
  BY <1>2, <1>3, <1>4 DEF phaseBar, outcomeBar, Phase, LockInv, MutualExclusion
<1> QED
  BY <1>1, <1>4, <1>5 DEF Service!Dispatch, Service!Free, phaseBar, outcomeBar

\* What the ways out of send_request have in common.
LEMMA LeaveFacts ==
    ASSUME TypeOK, LockInv, AnswerInv, NEW c \in Callers,
           Return(c) \/ Retry(c) \/ RecursionLimit(c) \/ MaxRetriesReached(c)
    PROVE  /\ pc[c] = "resumed" /\ request' = request /\ request[c] \in Commands
           /\ phaseBar[c] = "active"
           /\ \A d \in Callers : d # c => pc'[d] = pc[d] /\ fut'[d] = fut[d]
           /\ \/ Retry(c) /\ pc'[c] = "acquire"
              \/ pc'[c] = "idle" /\ Return(c) /\ fut'[c] = fut[c]
              \/ pc'[c] = "idle" /\ fut'[c] \in {Cancelled, Exhausted}
<1>1. pc[c] = "resumed" /\ request' = request
  BY DEF Return, Retry, Nested, TimedOut, RecursionLimit, MaxRetriesReached, GiveUp
<1>2. Settle(Cancelled) = fut
  BY <1>1, ResumedAlone DEF Settle
<1>3. ReleaseAndDrop => fut' = fut
  BY <1>2 DEF ReleaseAndDrop
<1>4. phaseBar[c] = "active" /\ request[c] \in Commands
  BY <1>1 DEF phaseBar, Phase, Holds, AnswerInv, AsksItsCommand
<1>5. CASE Return(c)
  BY <1>1, <1>3, <1>4, <1>5 DEF Return, TypeOK
<1>6. CASE Retry(c)
  BY <1>1, <1>3, <1>4, <1>6 DEF Retry, Nested, TypeOK
<1>7. CASE RecursionLimit(c)
  BY <1>1, <1>3, <1>4, <1>7 DEF RecursionLimit, TimedOut, TypeOK
<1>8. CASE MaxRetriesReached(c)
  BY <1>1, <1>2, <1>4, <1>8 DEF MaxRetriesReached, GiveUp, TypeOK
<1> QED
  BY <1>5, <1>6, <1>7, <1>8

\* A retry queues again behind whoever waits.
LEMMA RetryRequeues ==
    ASSUME TypeOK, LockInv, AnswerInv, NEW c \in Callers, Retry(c)
    PROVE  Service!Requeue(c)
<1>1. /\ pc[c] = "resumed" /\ request' = request /\ phaseBar[c] = "active"
      /\ pc'[c] = "acquire"
      /\ \A d \in Callers : d # c => pc'[d] = pc[d] /\ fut'[d] = fut[d]
  BY LeaveFacts DEF Retry, Nested, TypeOK
<1>2. Phase(c)' = "queued" /\ Outcome(c)' = Outcome(c)
  BY <1>1 DEF Phase, Outcome, Holds
<1>3. /\ phaseBar' = [phaseBar EXCEPT ![c] = "queued"]
      /\ outcomeBar' = [outcomeBar EXCEPT ![c] = Outcome(c)]
  BY <1>1, <1>2, OneMoves
<1>4. outcomeBar' = outcomeBar
  BY <1>3 DEF outcomeBar
<1> QED
  BY <1>1, <1>3, <1>4 DEF Service!Requeue, phaseBar, outcomeBar

\* The other ways out end the call, with an acceptable answer or a failure.
LEMMA LeaveCompletes ==
    ASSUME TypeOK, LockInv, AnswerInv, NEW c \in Callers,
           Return(c) \/ RecursionLimit(c) \/ MaxRetriesReached(c)
    PROVE  Service!Complete(c)
<1>0. pc'[c] = "idle"
  BY DEF Return, RecursionLimit, TimedOut, MaxRetriesReached, GiveUp, TypeOK
<1>1. /\ pc[c] = "resumed" /\ request' = request /\ request[c] \in Commands
      /\ phaseBar[c] = "active"
      /\ \A d \in Callers : d # c => pc'[d] = pc[d] /\ fut'[d] = fut[d]
      /\ fut'[c] = fut[c] \/ fut'[c] \in {Cancelled, Exhausted}
  BY <1>0, LeaveFacts
<1>2. Phase(c)' = "idle"
  BY <1>0 DEF Phase, Holds
<1>3. Outcome(c)' \in {<<"rejected">>, <<"failed">>}
                        \cup {Answer(k) : k \in Admitted[request[c]]}
  <2>1. CASE \E k \in Commands : fut'[c] = Answer(k)
    <3>1. PICK k \in Commands : fut'[c] = Answer(k)
      BY <2>1
    <3>2. Outcome(c)' = Answer(k)
      BY <1>0, <3>1 DEF Outcome, Answer, Rejected
    <3>3. fut[c] = Answer(k)
      BY <1>1, <3>1, FutureValues
    <3>4. k \in Admitted[request[c]]
      BY <1>1, <3>3 DEF AnswerInv, AnswersFit, Acceptable, Admitted
    <3> QED
      BY <3>2, <3>4
  <2>2. CASE ~\E k \in Commands : fut'[c] = Answer(k)
    BY <1>0, <2>2 DEF Outcome
  <2> QED
    BY <2>1, <2>2
<1>4. /\ phaseBar' = [phaseBar EXCEPT ![c] = "idle"]
      /\ outcomeBar' = [outcomeBar EXCEPT ![c] = Outcome(c)']
  BY <1>1, <1>2, OneMoves
<1>5. Outcome(c)' \in Service!Failures
                        \cup {Service!Answer(k) : k \in Admitted[request[c]]}
  BY <1>3 DEF Service!Failures, Service!Answer, Answer
<1>6. outcomeBar' \in {[outcomeBar EXCEPT ![c] = o] :
                o \in Service!Failures \cup {Service!Answer(k) : k \in Admitted[request[c]]}}
  BY <1>4, <1>5
<1> QED
  BY <1>1, <1>4, <1>6 DEF Service!Complete, phaseBar, outcomeBar

-----------------------------------------------------------------------------
(* Every step. *)

LEMMA CoroutineServes ==
    ASSUME TypeOK, LockInv, AnswerInv, NEW c \in Callers, Coroutine(c)
    PROVE  [Service!Next]_(Service!vars)
<1>1. CASE AcquireFree(c)
  BY <1>1, AcquireDispatches DEF Service!Next
<1>2. CASE AcquireWait(c) \/ Connect(c)
  BY <1>2, OwnStutter DEF AcquireWait, Connect, exchange
<1>3. CASE SendFails(c) \/ \E r \in Reactions : Send(c, r)
  BY <1>3, OwnStutter DEF SendFails, Send, TypeOK
<1>6. CASE ConnectFails(c)
  BY <1>6, OwnStutter DEF ConnectFails, TypeOK
<1>4. CASE Retry(c)
  BY <1>4, RetryRequeues DEF Service!Next
<1>5. CASE Return(c) \/ RecursionLimit(c) \/ MaxRetriesReached(c)
  BY <1>5, LeaveCompletes DEF Service!Next
<1> QED
  BY <1>1, <1>2, <1>3, <1>4, <1>5, <1>6 DEF Coroutine

LEMMA CallbackServes ==
    ASSUME TypeOK, LockInv, RunCallback
    PROVE  [Service!Next]_(Service!vars)
<1>1. ASSUME NEW c \in Callers, WakeAcquired(c) PROVE Service!Next
  BY <1>1, AcquireDispatches DEF Service!Next
<1>2. ASSUME NEW c \in Callers, WakeAwaited(c) PROVE UNCHANGED Service!vars
  BY <1>2, OwnStutter DEF WakeAwaited, exchange
<1>3. ASSUME NEW c \in Callers, ConnectionMade(c) PROVE UNCHANGED Service!vars
  BY <1>3, HandlerStutters DEF ConnectionMade, callerVars, exchange
<1>4. CASE ConnectionLost \/ InvalidHandled \/ SkipCancelled \/ \E t \in TimerIds : TimerExpired(t)
  BY <1>4, HandlerStutters
     DEF ConnectionLost, InvalidHandled, SkipCancelled, TimerExpired, TimeoutMechanism,
         callerVars, exchange
<1>5. ASSUME NEW d \in Datagrams,
             \/ ReceiveAnswer(d) \/ ReceivePartial(d) \/ ReceiveReject(d)
             \/ ReceiveInvalid(d) \/ ReceiveError(d)
      PROVE  UNCHANGED Service!vars
  BY <1>5, HandlerStutters
     DEF ReceiveAnswer, ReceivePartial, ReceiveReject, ReceiveInvalid, ReceiveError, Receive,
         callerVars
<1> QED
  BY <1>1, <1>2, <1>3, <1>4, <1>5 DEF RunCallback

LEMMA StepServes ==
    ASSUME TypeOK, LockInv, AnswerInv, [Next]_vars
    PROVE  [Service!Next]_(Service!vars)
<1>1. ASSUME NEW c \in Callers, NEW k \in Commands, Call(c, k) PROVE Service!Next
  BY <1>1, CallSubmits DEF Service!Next
<1>2. CASE Select
  BY <1>2, HandlerStutters DEF Select, PollReadable, PollTimer, PollEnds, callerVars, exchange
<1>3. CASE UNCHANGED vars
  BY <1>3, HandlerStutters DEF vars, callerVars, exchange
<1> QED
  BY <1>1, <1>2, <1>3, CoroutineServes, CallbackServes DEF Next, Loop, AllReturned

LEMMA InitServes == Init => Service!Init
<1> SUFFICES ASSUME Init PROVE Service!Init
  OBVIOUS
<1>1. \A c \in Callers : pc[c] = "idle" /\ fut[c] = NoFuture
  BY DEF Init
<1>2. \A c \in Callers : Phase(c) = "idle" /\ Outcome(c) = <<"failed">>
  BY <1>1, FutureValues DEF Phase, Holds, Outcome, NoFuture, Rejected
<1> QED
  BY <1>2 DEF Init, Service!Init

\* Whatever the network does, the coroutines that share a protocol object see a
\* service that asks the inverter one question at a time and ends each with an
\* acceptable answer or a failure (protocol.py:178-214, 444-464).
THEOREM ServiceSafety == Spec => Service!Safety
<1>1. Init => Service!Init
  BY InitServes
<1>2. TypeOK /\ LockInv /\ LinkInv /\ AnswerComes /\ AnswerInv /\ [Next]_vars
        => [Service!Next]_(Service!vars)
  BY StepServes
<1> QED
  BY <1>1, <1>2, ExchangeInvariance, PTL DEF Spec, Service!Safety
=============================================================================
